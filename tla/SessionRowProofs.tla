---- MODULE SessionRowProofs ----
(***************************************************************************)
(* The map, the rows and recovery: what loadFromDB makes of the sessions   *)
(* that have survived the server, that no result of an agent is lost, and  *)
(* that the two views of a session agree.  For every number of sessions,   *)
(* slots, crashes and restarts, with Stop called at any time, also while   *)
(* an agent ends, with goroutines held up anywhere and every write of the  *)
(* store possibly overtaken by another.                                    *)
(***************************************************************************)
EXTENDS SessionManagerProofs

----------------------------------------------------------------------------
(* Recovery, whatever came before it: a server may have ended anywhere,    *)
(* writes may have been lost, overtaken or never begun.                    *)

\* Nobody is at work while loadFromDB is, and every session it has passed
\* whose VM has survived is ready in the map and has its slot.
Back ==
  cursor > 0 =>
    /\ \A g \in Procs, s \in Sids : pc[g][s] = "idle" /\ pend[g][s] = NoRow
    /\ \A s \in Sids : s < cursor /\ Survivor(s) =>
         s \in inMap /\ sess[s].st = "ready" /\ rows[s].slot \in usedSlots

\* What is not a step of recovery needs a server that serves, or a goroutine
\* that is at work; the end of the process makes every goroutine idle.
LEMMA ServingStep ==
  ASSUME TInv, Back, Next, ~LoadStep, ~\E reboot \in BOOLEAN : Crash(reboot)
  PROVE  cursor = 0 /\ cursor' = 0
<1>1. ASSUME NEW g \in Procs, NEW s \in Sids,
             pc[g][s] # "idle" \/ pend[g][s] # NoRow
      PROVE  cursor = 0
  BY <1>1 DEF Back, TInv, TypeOK
<1>2. ASSUME NEW g \in Procs, NEW s \in Sids, TeardownStep(g, s)
      PROVE  cursor = 0 /\ cursor' = cursor
  <2>1. PICK places : Teardown(g, s, places) /\ "idle" \notin places
    BY <1>2 DEF TeardownStep, StopVM, DeleteSnapshot, freeSlot, MarkStopped, DropFromMap,
                DeleteRow, CleanupWorkspace
  <2>2. cursor' = cursor
    BY <1>2 DEF TeardownStep, StopVM, DeleteSnapshot, freeSlot, MarkStopped, DropFromMap,
                DeleteRow, CleanupWorkspace, bounds
  <2> QED
    BY <1>1, <2>1, <2>2 DEF Teardown
<1>3. ASSUME NEW s \in Sids, BootStep(s) \/ AgentStep(s) \/ Upsert("stop", s)
      PROVE  cursor = 0 /\ cursor' = cursor
  <2>1. (\E g \in Procs : pc[g][s] # "idle" \/ pend[g][s] # NoRow) /\ cursor' = cursor
    <3>1. CASE Upsert("boot", s) \/ Upsert("stop", s)
      BY <3>1, SMTT(20) DEF Upsert, Procs, bounds
    <3>2. CASE ~Upsert("boot", s) /\ ~Upsert("stop", s)
      BY <1>3, <3>2
      DEF BootStep, AgentStep, Clone, CreateSnapshot, InjectNetworkConfig, Launch, WaitForSSH,
          Setup, FailRelease, FailTransition, AgentUsageLimit, AgentError, AgentDone, At, Procs,
          bounds
    <3> QED
      BY <3>1, <3>2
  <2> QED
    BY <1>1, <2>1
<1>4. ASSUME NEW role \in Roles, NEW repo \in Repos, Create(role, repo)
      PROVE  cursor = 0 /\ cursor' = cursor
  BY <1>4 DEF Create, bounds
<1>5. ASSUME NEW s \in Sids, Restart(s) \/ Stop(s) \/ StopTerminal(s)
      PROVE  cursor = 0 /\ cursor' = cursor
  BY <1>5 DEF Restart, Stop, StopAccepted, StopTerminal, StopCallable, bounds
<1> QED
  BY <1>2, <1>3, <1>4, <1>5 DEF Next, Procs

\* What loadFromDB does with one row.
LEMMA LoadOne ==
  ASSUME TInv, NEW s \in Sids,
         LoadNothing(s) \/ LoadReady(s) \/ LoadMidway(s) \/ LoadTerminal(s)
  PROVE  /\ cursor = s /\ cursor' = s + 1 /\ UNCHANGED <<pc, pend>>
         /\ usedSlots \subseteq usedSlots'
         /\ inMap \subseteq inMap'
         /\ \A t \in Sids : t # s => /\ rows'[t] = rows[t] /\ sess'[t] = sess[t]
                                     /\ (t \in inMap' <=> t \in inMap)
         /\ vms' \subseteq vms
         /\ \A x \in vms \ vms' : rows[s].st \in Midway /\ x[2] = rows[s].slot
         /\ Survivor(s) => /\ rows'[s] = rows[s] /\ s \in inMap' /\ sess'[s].st = "ready"
                           /\ rows[s].slot \in usedSlots'
         /\ Survivor(s)' => Survivor(s)
<1>0. sess \in [Sids -> Session] /\ rows \in [Sids -> Row \cup {NoRow}]
  BY DEF TInv, TypeOK
<1>a. ASSUME NEW x, LoadAs(s, x)
      PROVE  /\ s \in inMap' /\ inMap \subseteq inMap' /\ sess'[s] = x
             /\ \A t \in Sids : t # s => sess'[t] = sess[t] /\ (t \in inMap' <=> t \in inMap)
  BY <1>0, <1>a DEF LoadAs
<1>b. ASSUME LoadFailed(s), rows[s] \in Row
      PROVE  /\ inMap \subseteq inMap'
             /\ \A t \in Sids : t # s => /\ rows'[t] = rows[t] /\ sess'[t] = sess[t]
                                         /\ (t \in inMap' <=> t \in inMap)
             /\ rows'[s] = rows[s] \/ rows'[s].st = "failed"
  <2> DEFINE x == FromRow(rows[s], "failed", "none", "other")
  <2>1. LoadAs(s, x) /\ Stored(s, RowOf(x))
    BY <1>b DEF LoadFailed
  <2>2. x \in Session /\ x.st = "failed"
    BY <1>b DEF FromRow, NoSession, Row, Session, States, AllRoles, Errors, Asks
  <2>3. RowOf(x) \in Row /\ RowOf(x).st = "failed"
    BY <2>2, RowOfType DEF RowOf, States
  <2> HIDE DEF x
  <2> QED
    BY <1>0, <1>a, <2>1, <2>3, StoredEffect
<1>1. CASE LoadNothing(s)
  BY <1>0, <1>1 DEF LoadNothing, Loading, maps, host, Survivor, NoRow
<1>2. CASE LoadTerminal(s)
  BY <1>0, <1>a, <1>2 DEF LoadTerminal, Loading, maps, host, Survivor
<1>3. CASE LoadMidway(s)
  <2>1. rows[s] \in Row
    BY <1>0, <1>3 DEF LoadMidway, Midway, NoRow
  <2>2. rows[s].st # "ready"
    BY <1>3 DEF LoadMidway, Midway
  <2>3. rows'[s].st # "ready"
    BY <1>b, <1>3, <2>1, <2>2 DEF LoadMidway
  <2> QED
    BY <1>b, <1>3, <2>1, <2>2, <2>3 DEF LoadMidway, Loading, Survivor
<1>4. CASE LoadReady(s)
  <2>1. rows[s] \in Row /\ rows[s].st = "ready"
    BY <1>0, <1>4 DEF LoadReady, NoRow
  <2>2. Loading(s) /\ UNCHANGED <<pc, pend, vms>>
    BY <1>4 DEF LoadReady, host
  <2>3. CASE IsSocketAlive(rows[s].slot)
    <3>1. /\ LoadAs(s, FromRow(rows[s], "ready", "detached", rows[s].err))
          /\ usedSlots' = usedSlots \cup {rows[s].slot} /\ rows' = rows
      BY <1>4, <2>3 DEF LoadReady
    <3>2. FromRow(rows[s], "ready", "detached", rows[s].err).st = "ready"
      BY DEF FromRow, NoSession
    <3> QED
      BY <1>a, <2>1, <2>2, <3>1, <3>2 DEF Loading, Survivor
  <2>4. CASE ~IsSocketAlive(rows[s].slot)
    <3>1. LoadFailed(s) /\ usedSlots' = usedSlots
      BY <1>4, <2>4 DEF LoadReady
    <3>2. ~Survivor(s)
      BY <2>4 DEF Survivor, IsSocketAlive
    <3>3. ~Survivor(s)'
      BY <1>b, <2>1, <2>2, <3>1, <3>2 DEF Survivor
    <3> QED
      BY <1>b, <2>1, <2>2, <3>1, <3>2, <3>3 DEF Loading
  <2> QED
    BY <2>3, <2>4
<1> QED
  BY <1>1, <1>2, <1>3, <1>4

\* What it makes of a row, and what the row is afterwards.
LEMMA LoadView ==
  ASSUME TInv, NEW s \in Sids,
         LoadNothing(s) \/ LoadReady(s) \/ LoadMidway(s) \/ LoadTerminal(s)
  PROVE  /\ created' = created
         /\ rows[s] = NoRow => rows'[s] = NoRow /\ UNCHANGED <<inMap, sess>>
         /\ rows[s] # NoRow =>
              /\ s \in inMap' /\ ~sess'[s].res /\ sess'[s].asked = "no" /\ rows'[s] # NoRow
              /\ rows'[s] = rows[s]
                 \/ (rows[s].st \in Midway \cup {"ready"} /\ rows'[s].st = "failed")
              /\ "store" \notin Faults =>
                   rows'[s].st = sess'[s].st /\ rows'[s].slot = sess'[s].slot
<1>0. sess \in [Sids -> Session] /\ rows \in [Sids -> Row \cup {NoRow}]
  BY DEF TInv, TypeOK
<1>a. ASSUME NEW st, NEW v, NEW err, LoadAs(s, FromRow(rows[s], st, v, err))
      PROVE  /\ s \in inMap' /\ ~sess'[s].res /\ sess'[s].asked = "no"
             /\ sess'[s].st = st /\ sess'[s].slot = rows[s].slot
  <2>1. sess'[s] = FromRow(rows[s], st, v, err) /\ s \in inMap'
    BY <1>0, <1>a DEF LoadAs
  <2> QED
    BY <2>1 DEF FromRow, NoSession
<1>b. ASSUME LoadFailed(s), rows[s] \in Row
      PROVE  /\ s \in inMap' /\ ~sess'[s].res /\ sess'[s].asked = "no"
             /\ sess'[s].st = "failed" /\ sess'[s].slot = rows[s].slot
             /\ rows'[s] = rows[s] \/ rows'[s].st = "failed"
             /\ rows'[s] # NoRow
             /\ "store" \notin Faults => rows'[s].st = "failed" /\ rows'[s].slot = rows[s].slot
  <2> DEFINE x == FromRow(rows[s], "failed", "none", "other")
  <2>1. LoadAs(s, x) /\ Stored(s, RowOf(x))
    BY <1>b DEF LoadFailed
  <2>2. x \in Session /\ x.st = "failed" /\ x.slot = rows[s].slot
    BY <1>b DEF FromRow, NoSession, Row, Session, States, AllRoles, Errors, Asks
  <2>3. RowOf(x) \in Row /\ RowOf(x).st = "failed" /\ RowOf(x).slot = rows[s].slot
    BY <2>2, RowOfType DEF RowOf, States
  <2>4. rows'[s] = rows[s] \/ rows'[s] = RowOf(x)
    BY <1>0, <2>1, <2>3, StoredEffect
  <2>5. "store" \notin Faults => rows'[s] = RowOf(x)
    BY <1>0, <2>1, <2>3, StoredEffect
  <2>6. NoRow \notin Row
    BY DEF NoRow, Row, States
  <2>7. /\ s \in inMap' /\ ~sess'[s].res /\ sess'[s].asked = "no"
        /\ sess'[s].st = "failed" /\ sess'[s].slot = rows[s].slot
    BY <1>a, <2>1
  <2> HIDE DEF x
  <2> QED
    BY <1>b, <2>3, <2>4, <2>5, <2>6, <2>7
<1>1. CASE LoadNothing(s)
  BY <1>1 DEF LoadNothing, maps
<1>2. CASE LoadTerminal(s)
  <2>1. /\ rows[s] # NoRow /\ created' = created /\ rows' = rows
        /\ LoadAs(s, FromRow(rows[s], rows[s].st, "none", rows[s].err))
    BY <1>2 DEF LoadTerminal, NoRow
  <2>2. /\ s \in inMap' /\ ~sess'[s].res /\ sess'[s].asked = "no"
        /\ sess'[s].st = rows[s].st /\ sess'[s].slot = rows[s].slot
    BY <1>a, <2>1
  <2> QED
    BY <2>1, <2>2
<1>3. CASE LoadMidway(s)
  <2>1. rows[s] \in Row /\ rows[s] # NoRow /\ created' = created /\ LoadFailed(s)
        /\ rows[s].st \in Midway
    BY <1>0, <1>3 DEF LoadMidway, Midway, NoRow
  <2> QED
    BY <1>b, <2>1
<1>4. CASE LoadReady(s)
  <2>1. rows[s] \in Row /\ rows[s] # NoRow /\ rows[s].st = "ready" /\ created' = created
    BY <1>0, <1>4 DEF LoadReady, NoRow
  <2>2. \/ LoadFailed(s)
        \/ LoadAs(s, FromRow(rows[s], "ready", "detached", rows[s].err)) /\ rows' = rows
    BY <1>4 DEF LoadReady
  <2>3. CASE LoadFailed(s)
    BY <1>b, <2>1, <2>3
  <2>4. CASE LoadAs(s, FromRow(rows[s], "ready", "detached", rows[s].err)) /\ rows' = rows
    <3>1. /\ s \in inMap' /\ ~sess'[s].res /\ sess'[s].asked = "no"
          /\ sess'[s].st = "ready" /\ sess'[s].slot = rows[s].slot
      BY <1>a, <2>4
    <3> QED
      BY <2>1, <2>4, <3>1
  <2> QED
    BY <2>2, <2>3, <2>4
<1> QED
  BY <1>1, <1>2, <1>3, <1>4

LEMMA NextBack == TInv /\ Back /\ [Next]_vars => Back'
<1> SUFFICES ASSUME TInv, Back, [Next]_vars PROVE Back'
  OBVIOUS
<1>1. ASSUME NEW reboot \in BOOLEAN, Crash(reboot) PROVE Back'
  <2>1. /\ cursor' = 1
        /\ \A g \in Procs, s \in Sids : pc'[g][s] = "idle" /\ pend'[g][s] = NoRow
    BY <1>1 DEF Crash
  <2> QED
    BY <2>1 DEF Back, Sids
<1>2. ASSUME NEW s \in Sids,
             LoadNothing(s) \/ LoadReady(s) \/ LoadMidway(s) \/ LoadTerminal(s)
      PROVE  Back'
  <2>1. /\ cursor = s /\ cursor' = s + 1 /\ UNCHANGED <<pc, pend>>
        /\ usedSlots \subseteq usedSlots' /\ vms' \subseteq vms
        /\ \A t \in Sids : t # s => /\ rows'[t] = rows[t] /\ sess'[t] = sess[t]
                                    /\ (t \in inMap' <=> t \in inMap)
        /\ Survivor(s) => /\ rows'[s] = rows[s] /\ s \in inMap' /\ sess'[s].st = "ready"
                          /\ rows[s].slot \in usedSlots'
        /\ Survivor(s)' => Survivor(s)
    BY <1>2, LoadOne
  <2>2. cursor > 0 /\ cursor \in Nat
    BY <2>1 DEF Sids
  <2>3. ASSUME NEW t \in Sids, t < cursor', Survivor(t)'
        PROVE  t \in inMap' /\ sess'[t].st = "ready" /\ rows'[t].slot \in usedSlots'
    <3>1. CASE t = s
      BY <2>1, <2>3, <3>1
    <3>2. CASE t # s
      BY <2>1, <2>2, <2>3, <3>2 DEF Back, Survivor, Sids
    <3> QED
      BY <3>1, <3>2
  <2> QED
    BY <2>1, <2>2, <2>3 DEF Back
<1>3. CASE CleanupOrphans
  BY <1>3 DEF CleanupOrphans, Back
<1>4. CASE Next /\ ~LoadStep /\ ~\E reboot \in BOOLEAN : Crash(reboot)
  BY <1>4, ServingStep DEF Back
<1>5. CASE UNCHANGED vars
  BY <1>5 DEF vars, maps, host, bounds, Back, Survivor
<1> QED
  BY <1>1, <1>2, <1>3, <1>4, <1>5 DEF LoadStep

LEMMA RecoveredStep ==
  ASSUME TInv, Back, [Next]_vars, cursor > 0, crashes' = crashes,
         NEW s \in Sids, Survivor(s), ~Contested(s)
  PROVE  Recovered(s)
<1>1. ASSUME NEW t \in Sids,
             LoadNothing(t) \/ LoadReady(t) \/ LoadMidway(t) \/ LoadTerminal(t)
      PROVE  Recovered(s)
  <2>1. /\ cursor' = t + 1
        /\ t # s => rows'[s] = rows[s]
        /\ \A x \in vms \ vms' : rows[t].st \in Midway /\ x[2] = rows[t].slot
        /\ Survivor(t) => rows'[t] = rows[t]
    BY <1>1, LoadOne
  <2>2. <<s, rows[s].slot>> \in vms'
    <3>1. rows[s].st \notin Midway
      BY DEF Survivor, Midway
    <3>2. rows[t].st \in Midway => rows[t].slot # rows[s].slot
      BY <3>1 DEF Contested
    <3> QED
      BY <2>1, <3>2 DEF Survivor
  <2>3. cursor' # 0
    <3>1. cursor' = t + 1
      BY <2>1
    <3> QED
      BY <3>1 DEF Sids
  <2>4. rows'[s] = rows[s]
    <3>1. CASE t = s
      BY <2>1, <3>1
    <3> QED
      BY <2>1, <3>1
  <2> QED
    BY <2>2, <2>3, <2>4 DEF Recovered
<1>2. CASE CleanupOrphans
  <2>1. s < cursor
    BY <1>2, ConstantsAssumption DEF CleanupOrphans, Sids
  <2>2. s \in inMap /\ sess[s].st = "ready" /\ rows[s].slot \in usedSlots
    BY <2>1 DEF Back
  <2> QED
    BY <1>2, <2>2 DEF CleanupOrphans, maps, Recovered, Survivor
<1>3. CASE UNCHANGED vars
  BY <1>3 DEF vars, maps, host, bounds, Recovered, Survivor
<1>4. ~\E reboot \in BOOLEAN : Crash(reboot)
  BY DEF Crash, TInv, TypeOK
<1> QED
  BY <1>1, <1>2, <1>3, <1>4, ServingStep DEF LoadStep

\* loadFromDB never harms a session that the store has as ready and whose VM
\* has survived, unless the row of another one, caught midway, has its slot
\* (RecoveryKeepsReady), whatever the server was doing when it ended, and
\* whichever writes were lost, overtaken or cut off.
THEOREM ReadySurvivesRecovery == Spec => RecoveryKeepsReady
<1>1. Init => TInv /\ Back
  BY InitTInv DEF Init, Back
<1>2. TInv /\ Back /\ [Next]_vars => (TInv /\ Back)'
  BY NextTInv, NextBack
<1>3. TInv /\ Back /\ [Next]_vars =>
        [cursor > 0 /\ crashes' = crashes =>
           \A s \in Sids : Survivor(s) /\ ~Contested(s) => Recovered(s)]_vars
  BY RecoveredStep
<1> QED
  BY <1>1, <1>2, <1>3, PTL DEF Spec, RecoveryKeepsReady


----------------------------------------------------------------------------
(* What a step of the server does to the session it is about, and that it  *)
(* leaves the others alone.                                                *)

\* A step leaves session t alone, but for the host.
Untouched(t) ==
  /\ \A g \in Procs : pc'[g][t] = pc[g][t] /\ pend'[g][t] = pend[g][t]
  /\ sess'[t] = sess[t] /\ rows'[t] = rows[t] /\ (t \in inMap' <=> t \in inMap)

Beside(s) == \A t \in Sids : t # s => Untouched(t)

\* Goroutine g of session s goes from c to d, and has no row left to write
\* when it does.
Moved(g, s, c, d) ==
  /\ pc[g][s] = c /\ pend[g][s] = NoRow /\ pc'[g][s] = d
  /\ \A h \in Procs : h # g => pc'[h][s] = pc[h][s] /\ pend'[h][s] = pend[h][s]
  /\ sess'[s].slot = sess[s].slot /\ sess'[s].role = sess[s].role
  /\ sess'[s].asked = sess[s].asked

\* It builds no row.
Keeps(g, s, c, d) ==
  /\ Moved(g, s, c, d) /\ pend'[g][s] = NoRow
  /\ sess'[s].st = sess[s].st /\ sess'[s].res = sess[s].res
  /\ c \notin {"clone", "f_release", "agent"} => sess'[s] = sess[s]

\* It builds the row of the state it brings about.
Writes(g, s, c, d, to) ==
  /\ Moved(g, s, c, d) /\ pend'[g][s] = RowOf(sess'[s])
  /\ to \in States /\ sess'[s].st = to

Seen(s) == rows'[s] = rows[s] /\ (s \in inMap' <=> s \in inMap)

BootPair(c, d) ==
  \/ c = "clone" /\ d = "snapshot"
  \/ c = "snapshot" /\ d \in {"inject", "f_release"}
  \/ c \in {"inject", "launch", "f_kill"} /\ d = "f_snap"
  \/ c = "ssh" /\ d = "f_kill"
  \/ c \in {"setup", "f_snap"} /\ d = "f_release"
  \/ c = "f_release" /\ d = "f_failed"
  \/ c \in {"agent", "rmws"} /\ d = "idle"
  \/ c = "u_kill" /\ d = "u_snap"
  \/ c = "u_snap" /\ d = "u_free"
  \/ c = "u_free" /\ d = "u_drop"
  \/ c = "d_kill" /\ d = "d_snap"
  \/ c = "d_snap" /\ d = "d_free"
  \/ c = "d_free" /\ d = "d_stopped"

BootTells(s, c, d, to) ==
  \/ c = "inject" /\ d = "launch" /\ to = "booting"
  \/ c = "launch" /\ d = "ssh" /\ to = "waiting_ssh"
  \/ c = "ssh" /\ d = "setup" /\ to = "configuring"
  \/ c = "setup" /\ d = "idle" /\ to = "ready"
  \/ c = "setup" /\ d = "agent" /\ to = "ready" /\ sess[s].role # "interactive"
  \/ c = "f_failed" /\ d = "idle" /\ to = "failed"
  \/ c = "d_stopped" /\ d = "d_drop" /\ to = TryState(sess[s].st, "stopped")
  \/ c = "agent" /\ d = "u_kill" /\ to = sess[s].st /\ "usage" \in Outcomes

\* The steps of boot, but for its writes of the store.
BootMove(s) ==
  \/ \E c, d \in PCs : BootPair(c, d) /\ Keeps("boot", s, c, d) /\ Seen(s)
  \/ \E c, d \in PCs, to \in States :
       /\ BootTells(s, c, d, to) /\ Writes("boot", s, c, d, to) /\ Seen(s)
       /\ sess'[s].res = sess[s].res
       /\ c = "d_stopped" /\ sess[s].st = to => sess'[s] = sess[s]
  \/ Writes("boot", s, "agent", "d_kill", TryState(sess[s].st, "stopping")) /\ Seen(s)
  \/ \E c \in {"u_drop", "d_drop"} :
       Keeps("boot", s, c, "rmws") /\ rows'[s] = rows[s] /\ s \notin inMap'

StopPair(c, d) ==
  \/ c = "k_kill" /\ d = "k_snap"
  \/ c = "k_snap" /\ d = "k_free"
  \/ c = "k_free" /\ d = "k_stopped"
  \/ c = "rmws" /\ d = "idle"

\* The steps of Stop's goroutine, but for its call and its writes of rows.
StopMove(s) ==
  \/ \E c, d \in PCs : StopPair(c, d) /\ Keeps("stop", s, c, d) /\ Seen(s)
  \/ Keeps("stop", s, "k_stopped", "k_drop") /\ Seen(s) /\ ~CanTransition(sess[s].st, "stopped")
  \/ /\ Writes("stop", s, "k_stopped", "k_drop", "stopped") /\ Seen(s)
     /\ sess'[s].res = sess[s].res /\ CanTransition(sess[s].st, "stopped")
  \/ Keeps("stop", s, "k_drop", "k_delrow") /\ rows'[s] = rows[s] /\ s \notin inMap'
  \/ \E c \in {"k_delrow", "forget"} :
       /\ Keeps("stop", s, c, IF c = "forget" THEN "idle" ELSE "rmws")
       /\ Stored(s, NoRow) /\ (s \in inMap' <=> s \in inMap)

Written(g, s) ==
  /\ pend[g][s] # NoRow /\ pend'[g][s] = NoRow /\ Stored(s, pend[g][s])
  /\ \A h \in Procs : h # g => pend'[h][s] = pend[h][s]
  /\ \A h \in Procs : pc'[h][s] = pc[h][s]
  /\ sess'[s] = sess[s] /\ (s \in inMap' <=> s \in inMap)

LEMMA Typed ==
  ASSUME TInv
  PROVE  /\ sess \in [Sids -> Session] /\ pend \in PendType
         /\ pc \in [Procs -> [Sids -> PCs]] /\ rows \in [Sids -> Row \cup {NoRow}]
  BY DEF TInv, TypeOK, PendType

\* A goroutine that moves leaves the other sessions alone.
LEMMA MoveBeside ==
  ASSUME TInv, NEW g \in Procs, NEW s \in Sids, NEW d \in PCs, Goto(g, s, d),
         persistSession(g, s) \/ pend' = pend,
         \A t \in Sids : t # s => sess'[t] = sess[t] /\ rows'[t] = rows[t]
                                  /\ (t \in inMap' <=> t \in inMap)
  PROVE  /\ Beside(s) /\ pc'[g][s] = d
         /\ \A h \in Procs : h # g => pc'[h][s] = pc[h][s] /\ pend'[h][s] = pend[h][s]
         /\ persistSession(g, s) => pend'[g][s] = RowOf(sess'[s])
<1>1. /\ pc'[g][s] = d
      /\ \A h \in Procs : h # g => pc'[h][s] = pc[h][s]
      /\ \A h \in Procs, t \in Sids : t # s => pc'[h][t] = pc[h][t]
  BY Typed, GotoEffect
<1>2. /\ \A h \in Procs : h # g => pend'[h][s] = pend[h][s]
      /\ \A h \in Procs, t \in Sids : t # s => pend'[h][t] = pend[h][t]
      /\ persistSession(g, s) => pend'[g][s] = RowOf(sess'[s])
  BY Typed DEF persistSession, PendType
<1> QED
  BY <1>1, <1>2 DEF Beside, Untouched

\* One that builds no row.
LEMMA KeepStep ==
  ASSUME TInv, NEW g \in Procs, NEW s \in Sids, NEW c, NEW d \in PCs, Goto(g, s, d),
         pc[g][s] = c, pend[g][s] = NoRow, pend' = pend, sess' = sess,
         \A t \in Sids : t # s => rows'[t] = rows[t] /\ (t \in inMap' <=> t \in inMap)
  PROVE  Keeps(g, s, c, d) /\ Beside(s)
  BY MoveBeside DEF Keeps, Moved

\* One that changes fields of the session that are of no matter here.
LEMMA FieldStep ==
  ASSUME TInv, NEW s \in Sids, NEW c \in {"clone", "f_release", "agent"}, NEW d \in PCs,
         NEW x, Goto("boot", s, d),
         pc["boot"][s] = c, pend["boot"][s] = NoRow, pend' = pend, sess' = [sess EXCEPT ![s] = x],
         x.st = sess[s].st, x.slot = sess[s].slot, x.role = sess[s].role,
         x.asked = sess[s].asked, x.res = sess[s].res, UNCHANGED <<rows, inMap>>
  PROVE  Keeps("boot", s, c, d) /\ Seen(s) /\ Beside(s)
<1>1. sess'[s] = x /\ \A t \in Sids : t # s => sess'[t] = sess[t]
  BY Typed
<1>2. "boot" \in Procs
  BY DEF Procs
<1> QED
  BY <1>1, <1>2, MoveBeside DEF Keeps, Moved, Seen

\* One that builds a row.
LEMMA WriteStep ==
  ASSUME TInv, NEW g \in Procs, NEW s \in Sids, NEW c, NEW d \in PCs, NEW to \in States,
         Goto(g, s, d), pc[g][s] = c, pend[g][s] = NoRow, persistSession(g, s),
         \A t \in Sids : t # s => sess'[t] = sess[t],
         sess'[s].st = to, sess'[s].slot = sess[s].slot, sess'[s].role = sess[s].role,
         sess'[s].asked = sess[s].asked, UNCHANGED <<rows, inMap>>
  PROVE  Writes(g, s, c, d, to) /\ Seen(s) /\ Beside(s)
  BY MoveBeside DEF Writes, Moved, Seen

LEMMA TransitionStep ==
  ASSUME TInv, NEW g \in Procs, NEW s \in Sids, NEW c, NEW d \in PCs, NEW to,
         Goto(g, s, d), pc[g][s] = c, pend[g][s] = NoRow,
         Transition(g, s, to), UNCHANGED <<rows, inMap>>
  PROVE  /\ Writes(g, s, c, d, to) /\ Seen(s) /\ Beside(s) /\ to \in States
         /\ sess'[s].res = sess[s].res
<1>1. sess[s] \in Session
  BY Typed
<1>2. /\ sess' = [sess EXCEPT ![s] = [sess[s] EXCEPT !.st = to]]
      /\ persistSession(g, s) /\ to \in States
  BY Targets DEF Transition
<1>3. /\ sess'[s].st = to /\ sess'[s].slot = sess[s].slot /\ sess'[s].role = sess[s].role
      /\ sess'[s].asked = sess[s].asked /\ sess'[s].res = sess[s].res
      /\ \A t \in Sids : t # s => sess'[t] = sess[t]
  BY <1>1, <1>2, Typed DEF Session
<1> QED
  BY <1>2, <1>3, WriteStep

\* A session that boot is at work on has one of these states.
InStage(s) ==
  LET b == pc["boot"][s]
      k == pc["stop"][s]
      st == sess[s].st IN
  /\ b \in BootPCs /\ k \in StopPCs
  /\ b \in {"clone", "snapshot", "inject"} => st = "provisioning"
  /\ b = "launch" => st = "booting"
  /\ b = "ssh" => st = "waiting_ssh"
  /\ b = "setup" => st = "configuring"
  /\ b \in {"f_kill", "f_snap", "f_release", "f_failed"} => st \in PreReady
  /\ b \in {"agent", "u_kill", "u_snap", "u_free", "u_drop"} => st \in {"ready", "stopping", "stopped"}
  /\ b \in {"d_kill", "d_snap", "d_free", "d_stopped"} => st \in {"stopping", "stopped"}
  /\ b = "d_drop" => st = "stopped"

LEMMA BootStepMoves ==
  ASSUME TInv, NEW s \in Sids, BootStep(s), ~Upsert("boot", s)
  PROVE  BootMove(s) /\ Beside(s)
<1> DEFINE KeepTo(c, d) == BootPair(c, d) /\ Keeps("boot", s, c, d) /\ Seen(s) /\ Beside(s)
           TellTo(c, d, to) == /\ BootTells(s, c, d, to) /\ Writes("boot", s, c, d, to) /\ Seen(s)
                               /\ sess'[s].res = sess[s].res /\ Beside(s) /\ c # "d_stopped"
<1>a. "boot" \in Procs /\ sess[s] \in Session
  BY Typed DEF Procs
<1>b. ASSUME NEW c \in PCs, NEW d \in PCs, KeepTo(c, d) PROVE BootMove(s) /\ Beside(s)
  BY <1>b DEF BootMove
<1>c. ASSUME NEW c \in PCs, NEW d \in PCs, NEW to \in States, TellTo(c, d, to)
      PROVE  BootMove(s) /\ Beside(s)
  BY <1>c DEF BootMove
<1>d. ASSUME NEW c \in PCs, NEW d \in PCs, BootPair(c, d),
             At("boot", s, c), Goto("boot", s, d), UNCHANGED <<sess, pend, rows, inMap>>
      PROVE  BootMove(s) /\ Beside(s)
  BY <1>a, <1>b, <1>d, KeepStep DEF At, Seen
<1>e. ASSUME NEW c \in PCs \ {"d_stopped"}, NEW d \in PCs, NEW to, BootTells(s, c, d, to),
             At("boot", s, c), Goto("boot", s, d), Transition("boot", s, to),
             UNCHANGED <<rows, inMap>>
      PROVE  BootMove(s) /\ Beside(s)
  BY <1>a, <1>c, <1>e, TransitionStep DEF At
<1>f. {"clone", "snapshot", "inject", "launch", "ssh", "setup", "agent", "idle",
       "f_kill", "f_snap", "f_release", "f_failed"} \subseteq PCs
  BY DEF PCs
<1>1. CASE Clone(s)
  <2>1. /\ At("boot", s, "clone") /\ Goto("boot", s, "snapshot")
        /\ UNCHANGED <<inMap, rows, pend>>
    BY <1>1 DEF Clone, maps
  <2>2. CASE UNCHANGED sess
    BY <1>d, <1>f, <2>1, <2>2 DEF BootPair
  <2>3. CASE sess' = [sess EXCEPT ![s].wsp = TRUE]
    <3> DEFINE x == [sess[s] EXCEPT !.wsp = TRUE]
    <3>1. /\ x.st = sess[s].st /\ x.slot = sess[s].slot /\ x.role = sess[s].role
          /\ x.asked = sess[s].asked /\ x.res = sess[s].res
      BY <1>a DEF Session
    <3>2. sess' = [sess EXCEPT ![s] = x]
      BY <2>3
    <3> HIDE DEF x
    <3>3. Keeps("boot", s, "clone", "snapshot") /\ Seen(s) /\ Beside(s)
      BY <1>f, <2>1, <3>1, <3>2, FieldStep DEF At
    <3> QED
      BY <1>b, <1>f, <3>3 DEF BootPair
  <2> QED
    BY <1>1, <2>2, <2>3 DEF Clone
<1>2. CASE CreateSnapshot(s)
  BY <1>2, <1>d, <1>f DEF CreateSnapshot, maps, BootPair
<1>3. CASE InjectNetworkConfig(s)
  BY <1>3, <1>d, <1>e, <1>f DEF InjectNetworkConfig, ThenTransition, maps, BootPair, BootTells
<1>4. CASE Launch(s)
  <2>1. At("boot", s, "launch") /\ UNCHANGED <<inMap, rows>>
    BY <1>4 DEF Launch, maps
  <2>2. CASE Goto("boot", s, "f_snap") /\ UNCHANGED <<sess, pend>>
    BY <1>d, <1>f, <2>1, <2>2 DEF BootPair
  <2>3. CASE /\ sess' = [sess EXCEPT ![s] = [sess[s] EXCEPT !.v = "own", !.st = "waiting_ssh"]]
             /\ persistSession("boot", s) /\ Goto("boot", s, "ssh")
    <3>1. /\ sess'[s].st = "waiting_ssh" /\ sess'[s].slot = sess[s].slot
          /\ sess'[s].role = sess[s].role /\ sess'[s].asked = sess[s].asked
          /\ sess'[s].res = sess[s].res
          /\ \A t \in Sids : t # s => sess'[t] = sess[t]
      BY <1>a, <2>3, Typed DEF Session
    <3>2. "waiting_ssh" \in States /\ pc["boot"][s] = "launch" /\ pend["boot"][s] = NoRow
      BY <2>1 DEF States, At
    <3>3. Writes("boot", s, "launch", "ssh", "waiting_ssh") /\ Seen(s) /\ Beside(s)
      BY <1>a, <1>f, <2>1, <2>3, <3>1, <3>2, WriteStep
    <3>4. TellTo("launch", "ssh", "waiting_ssh")
      BY <3>1, <3>3 DEF BootTells
    <3> QED
      BY <1>c, <1>f, <3>2, <3>4
  <2> QED
    BY <1>4, <2>2, <2>3 DEF Launch
<1>5. CASE WaitForSSH(s)
  BY <1>5, <1>d, <1>e, <1>f DEF WaitForSSH, ThenTransition, maps, BootPair, BootTells
<1>6. CASE Setup(s)
  <2>1. At("boot", s, "setup") /\ UNCHANGED <<inMap, rows>>
    BY <1>6 DEF Setup, maps
  <2>2. CASE Goto("boot", s, "f_release") /\ UNCHANGED <<sess, pend>>
    BY <1>d, <1>f, <2>1, <2>2 DEF BootPair
  <2>3. CASE /\ Transition("boot", s, "ready")
             /\ Goto("boot", s, IF sess[s].role = "interactive" THEN "idle" ELSE "agent")
    <3>1. CASE sess[s].role = "interactive"
      BY <1>e, <1>f, <2>1, <2>3, <3>1 DEF BootTells
    <3>2. CASE sess[s].role # "interactive"
      BY <1>e, <1>f, <2>1, <2>3, <3>2 DEF BootTells
    <3> QED
      BY <3>1, <3>2
  <2> QED
    BY <1>6, <2>2, <2>3 DEF Setup
<1>7. CASE FailRelease(s)
  <2>1. /\ At("boot", s, "f_release") /\ Goto("boot", s, "f_failed")
        /\ UNCHANGED <<inMap, rows, pend>>
    BY <1>7 DEF FailRelease
  <2> DEFINE x == [sess[s] EXCEPT !.err = "other"]
  <2>2. /\ x.st = sess[s].st /\ x.slot = sess[s].slot /\ x.role = sess[s].role
        /\ x.asked = sess[s].asked /\ x.res = sess[s].res
    BY <1>a DEF Session
  <2>3. sess' = [sess EXCEPT ![s] = x]
    BY <1>7 DEF FailRelease
  <2> HIDE DEF x
  <2>4. Keeps("boot", s, "f_release", "f_failed") /\ Seen(s) /\ Beside(s)
    BY <1>f, <2>1, <2>2, <2>3, FieldStep DEF At
  <2> QED
    BY <1>b, <1>f, <2>4 DEF BootPair
<1>8. CASE FailTransition(s)
  BY <1>8, <1>e, <1>f DEF FailTransition, maps, BootTells
<1> QED
  BY <1>1, <1>2, <1>3, <1>4, <1>5, <1>6, <1>7, <1>8 DEF BootStep

LEMMA AgentStepMoves ==
  ASSUME TInv, NEW s \in Sids, InStage(s), AgentStep(s)
  PROVE  BootMove(s) /\ Beside(s)
<1>1. /\ At("boot", s, "agent") /\ UNCHANGED <<inMap, rows>>
      /\ pc["boot"][s] = "agent" /\ pend["boot"][s] = NoRow
  BY DEF AgentStep, AgentUsageLimit, AgentError, AgentDone, At, maps
<1>2. /\ "boot" \in Procs /\ sess[s] \in Session /\ sess[s].st \in {"ready", "stopping", "stopped"}
      /\ {"idle", "agent", "u_kill", "d_kill"} \subseteq PCs
  BY <1>1, Typed DEF Procs, InStage, PCs
<1>3. /\ ~CanTransition(sess[s].st, "failed") /\ TryState(sess[s].st, "failed") = sess[s].st
      /\ sess[s].st \in States /\ TryState(sess[s].st, "stopping") \in States
  BY <1>2 DEF TryState, CanTransition, validTransitions, States
<1>4. CASE AgentError(s)
  <2> DEFINE x == [sess[s] EXCEPT !.err = "other", !.st = sess[s].st]
  <2>1. /\ x.st = sess[s].st /\ x.slot = sess[s].slot /\ x.role = sess[s].role
        /\ x.asked = sess[s].asked /\ x.res = sess[s].res
    BY <1>2 DEF Session
  <2>2. /\ sess' = [sess EXCEPT ![s] = x] /\ Goto("boot", s, "idle") /\ pend' = pend
    BY <1>3, <1>4 DEF AgentError
  <2> HIDE DEF x
  <2>3. Keeps("boot", s, "agent", "idle") /\ Seen(s) /\ Beside(s)
    BY <1>1, <1>2, <2>1, <2>2, FieldStep
  <2> QED
    BY <1>2, <2>3 DEF BootMove, BootPair
<1>5. CASE AgentUsageLimit(s)
  <2>1. /\ sess' = [sess EXCEPT ![s] = [sess[s] EXCEPT !.err = "usage limit", !.st = sess[s].st]]
        /\ Goto("boot", s, "u_kill") /\ persistSession("boot", s) /\ "usage" \in Outcomes
    BY <1>3, <1>5 DEF AgentUsageLimit, Ends
  <2>2. /\ sess'[s].st = sess[s].st /\ sess'[s].slot = sess[s].slot
        /\ sess'[s].role = sess[s].role /\ sess'[s].asked = sess[s].asked
        /\ sess'[s].res = sess[s].res
        /\ \A t \in Sids : t # s => sess'[t] = sess[t]
    BY <1>2, <2>1, Typed DEF Session
  <2>3. Writes("boot", s, "agent", "u_kill", sess[s].st) /\ Seen(s) /\ Beside(s)
    BY <1>1, <1>2, <1>3, <2>1, <2>2, WriteStep
  <2> QED
    BY <1>2, <1>3, <2>1, <2>2, <2>3 DEF BootMove, BootTells
<1>6. CASE AgentDone(s)
  <2>1. PICK r : /\ sess' = [sess EXCEPT ![s] =
                               [sess[s] EXCEPT !.res = r, !.st = TryState(sess[s].st, "stopping")]]
                 /\ Goto("boot", s, "d_kill") /\ persistSession("boot", s)
    BY <1>6 DEF AgentDone
  <2>2. /\ sess'[s].st = TryState(sess[s].st, "stopping") /\ sess'[s].slot = sess[s].slot
        /\ sess'[s].role = sess[s].role /\ sess'[s].asked = sess[s].asked
        /\ \A t \in Sids : t # s => sess'[t] = sess[t]
    BY <1>2, <2>1, Typed DEF Session
  <2>4. /\ Writes("boot", s, "agent", "d_kill", TryState(sess[s].st, "stopping"))
        /\ Seen(s) /\ Beside(s)
    BY <1>1, <1>2, <1>3, <2>1, <2>2, WriteStep
  <2> QED
    BY <2>4 DEF BootMove
<1> QED
  BY <1>4, <1>5, <1>6 DEF AgentStep

\* The places a teardown leaves.
LEMMA TeardownFrom ==
  ASSUME NEW g \in Procs, NEW s \in Sids, TeardownStep(g, s)
  PROVE  LET c == pc[g][s] IN
         /\ c \in DOMAIN Order /\ Goto(g, s, Order[c]) /\ Order[c] \in PCs /\ pend[g][s] = NoRow
         /\ c \in {"d_stopped", "k_stopped"} => MarkStopped(g, s)
         /\ c \in {"u_drop", "d_drop", "k_drop"} => DropFromMap(g, s)
         /\ c \in {"k_delrow", "forget"} => DeleteRow(g, s)
         /\ c \notin {"d_stopped", "k_stopped", "u_drop", "d_drop", "k_drop", "k_delrow", "forget"} =>
              UNCHANGED <<sess, pend, rows, inMap>>
<1> DEFINE c == pc[g][s]
<1>1. PICK places \in SUBSET DOMAIN Order : Teardown(g, s, places)
  <2>1. /\ {"f_kill", "u_kill", "d_kill", "k_kill"} \subseteq DOMAIN Order
        /\ {"f_snap", "u_snap", "d_snap", "k_snap"} \subseteq DOMAIN Order
        /\ {"u_free", "d_free", "k_free"} \subseteq DOMAIN Order
        /\ {"d_stopped", "k_stopped"} \subseteq DOMAIN Order
        /\ {"u_drop", "d_drop", "k_drop"} \subseteq DOMAIN Order
        /\ {"k_delrow", "forget"} \subseteq DOMAIN Order
        /\ {"rmws"} \subseteq DOMAIN Order
    BY DEF Order
  <2> QED
    BY <2>1 DEF TeardownStep, StopVM, DeleteSnapshot, freeSlot, MarkStopped, DropFromMap,
                DeleteRow, CleanupWorkspace
<1>2. c \in DOMAIN Order /\ Goto(g, s, Order[c]) /\ pend[g][s] = NoRow
  BY <1>1 DEF Teardown, At, Following
<1>3. Order[c] \in PCs
  BY <1>2, FollowingType DEF Following
<1>4. /\ c \in {"d_stopped", "k_stopped"} => MarkStopped(g, s)
      /\ c \in {"u_drop", "d_drop", "k_drop"} => DropFromMap(g, s)
      /\ c \in {"k_delrow", "forget"} => DeleteRow(g, s)
  BY DEF TeardownStep, StopVM, DeleteSnapshot, freeSlot, MarkStopped, DropFromMap,
         DeleteRow, CleanupWorkspace, Teardown
<1>5. c \notin {"d_stopped", "k_stopped", "u_drop", "d_drop", "k_drop", "k_delrow", "forget"} =>
        UNCHANGED <<sess, pend, rows, inMap>>
  BY DEF TeardownStep, StopVM, DeleteSnapshot, freeSlot, MarkStopped, DropFromMap,
         DeleteRow, CleanupWorkspace, Teardown, maps
<1> QED
  BY <1>2, <1>3, <1>4, <1>5

LEMMA BootTeardownMoves ==
  ASSUME TInv, NEW s \in Sids, InStage(s), TeardownStep("boot", s)
  PROVE  BootMove(s) /\ Beside(s)
<1> DEFINE c == pc["boot"][s]
           d == Order[c]
<1>1. /\ c \in DOMAIN Order /\ Goto("boot", s, d) /\ d \in PCs /\ pend["boot"][s] = NoRow
      /\ c = "d_stopped" => MarkStopped("boot", s)
      /\ c \in {"u_drop", "d_drop"} => DropFromMap("boot", s)
      /\ c \notin {"d_stopped", "k_stopped", "u_drop", "d_drop", "k_drop", "k_delrow", "forget"} =>
           UNCHANGED <<sess, pend, rows, inMap>>
  BY TeardownFrom DEF Procs
<1>2. c \in BootPCs /\ "boot" \in Procs /\ sess[s] \in Session /\ c \in PCs
  BY Typed DEF InStage, Procs
<1>3. CASE c = "d_stopped"
  <2>1. /\ sess' = [sess EXCEPT ![s] = [sess[s] EXCEPT !.st = TryState(sess[s].st, "stopped")]]
        /\ persistSession("boot", s) /\ UNCHANGED <<rows, inMap>>
    BY <1>1, <1>3 DEF MarkStopped, maps
  <2>2. TryState(sess[s].st, "stopped") \in States
    BY <1>3 DEF InStage, TryState, States
  <2>3. /\ sess'[s].st = TryState(sess[s].st, "stopped") /\ sess'[s].slot = sess[s].slot
        /\ sess'[s].role = sess[s].role /\ sess'[s].asked = sess[s].asked
        /\ sess'[s].res = sess[s].res
        /\ \A t \in Sids : t # s => sess'[t] = sess[t]
    BY <1>2, <2>1, Typed DEF Session
  <2>4. d = "d_drop" /\ "d_drop" \in PCs /\ "d_stopped" \in PCs
    BY <1>3 DEF Order, PCs
  <2>5. Writes("boot", s, "d_stopped", "d_drop", TryState(sess[s].st, "stopped")) /\ Seen(s) /\ Beside(s)
    BY <1>1, <1>2, <1>3, <2>1, <2>2, <2>3, <2>4, WriteStep
  <2>6. sess[s].st = TryState(sess[s].st, "stopped") => sess'[s] = sess[s]
    BY <1>2, <2>1, Typed DEF Session
  <2> QED
    BY <2>2, <2>3, <2>4, <2>5, <2>6 DEF BootMove, BootTells
<1>4. CASE c \in {"u_drop", "d_drop"}
  <2>1. inMap' = inMap \ {s} /\ UNCHANGED <<sess, pend, rows>>
    BY <1>1, <1>4 DEF DropFromMap
  <2>2. d = "rmws"
    BY <1>4 DEF Order
  <2>3. Keeps("boot", s, c, "rmws") /\ Beside(s)
    BY <1>1, <1>2, <2>1, <2>2, KeepStep
  <2> QED
    BY <1>4, <2>1, <2>3 DEF BootMove
<1>5. CASE c \notin {"d_stopped", "u_drop", "d_drop"}
  <2>1. UNCHANGED <<sess, pend, rows, inMap>>
    BY <1>1, <1>2, <1>5 DEF BootPCs
  <2>2. BootPair(c, d)
    BY <1>1, <1>2, <1>5 DEF BootPCs, Order, BootPair
  <2> HIDE DEF c, d
  <2>3. Keeps("boot", s, c, d) /\ Seen(s) /\ Beside(s)
    BY <1>1, <1>2, <2>1, KeepStep DEF Seen, c
  <2> QED
    BY <1>1, <1>2, <2>2, <2>3 DEF BootMove
<1> QED
  BY <1>3, <1>4, <1>5

LEMMA StopTeardownMoves ==
  ASSUME TInv, NEW s \in Sids, InStage(s), TeardownStep("stop", s)
  PROVE  StopMove(s) /\ Beside(s)
<1> DEFINE c == pc["stop"][s]
           d == Order[c]
<1>1. /\ c \in DOMAIN Order /\ Goto("stop", s, d) /\ d \in PCs /\ pend["stop"][s] = NoRow
      /\ c = "k_stopped" => MarkStopped("stop", s)
      /\ c = "k_drop" => DropFromMap("stop", s)
      /\ c \in {"k_delrow", "forget"} => DeleteRow("stop", s)
      /\ c \notin {"d_stopped", "k_stopped", "u_drop", "d_drop", "k_drop", "k_delrow", "forget"} =>
           UNCHANGED <<sess, pend, rows, inMap>>
  BY TeardownFrom DEF Procs
<1>2. c \in StopPCs /\ "stop" \in Procs /\ sess[s] \in Session /\ c \in PCs /\ "boot" # "stop"
  BY Typed DEF InStage, Procs
<1>3. CASE c = "k_stopped"
  <2>0. MarkStopped("stop", s) /\ d = "k_drop" /\ UNCHANGED <<rows, inMap>>
    BY <1>1, <1>3 DEF Order, MarkStopped, maps
  <2>1. CASE CanTransition(sess[s].st, "stopped")
    <3>1. /\ sess' = [sess EXCEPT ![s] = [sess[s] EXCEPT !.st = "stopped"]]
          /\ persistSession("stop", s)
      BY <2>0, <2>1 DEF MarkStopped, TryState
    <3>2. /\ sess'[s].st = "stopped" /\ sess'[s].slot = sess[s].slot
          /\ sess'[s].role = sess[s].role /\ sess'[s].asked = sess[s].asked
          /\ sess'[s].res = sess[s].res
          /\ \A t \in Sids : t # s => sess'[t] = sess[t]
      BY <1>2, <3>1, Typed DEF Session
    <3>3. "stopped" \in States /\ "k_drop" \in PCs
      BY DEF States, PCs
    <3>4. Writes("stop", s, "k_stopped", "k_drop", "stopped") /\ Seen(s) /\ Beside(s)
      BY <1>1, <1>2, <1>3, <2>0, <3>1, <3>2, <3>3, WriteStep
    <3> QED
      BY <2>1, <3>2, <3>4 DEF StopMove
  <2>2. CASE ~CanTransition(sess[s].st, "stopped")
    <3>1. pend' = pend /\ sess' = sess
      <4>1. sess' = [sess EXCEPT ![s] = [sess[s] EXCEPT !.st = sess[s].st]]
        BY <2>0, <2>2 DEF MarkStopped, TryState
      <4> QED
        BY <1>2, <2>0, <2>2, <4>1, Typed DEF MarkStopped, Session
    <3>2. Keeps("stop", s, "k_stopped", "k_drop") /\ Seen(s) /\ Beside(s)
      BY <1>1, <1>2, <1>3, <2>0, <3>1, KeepStep DEF Seen
    <3> QED
      BY <2>2, <3>2 DEF StopMove
  <2> QED
    BY <2>1, <2>2
<1>4. CASE c = "k_drop"
  <2>1. inMap' = inMap \ {s} /\ UNCHANGED <<sess, pend, rows>>
    BY <1>1, <1>4 DEF DropFromMap
  <2>2. d = "k_delrow"
    BY <1>4 DEF Order
  <2>3. Keeps("stop", s, "k_drop", "k_delrow") /\ Beside(s)
    BY <1>1, <1>2, <1>4, <2>1, <2>2, KeepStep
  <2> QED
    BY <2>1, <2>3 DEF StopMove
<1>5. CASE c \in {"k_delrow", "forget"}
  <2>1. UNCHANGED <<sess, pend, inMap>> /\ Stored(s, NoRow)
    BY <1>1, <1>5 DEF DeleteRow, maps
  <2>2. d = IF c = "forget" THEN "idle" ELSE "rmws"
    BY <1>5 DEF Order
  <2>3. \A t \in Sids : t # s => rows'[t] = rows[t]
    BY <2>1, Typed, StoredEffect
  <2> HIDE DEF d
  <2>4. Keeps("stop", s, c, d) /\ Beside(s)
    BY <1>1, <1>2, <2>1, <2>3, KeepStep
  <2> HIDE DEF c
  <2> QED
    BY <1>5, <2>1, <2>2, <2>4 DEF StopMove
<1>6. CASE c \notin {"k_stopped", "k_drop", "k_delrow", "forget"}
  <2>1. UNCHANGED <<sess, pend, rows, inMap>>
    BY <1>1, <1>2, <1>6 DEF StopPCs
  <2>2. StopPair(c, d)
    BY <1>1, <1>2, <1>6 DEF StopPCs, Order, StopPair
  <2> HIDE DEF c, d
  <2>3. Keeps("stop", s, c, d) /\ Seen(s) /\ Beside(s)
    BY <1>1, <1>2, <2>1, KeepStep DEF Seen, c
  <2> QED
    BY <1>1, <1>2, <2>2, <2>3 DEF StopMove
<1> QED
  BY <1>3, <1>4, <1>5, <1>6

LEMMA UpsertMoves ==
  ASSUME TInv, NEW g \in Procs, NEW s \in Sids, Upsert(g, s)
  PROVE  Written(g, s) /\ Beside(s)
<1>1. /\ UNCHANGED <<inMap, sess, pc>> /\ pend[g][s] # NoRow
      /\ Stored(s, pend[g][s])
      /\ pend' = [pend EXCEPT ![g][s] = NoRow]
  BY DEF Upsert, maps
<1>2. \A t \in Sids : t # s => rows'[t] = rows[t]
  BY <1>1, Typed, StoredEffect DEF PendType
<1>3. /\ pend'[g][s] = NoRow
      /\ \A h \in Procs, t \in Sids : t # s \/ h # g => pend'[h][t] = pend[h][t]
  BY <1>1, Typed DEF PendType
<1> QED
  BY <1>1, <1>2, <1>3 DEF Written, Beside, Untouched

\* Create or Restart has begun to boot the session.
Begun(s) ==
  /\ pc'["boot"][s] = "clone" /\ pc'["stop"][s] = pc["stop"][s]
  /\ sess'[s].st = "provisioning" /\ s \in inMap' /\ rows'[s] = rows[s]
  /\ pend'["boot"][s] = RowOf(sess'[s]) /\ pend'["stop"][s] = pend["stop"][s]

LEMMA CreateMoves ==
  ASSUME TInv, NEW role \in Roles, NEW repo \in Repos, Create(role, repo)
  PROVE  \E s \in Sids : /\ s = created + 1 /\ created' = s /\ Begun(s) /\ Beside(s)
                         /\ cursor = 0 /\ cursor' = 0
                         /\ ~sess'[s].res /\ sess'[s].asked = "no"
<1> USE ConstantsAssumption
<1>1. PICK s \in Sids : s = created + 1
  BY DEF Create, Sids, TInv, TypeOK
<1>2. PICK i \in SlotCandidates :
        sess' = [sess EXCEPT ![s] = [NoSession EXCEPT
                   !.slot = i, !.st = "provisioning", !.role = role, !.repo = repo]]
  BY <1>1 DEF Create
<1>3. /\ \A t \in Sids : t # s => sess'[t] = sess[t]
      /\ sess'[s].st = "provisioning" /\ ~sess'[s].res /\ sess'[s].asked = "no"
  BY <1>2, Typed DEF NoSession
<1>4. /\ Goto("boot", s, "clone") /\ persistSession("boot", s) /\ rows' = rows
      /\ inMap' = inMap \cup {s} /\ created' = s /\ cursor = 0 /\ cursor' = 0
      /\ "boot" \in Procs /\ "stop" \in Procs /\ "clone" \in PCs
  BY <1>1 DEF Create, Procs, PCs, bounds
<1> QED
  BY <1>1, <1>3, <1>4, MoveBeside DEF Begun

LEMMA RestartMoves ==
  ASSUME TInv, NEW s \in Sids, Restart(s)
  PROVE  /\ Begun(s) /\ Beside(s) /\ created' = created /\ cursor = 0 /\ cursor' = 0
         /\ s \in inMap /\ sess[s].st = "stopped"
         /\ pc["boot"][s] = "idle" /\ pend["boot"][s] = NoRow
         /\ sess'[s].res = sess[s].res
         /\ sess'[s].asked = IF Resting(s) THEN "no" ELSE "working"
<1>1. PICK i \in SlotCandidates :
        sess' = [sess EXCEPT ![s] = [sess[s] EXCEPT
                   !.slot = i, !.v = "none", !.err = "", !.st = "provisioning",
                   !.asked = IF Resting(s) THEN "no" ELSE "working"]]
  BY DEF Restart
<1>2. /\ \A t \in Sids : t # s => sess'[t] = sess[t]
      /\ sess'[s].st = "provisioning" /\ sess'[s].res = sess[s].res
      /\ sess'[s].asked = IF Resting(s) THEN "no" ELSE "working"
  BY <1>1, Typed DEF Session
<1>3. /\ Goto("boot", s, "clone") /\ persistSession("boot", s) /\ rows' = rows
      /\ inMap' = inMap /\ created' = created /\ cursor = 0 /\ cursor' = 0
      /\ s \in inMap /\ sess[s].st = "stopped"
      /\ pc["boot"][s] = "idle" /\ pend["boot"][s] = NoRow
      /\ "boot" \in Procs /\ "stop" \in Procs /\ "clone" \in PCs
  BY DEF Restart, Procs, PCs
<1> QED
  BY <1>2, <1>3, MoveBeside DEF Begun

\* What both calls of Stop do.
StopCalled(s, d) ==
  /\ pc["stop"][s] = "idle" /\ pend["stop"][s] = NoRow /\ pc'["stop"][s] = d
  /\ pc'["boot"][s] = pc["boot"][s] /\ pend'["boot"][s] = pend["boot"][s]
  /\ s \in inMap /\ rows'[s] = rows[s]
  /\ sess'[s].slot = sess[s].slot /\ sess'[s].role = sess[s].role
  /\ sess'[s].res = sess[s].res
  /\ sess'[s].asked = Asked(s)

LEMMA StopMoves ==
  ASSUME TInv, NEW s \in Sids, Stop(s)
  PROVE  /\ StopCalled(s, "k_kill") /\ Beside(s) /\ created' = created /\ cursor = 0 /\ cursor' = 0
         /\ sess[s].st = "ready" /\ sess'[s].st = "stopping" /\ s \in inMap'
         /\ pend'["stop"][s] = RowOf(sess'[s])
<1>1. /\ sess' = [sess EXCEPT ![s] = [sess[s] EXCEPT !.st = "stopping", !.asked = Asked(s)]]
      /\ sess[s].st = "ready"
  BY Typed, StopEffect DEF Stop, StopAccepted
<1>2. /\ sess'[s].st = "stopping" /\ sess'[s].slot = sess[s].slot /\ sess'[s].role = sess[s].role
      /\ sess'[s].res = sess[s].res /\ sess'[s].asked = Asked(s)
      /\ \A t \in Sids : t # s => sess'[t] = sess[t]
  BY <1>1, Typed DEF Session
<1>3. /\ Goto("stop", s, "k_kill") /\ persistSession("stop", s) /\ rows' = rows
      /\ inMap' = inMap /\ created' = created /\ cursor = 0 /\ cursor' = 0
      /\ s \in inMap /\ pc["stop"][s] = "idle" /\ pend["stop"][s] = NoRow
      /\ "boot" \in Procs /\ "stop" \in Procs /\ "k_kill" \in PCs
  BY DEF Stop, StopAccepted, StopCallable, Procs, PCs, maps, bounds
<1> QED
  BY <1>1, <1>2, <1>3, MoveBeside, ZenonT(40) DEF StopCalled

LEMMA StopTerminalMoves ==
  ASSUME TInv, NEW s \in Sids, StopTerminal(s)
  PROVE  /\ StopCalled(s, "forget") /\ Beside(s) /\ created' = created /\ cursor = 0 /\ cursor' = 0
         /\ sess[s].st \in {"stopped", "failed"} /\ sess'[s].st = sess[s].st /\ s \notin inMap'
         /\ pend'["stop"][s] = NoRow /\ RowOf(sess'[s]) = RowOf(sess[s])
<1>1. /\ sess' = [sess EXCEPT ![s] = [sess[s] EXCEPT !.asked = Asked(s)]]
      /\ sess[s].st \in {"stopped", "failed"}
  BY DEF StopTerminal
<1>2. /\ sess'[s].st = sess[s].st /\ sess'[s].slot = sess[s].slot /\ sess'[s].role = sess[s].role
      /\ sess'[s].res = sess[s].res /\ sess'[s].asked = Asked(s)
      /\ \A t \in Sids : t # s => sess'[t] = sess[t]
  BY <1>1, Typed DEF Session
<1>4. RowOf(sess'[s]) = RowOf(sess[s])
  BY <1>1, Typed DEF Session, RowOf
<1>3. /\ Goto("stop", s, "forget") /\ pend' = pend /\ rows' = rows
      /\ inMap' = inMap \ {s} /\ created' = created /\ cursor = 0 /\ cursor' = 0
      /\ s \in inMap /\ pc["stop"][s] = "idle" /\ pend["stop"][s] = NoRow
      /\ "boot" \in Procs /\ "stop" \in Procs /\ "forget" \in PCs
  BY DEF StopTerminal, StopCallable, Procs, PCs, bounds
<1> QED
  BY <1>1, <1>2, <1>3, <1>4, MoveBeside DEF StopCalled

\* A step of a goroutine creates no session and serves on.
LEMMA GoroutineBounds ==
  ASSUME NEW s \in Sids,
         \/ BootStep(s) \/ AgentStep(s) \/ Upsert("stop", s)
         \/ TeardownStep("boot", s) \/ TeardownStep("stop", s)
  PROVE  created' = created /\ cursor' = cursor
<1>1. CASE BootStep(s)
  BY <1>1 DEF BootStep, Upsert, Clone, CreateSnapshot, InjectNetworkConfig, Launch, WaitForSSH,
              Setup, FailRelease, FailTransition, maps, bounds
<1>2. CASE AgentStep(s) \/ Upsert("stop", s)
  BY <1>2 DEF AgentStep, AgentUsageLimit, AgentError, AgentDone, Upsert, maps, bounds
<1>3. ASSUME NEW g \in Procs, TeardownStep(g, s) PROVE created' = created /\ cursor' = cursor
  BY <1>3 DEF TeardownStep, StopVM, DeleteSnapshot, freeSlot, MarkStopped, DropFromMap,
              DeleteRow, CleanupWorkspace, maps, bounds
<1> QED
  BY <1>1, <1>2, <1>3 DEF Procs

----------------------------------------------------------------------------
(* Results.  The results of agents are followed through the writes of both *)
(* goroutines.                                                             *)

Ending == {"d_kill", "d_snap", "d_free", "d_stopped", "d_drop"}

\* The row of an agent that finished with a result.
Final(r) == r # NoRow /\ r.st = "stopped" /\ r.res

\* The place of each goroutine limits the state of the session; Stop's is at
\* work, or has a row to write, only when it was called.
Staged(s) ==
  /\ InStage(s)
  /\ pc["stop"][s] # "idle" => sess[s].asked # "no"
  /\ pend["stop"][s] # NoRow => pc["stop"][s] \in {"k_kill", "k_drop"}
  /\ s > created =>
       /\ \A g \in Procs : pc[g][s] = "idle" /\ pend[g][s] = NoRow
       /\ s \notin inMap /\ rows[s] = NoRow

\* Stop's goroutine is not at work, or has only the workspace to remove.
Quiet(s) == pc["stop"][s] \in {"idle", "rmws"}

\* A result comes with the end of an agent, whose row is written when the
\* session leaves the map; such a row is only ever written again as it is,
\* unless Stop is at work or Restart has built another.
Kept(s) ==
  LET b == pc["boot"][s]
      x == sess[s]
      r == rows[s]
      pb == pend["boot"][s] IN
  /\ x.res => b \in Ending \cup {"rmws", "idle"}
  /\ x.res /\ b \in {"rmws", "idle"} => x.st = "stopped" /\ s \notin inMap
  /\ Final(pb) => b \in Ending /\ x.st = "stopped" /\ pb = RowOf(x)
  /\ x.res /\ b \in {"d_drop", "rmws", "idle"} /\ Quiet(s) =>
       \/ Final(pb)
       \/ pb = NoRow /\ (Final(r) \/ (r = NoRow /\ x.asked # "no"))
  /\ x.res /\ b \in {"d_drop", "rmws", "idle"} => Final(pb) \/ pb = NoRow
  /\ Final(r) /\ Quiet(s) =>
       \/ pb # NoRow /\ pb.st = "provisioning"
       \/ b \in {"idle", "rmws"} /\ pb = NoRow
       \/ b \in Ending /\ x.st = "stopped" /\ r = RowOf(x) /\ pb \in {NoRow, r}

ResInv == \A s \in Sids : Staged(s) /\ Kept(s)

LEMMA ResFrame ==
  ASSUME ResInv, NEW s \in Sids, Beside(s), created \in Int, created' \in Int, created <= created',
         Staged(s)', Kept(s)'
  PROVE  ResInv'
<1>1. ASSUME NEW t \in Sids, t # s PROVE Staged(t)' /\ Kept(t)'
  <2>1. /\ pc'["boot"][t] = pc["boot"][t] /\ pc'["stop"][t] = pc["stop"][t]
        /\ pend'["boot"][t] = pend["boot"][t] /\ pend'["stop"][t] = pend["stop"][t]
        /\ sess'[t] = sess[t] /\ rows'[t] = rows[t] /\ (t \in inMap' <=> t \in inMap)
    BY <1>1 DEF Beside, Untouched, Procs
  <2>2. InStage(t)' <=> InStage(t)
    BY <2>1 DEF InStage
  <2>3. t > created' => t > created
    BY DEF Sids
  <2>4. Staged(t)'
    BY <2>1, <2>2, <2>3 DEF ResInv, Staged, Procs
  <2>5. Kept(t)'
    BY <2>1 DEF ResInv, Kept, Quiet
  <2> QED
    BY <2>4, <2>5
<1> QED
  BY <1>1 DEF ResInv

\* The rows of a session that is not being torn down are not final.
LEMMA RowFields ==
  ASSUME NEW x \in Session
  PROVE  RowOf(x).st = x.st /\ RowOf(x).res = x.res /\ (x.st \in States => RowOf(x) # NoRow)
  BY DEF RowOf, NoRow, States

LEMMA KeepsRes ==
  ASSUME TInv, TInv', NEW s \in Sids, Staged(s), Kept(s), created' = created,
         NEW c \in PCs, NEW d \in PCs, BootPair(c, d), Keeps("boot", s, c, d), Seen(s)
  PROVE  Staged(s)' /\ Kept(s)'
<1>1. /\ pc["boot"][s] = c /\ pc'["boot"][s] = d /\ pend["boot"][s] = NoRow
      /\ pend'["boot"][s] = NoRow
      /\ pc'["stop"][s] = pc["stop"][s] /\ pend'["stop"][s] = pend["stop"][s]
      /\ sess'[s].st = sess[s].st /\ sess'[s].res = sess[s].res /\ sess'[s].asked = sess[s].asked
      /\ c \notin {"clone", "f_release", "agent"} => sess'[s] = sess[s]
      /\ rows'[s] = rows[s] /\ (s \in inMap' <=> s \in inMap)
  BY DEF Keeps, Moved, Seen, Procs
<1>2. InStage(s)'
  BY <1>1 DEF Staged, InStage, BootPair, BootPCs, PreReady
<1>3. Staged(s)'
  BY <1>1, <1>2 DEF Staged, Procs, BootPair
<1>4. c \notin {"idle", "d_drop"} /\ d \notin {"rmws", "d_drop", "clone"}
      /\ (c \in Ending => d \in Ending) /\ (d \in Ending => c \in Ending)
      /\ (d = "idle" => c \in {"agent", "rmws"})
  BY DEF BootPair, Ending
<1>5. c \in Ending => sess'[s] = sess[s]
  BY <1>1 DEF Ending
<1>6. Kept(s)'
  <2>0. NoRow = pend'["boot"][s] /\ ~Final(NoRow) /\ (Quiet(s)' <=> Quiet(s))
    BY <1>1 DEF Final, Quiet
  <2>1. CASE c \in Ending
    <3>1. sess'[s] = sess[s] /\ d \in Ending /\ d \notin {"idle", "rmws", "d_drop"}
      BY <1>4, <1>5, <2>1 DEF Ending
    <3>2. Final(rows[s]) /\ Quiet(s) => sess[s].st = "stopped" /\ rows[s] = RowOf(sess[s])
      BY <1>1, <2>1 DEF Kept, Ending
    <3> QED
      BY <1>1, <2>0, <3>1, <3>2 DEF Kept
  <2>3. CASE c = "rmws"
    <3>1. sess'[s] = sess[s] /\ d = "idle"
      BY <1>1, <2>3 DEF BootPair
    <3> QED
      BY <1>1, <2>0, <2>3, <3>1 DEF Kept
  <2>2. CASE c \notin Ending \cup {"rmws"}
    <3>1. ~sess[s].res /\ ~(Final(rows[s]) /\ Quiet(s))
      BY <1>1, <1>4, <2>2 DEF Kept
    <3>2. ~Final(pend'["boot"][s]) /\ ~sess'[s].res /\ ~(Final(rows'[s]) /\ Quiet(s)')
      BY <1>1, <3>1 DEF Final, Quiet
    <3> QED
      BY <3>2 DEF Kept
  <2> QED
    BY <2>1, <2>2, <2>3
<1> QED
  BY <1>3, <1>6

LEMMA TellsRes ==
  ASSUME TInv, TInv', NEW s \in Sids, Staged(s), Kept(s), created' = created,
         NEW c \in PCs, NEW d \in PCs, NEW to \in States, BootTells(s, c, d, to),
         Writes("boot", s, c, d, to), Seen(s), sess'[s].res = sess[s].res,
         c = "d_stopped" /\ sess[s].st = to => sess'[s] = sess[s]
  PROVE  Staged(s)' /\ Kept(s)'
<1>1. /\ pc["boot"][s] = c /\ pc'["boot"][s] = d /\ pend["boot"][s] = NoRow
      /\ pend'["boot"][s] = RowOf(sess'[s])
      /\ pc'["stop"][s] = pc["stop"][s] /\ pend'["stop"][s] = pend["stop"][s]
      /\ sess'[s].st = to /\ sess'[s].asked = sess[s].asked
      /\ rows'[s] = rows[s] /\ (s \in inMap' <=> s \in inMap)
  BY DEF Writes, Moved, Seen, Procs
<1>2. InStage(s)'
  BY <1>1 DEF Staged, InStage, BootTells, BootPCs, PreReady, TryState, CanTransition, validTransitions
<1>3. Staged(s)'
  BY <1>1, <1>2 DEF Staged, Procs, BootTells
<1>4. RowOf(sess'[s]).st = to /\ RowOf(sess'[s]).res = sess[s].res /\ RowOf(sess'[s]) # NoRow
  BY <1>1, RowFields DEF TInv, TypeOK
<1>5. Kept(s)'
  <2>1. CASE c = "d_stopped"
    <3>1. d = "d_drop" /\ sess[s].st \in {"stopping", "stopped"} /\ to = "stopped"
      BY <1>1, <2>1 DEF BootTells, Staged, InStage, TryState, CanTransition, validTransitions
    <3>2. sess'[s].res => Final(pend'["boot"][s])
      BY <1>1, <1>4, <3>1 DEF Final
    <3>3. Final(rows[s]) /\ Quiet(s) => rows[s] = RowOf(sess[s]) /\ sess[s].st = "stopped"
      BY <1>1, <2>1 DEF Kept, Ending
    <3>4. sess[s].st = "stopped" => sess'[s] = sess[s]
      BY <2>1, <3>1
    <3> QED
      BY <1>1, <3>1, <3>2, <3>3, <3>4 DEF Kept, Quiet, Ending
  <2>2. CASE c # "d_stopped"
    <3>1. ~sess[s].res
      BY <1>1, <2>2 DEF Kept, BootTells, Ending
    <3>2. c \notin Ending \cup {"idle", "rmws"}
      BY <2>2 DEF BootTells, Ending
    <3>3. Final(rows[s]) /\ Quiet(s) => pend["boot"][s] # NoRow
      BY <1>1, <3>2 DEF Kept
    <3> QED
      BY <1>1, <1>4, <3>1, <3>2, <3>3 DEF Kept, Final, Quiet
  <2> QED
    BY <2>1, <2>2
<1> QED
  BY <1>3, <1>5

LEMMA DoneRes ==
  ASSUME TInv, TInv', NEW s \in Sids, Staged(s), Kept(s), created' = created,
         Writes("boot", s, "agent", "d_kill", TryState(sess[s].st, "stopping")), Seen(s)
  PROVE  Staged(s)' /\ Kept(s)'
<1>1. /\ pc["boot"][s] = "agent" /\ pc'["boot"][s] = "d_kill" /\ pend["boot"][s] = NoRow
      /\ pend'["boot"][s] = RowOf(sess'[s])
      /\ pc'["stop"][s] = pc["stop"][s] /\ pend'["stop"][s] = pend["stop"][s]
      /\ sess'[s].st = TryState(sess[s].st, "stopping") /\ sess'[s].asked = sess[s].asked
      /\ rows'[s] = rows[s] /\ (s \in inMap' <=> s \in inMap)
  BY DEF Writes, Moved, Seen, Procs
<1>2. InStage(s)'
  BY <1>1 DEF Staged, InStage, BootPCs, TryState, CanTransition, validTransitions
<1>3. Staged(s)'
  BY <1>1, <1>2 DEF Staged, Procs
<1>4. Final(rows[s]) /\ Quiet(s) => FALSE
  BY <1>1 DEF Kept, Ending
<1>5. RowOf(sess'[s]).st = sess'[s].st
  BY Typed DEF RowOf
<1>6. Kept(s)'
  BY <1>1, <1>4, <1>5 DEF Kept, Final, Quiet, Ending
<1> QED
  BY <1>3, <1>6

LEMMA DropRes ==
  ASSUME TInv, TInv', NEW s \in Sids, Staged(s), Kept(s), created' = created,
         NEW c \in {"u_drop", "d_drop"},
         Keeps("boot", s, c, "rmws"), rows'[s] = rows[s], s \notin inMap'
  PROVE  Staged(s)' /\ Kept(s)'
<1>1. /\ pc["boot"][s] = c /\ pc'["boot"][s] = "rmws" /\ pend["boot"][s] = NoRow
      /\ pend'["boot"][s] = NoRow
      /\ pc'["stop"][s] = pc["stop"][s] /\ pend'["stop"][s] = pend["stop"][s]
      /\ sess'[s] = sess[s]
  BY DEF Keeps, Moved, Procs
<1>2. InStage(s)'
  BY <1>1 DEF Staged, InStage, BootPCs
<1>3. Staged(s)'
  BY <1>1, <1>2 DEF Staged, Procs
<1>4. Kept(s)'
  BY <1>1 DEF Kept, Final, Quiet, Ending, Staged, InStage
<1> QED
  BY <1>3, <1>4

LEMMA BootRes ==
  ASSUME TInv, TInv', NEW s \in Sids, Staged(s), Kept(s), created' = created, BootMove(s)
  PROVE  Staged(s)' /\ Kept(s)'
  BY KeepsRes, TellsRes, DoneRes, DropRes DEF BootMove

LEMMA StopRes ==
  ASSUME "store" \notin Faults, TInv, TInv', NEW s \in Sids, Staged(s), Kept(s),
         created' = created, StopMove(s)
  PROVE  Staged(s)' /\ Kept(s)'
<1>0. \A c, d : Moved("stop", s, c, d) =>
        /\ pc["stop"][s] = c /\ pc'["stop"][s] = d /\ pend["stop"][s] = NoRow
        /\ pc'["boot"][s] = pc["boot"][s] /\ pend'["boot"][s] = pend["boot"][s]
        /\ sess'[s].asked = sess[s].asked
  BY DEF Moved, Procs
<1>1. ASSUME NEW c \in PCs, NEW d \in PCs, StopPair(c, d), Keeps("stop", s, c, d), Seen(s)
      PROVE  Staged(s)' /\ Kept(s)'
  <2>1. /\ pc["stop"][s] = c /\ pc'["stop"][s] = d /\ pend'["stop"][s] = NoRow
        /\ pc'["boot"][s] = pc["boot"][s] /\ pend'["boot"][s] = pend["boot"][s]
        /\ sess'[s] = sess[s] /\ rows'[s] = rows[s] /\ (s \in inMap' <=> s \in inMap)
    BY <1>0, <1>1 DEF Keeps, Seen, StopPair
  <2>2. Staged(s)'
    BY <1>1, <2>1 DEF StopPair, Staged, InStage, StopPCs, Procs
  <2>3. Quiet(s)' => Quiet(s)
    BY <1>1, <2>1 DEF Quiet, StopPair
  <2> QED
    BY <2>1, <2>2, <2>3 DEF Kept
<1>2. ASSUME Keeps("stop", s, "k_stopped", "k_drop"), Seen(s)
      PROVE  Staged(s)' /\ Kept(s)'
  <2>1. /\ pc["stop"][s] = "k_stopped" /\ pc'["stop"][s] = "k_drop" /\ pend'["stop"][s] = NoRow
        /\ pc'["boot"][s] = pc["boot"][s] /\ pend'["boot"][s] = pend["boot"][s]
        /\ sess'[s] = sess[s] /\ rows'[s] = rows[s] /\ (s \in inMap' <=> s \in inMap)
    BY <1>0, <1>2 DEF Keeps, Seen
  <2>2. Staged(s)'
    BY <2>1 DEF Staged, InStage, StopPCs, Procs
  <2> QED
    BY <2>1, <2>2 DEF Kept, Quiet
<1>3. ASSUME Writes("stop", s, "k_stopped", "k_drop", "stopped"), Seen(s),
             sess'[s].res = sess[s].res, CanTransition(sess[s].st, "stopped")
      PROVE  Staged(s)' /\ Kept(s)'
  <2>1. /\ pc["stop"][s] = "k_stopped" /\ pc'["stop"][s] = "k_drop"
        /\ pc'["boot"][s] = pc["boot"][s] /\ pend'["boot"][s] = pend["boot"][s]
        /\ sess'[s].asked = sess[s].asked /\ sess'[s].st = "stopped" /\ sess[s].st = "stopping"
        /\ rows'[s] = rows[s] /\ (s \in inMap' <=> s \in inMap)
    BY <1>0, <1>3, Typed DEF Writes, Seen, CanTransition, validTransitions, Session, States
  <2>2. InStage(s)'
    BY <2>1 DEF Staged, InStage, StopPCs, PreReady
  <2>3. Staged(s)'
    BY <2>1, <2>2 DEF Staged, Procs
  <2>4. ~Final(pend["boot"][s])
    BY <2>1 DEF Kept
  <2> QED
    BY <1>3, <2>1, <2>3, <2>4 DEF Kept, Quiet
<1>4. ASSUME Keeps("stop", s, "k_drop", "k_delrow"), rows'[s] = rows[s], s \notin inMap'
      PROVE  Staged(s)' /\ Kept(s)'
  <2>1. /\ pc["stop"][s] = "k_drop" /\ pc'["stop"][s] = "k_delrow" /\ pend'["stop"][s] = NoRow
        /\ pc'["boot"][s] = pc["boot"][s] /\ pend'["boot"][s] = pend["boot"][s]
        /\ sess'[s] = sess[s]
    BY <1>0, <1>4 DEF Keeps
  <2>2. Staged(s)'
    BY <1>4, <2>1 DEF Staged, InStage, StopPCs, Procs
  <2> QED
    BY <1>4, <2>1, <2>2 DEF Kept, Quiet
<1>5. ASSUME NEW c \in {"k_delrow", "forget"},
             Keeps("stop", s, c, IF c = "forget" THEN "idle" ELSE "rmws"),
             Stored(s, NoRow), s \in inMap' <=> s \in inMap
      PROVE  Staged(s)' /\ Kept(s)'
  <2>1. /\ pc["stop"][s] = c /\ pc'["stop"][s] = (IF c = "forget" THEN "idle" ELSE "rmws")
        /\ pend'["stop"][s] = NoRow
        /\ pc'["boot"][s] = pc["boot"][s] /\ pend'["boot"][s] = pend["boot"][s]
        /\ sess'[s] = sess[s]
    BY <1>0, <1>5 DEF Keeps
  <2>2. rows'[s] = NoRow
    BY <1>5, Typed, StoredEffect
  <2>3. Staged(s)'
    BY <1>5, <2>1, <2>2 DEF Staged, InStage, StopPCs, Procs
  <2>4. sess[s].asked # "no" /\ ~Final(rows'[s])
    BY <1>5, <2>1, <2>2 DEF Staged, Final
  <2> QED
    BY <1>5, <2>1, <2>2, <2>3, <2>4 DEF Kept
<1> QED
  BY <1>1, <1>2, <1>3, <1>4, <1>5 DEF StopMove

LEMMA WrittenRes ==
  ASSUME "store" \notin Faults, TInv, TInv', NEW g \in Procs, NEW s \in Sids, Staged(s), Kept(s),
         created' = created, Written(g, s)
  PROVE  Staged(s)' /\ Kept(s)'
<1>1. /\ rows'[s] = pend[g][s] /\ sess'[s] = sess[s] /\ pend[g][s] # NoRow /\ pend'[g][s] = NoRow
      /\ \A h \in Procs : h # g => pend'[h][s] = pend[h][s]
      /\ pc'["boot"][s] = pc["boot"][s] /\ pc'["stop"][s] = pc["stop"][s]
      /\ (s \in inMap' <=> s \in inMap)
  BY Typed, StoredEffect DEF Written, Procs, PendType
<1>3. ~(s > created)
  BY <1>1 DEF Staged
<1>4. Staged(s)'
  BY <1>1, <1>3 DEF Staged, InStage, Procs
<1>5. CASE g = "boot"
  <2>1. /\ pend["boot"][s] # NoRow /\ pend'["boot"][s] = NoRow /\ rows'[s] = pend["boot"][s]
        /\ ~Final(NoRow)
    BY <1>1, <1>5 DEF Final
  <2> QED
    BY <1>1, <1>4, <2>1 DEF Kept, Quiet
<1>6. CASE g = "stop"
  <2>1. /\ pc["stop"][s] \in {"k_kill", "k_drop"} /\ pend'["boot"][s] = pend["boot"][s]
    BY <1>1, <1>6 DEF Staged, Procs
  <2>2. ~Quiet(s)'
    BY <1>1, <2>1 DEF Quiet
  <2> QED
    BY <1>1, <1>4, <2>1, <2>2 DEF Kept
<1> QED
  BY <1>5, <1>6 DEF Procs

LEMMA CalledRes ==
  ASSUME TInv, TInv', NEW s \in Sids, Staged(s), Kept(s), created' = created,
         NEW d \in {"k_kill", "forget"}, StopCalled(s, d),
         \/ sess[s].st = "ready" /\ sess'[s].st = "stopping" /\ d = "k_kill"
         \/ /\ sess'[s].st = sess[s].st /\ RowOf(sess'[s]) = RowOf(sess[s]) /\ s \notin inMap'
            /\ pend'["stop"][s] = NoRow
  PROVE  Staged(s)' /\ Kept(s)'
<1>1. sess'[s].asked # "no"
  BY DEF StopCalled, Asked
<1>2. InStage(s)'
  BY DEF StopCalled, Staged, InStage, PreReady, StopPCs
<1>3. Staged(s)'
  BY <1>1, <1>2 DEF StopCalled, Staged
<1>4. sess[s].st = "ready" => ~Final(pend["boot"][s]) /\ ~(sess[s].res /\ pc["boot"][s] \in {"rmws", "idle"})
  BY DEF Kept
<1>5. ~Quiet(s)'
  BY DEF StopCalled, Quiet
<1>6. Kept(s)'
  BY <1>4, <1>5 DEF Kept, StopCalled
<1> QED
  BY <1>3, <1>6

LEMMA BegunRes ==
  ASSUME TInv, TInv', NEW s \in Sids, Staged(s), s <= created', Begun(s), ~sess'[s].res,
         pc["stop"][s] # "idle" => sess'[s].asked # "no"
  PROVE  Staged(s)' /\ Kept(s)'
<1>1. InStage(s)'
  BY DEF Begun, Staged, InStage, BootPCs
<1>2. Staged(s)'
  BY <1>1 DEF Begun, Staged, Sids, TInv, TypeOK
<1>3. pend'["boot"][s].st = "provisioning" /\ pend'["boot"][s] # NoRow
  BY DEF Begun, RowOf, NoRow
<1>4. Kept(s)'
  BY <1>3 DEF Begun, Kept, Final
<1> QED
  BY <1>2, <1>4

\* The end of the process, and a step of recovery.
LEMMA IdleRes ==
  ASSUME NEW s \in Sids, \A g \in Procs : pc'[g][s] = "idle" /\ pend'[g][s] = NoRow,
         ~sess'[s].res, s > created' => s \notin inMap' /\ rows'[s] = NoRow
  PROVE  Staged(s)' /\ Kept(s)'
<1>1. /\ pc'["boot"][s] = "idle" /\ pc'["stop"][s] = "idle"
      /\ pend'["boot"][s] = NoRow /\ pend'["stop"][s] = NoRow /\ ~Final(NoRow)
  BY DEF Procs, Final
<1>2. Staged(s)'
  BY <1>1 DEF Staged, InStage, BootPCs, StopPCs
<1>3. Kept(s)'
  BY <1>1 DEF Kept, Final
<1> QED
  BY <1>2, <1>3

\* Which step it is, in the terms of this section.
LEMMA StepOf ==
  ASSUME TInv, Back, Next, \A s \in Sids : InStage(s)
  PROVE  \/ \E s \in Sids : /\ s = created + 1 /\ created' = s /\ Begun(s) /\ Beside(s)
                            /\ cursor = 0 /\ cursor' = 0
                            /\ ~sess'[s].res /\ sess'[s].asked = "no"
         \/ \E s \in Sids : Restart(s) \/ Stop(s) \/ StopTerminal(s)
         \/ \E s \in Sids : /\ BootMove(s) \/ StopMove(s) \/ Written("boot", s) \/ Written("stop", s)
                            /\ Beside(s) /\ created' = created /\ cursor = 0 /\ cursor' = 0
         \/ \E reboot \in BOOLEAN : Crash(reboot)
         \/ \E s \in Sids : LoadNothing(s) \/ LoadReady(s) \/ LoadMidway(s) \/ LoadTerminal(s)
         \/ CleanupOrphans
<1>1. ASSUME NEW role \in Roles, NEW repo \in Repos, Create(role, repo)
      PROVE  \E s \in Sids : /\ s = created + 1 /\ created' = s /\ Begun(s) /\ Beside(s)
                             /\ cursor = 0 /\ cursor' = 0
                             /\ ~sess'[s].res /\ sess'[s].asked = "no"
  BY <1>1, CreateMoves
<1>2. ASSUME NEW s \in Sids,
             \/ BootStep(s) \/ AgentStep(s) \/ Upsert("stop", s)
             \/ TeardownStep("boot", s) \/ TeardownStep("stop", s)
      PROVE  /\ BootMove(s) \/ StopMove(s) \/ Written("boot", s) \/ Written("stop", s)
             /\ Beside(s) /\ created' = created
  <2>1. created' = created /\ "boot" \in Procs /\ "stop" \in Procs
    BY <1>2, GoroutineBounds DEF Procs
  <2> QED
    BY <1>2, <2>1, UpsertMoves, BootStepMoves, AgentStepMoves, BootTeardownMoves, StopTeardownMoves
<1>3. ~LoadStep /\ ~(\E reboot \in BOOLEAN : Crash(reboot)) => cursor = 0 /\ cursor' = 0
  BY ServingStep
<1> QED
  BY <1>1, <1>2, <1>3 DEF Next, LoadStep

LEMMA NextRes ==
  ASSUME "store" \notin Faults
  PROVE  TInv /\ Back /\ ResInv /\ [Next]_vars => ResInv'
<1> SUFFICES ASSUME TInv, Back, ResInv, [Next]_vars PROVE ResInv'
  OBVIOUS
<1>0. TInv' /\ created \in Int /\ created' \in Int
  BY NextTInv DEF TInv, TypeOK
<1>1. ASSUME NEW s \in Sids, s = created + 1, created' = s, Begun(s), Beside(s), ~sess'[s].res
      PROVE  ResInv'
  <2>1. pc["stop"][s] = "idle"
    BY <1>0, <1>1 DEF ResInv, Staged, Procs
  <2> QED
    <3>1. Staged(s) /\ s <= created' /\ created <= created'
      BY <1>0, <1>1 DEF ResInv
    <3>2. Staged(s)' /\ Kept(s)'
      BY <1>0, <1>1, <2>1, <3>1, BegunRes
    <3> QED
      BY <1>0, <1>1, <3>1, <3>2, ResFrame
<1>2. ASSUME NEW s \in Sids, Restart(s) PROVE ResInv'
  <2>1. /\ Begun(s) /\ Beside(s) /\ created' = created
        /\ s \in inMap /\ pc["boot"][s] = "idle"
        /\ sess'[s].res = sess[s].res
        /\ sess'[s].asked = IF Resting(s) THEN "no" ELSE "working"
    BY <1>2, RestartMoves
  <2>2. Staged(s) /\ Kept(s)
    BY DEF ResInv
  <2>3. ~sess[s].res
    BY <2>1, <2>2 DEF Kept
  <2>5. s <= created'
    BY <1>0, <2>1, <2>2 DEF Staged, Sids, TInv, TypeOK
  <2>4. pc["stop"][s] # "idle" => sess'[s].asked # "no"
    BY <2>1 DEF Resting, Procs
  <2> QED
    BY <1>0, <2>1, <2>2, <2>3, <2>4, <2>5, BegunRes, ResFrame
<1>3. ASSUME NEW s \in Sids, Stop(s) \/ StopTerminal(s) PROVE ResInv'
  <2>1. Beside(s) /\ created' = created
    BY <1>3, StopMoves, StopTerminalMoves
  <2>2. Staged(s)' /\ Kept(s)'
    BY <1>0, <1>3, StopMoves, StopTerminalMoves, CalledRes DEF ResInv
  <2> QED
    BY <1>0, <2>1, <2>2, ResFrame
<1>4. ASSUME NEW s \in Sids, Beside(s), created' = created,
             BootMove(s) \/ StopMove(s) \/ Written("boot", s) \/ Written("stop", s)
      PROVE  ResInv'
  <2>1. Staged(s)' /\ Kept(s)'
    BY <1>0, <1>4, BootRes, StopRes, WrittenRes DEF ResInv, Procs
  <2> QED
    BY <1>0, <1>4, <2>1, ResFrame
<1>5. ASSUME NEW reboot \in BOOLEAN, Crash(reboot) PROVE ResInv'
  <2>1. /\ \A s \in Sids : /\ \A g \in Procs : pc'[g][s] = "idle" /\ pend'[g][s] = NoRow
                           /\ ~sess'[s].res /\ s \notin inMap' /\ rows'[s] = rows[s]
        /\ created' = created
    BY <1>5 DEF Crash, NoSession
  <2>2. \A s \in Sids : s > created' => rows'[s] = NoRow
    BY <2>1 DEF ResInv, Staged
  <2> QED
    BY <2>1, <2>2, IdleRes DEF ResInv
<1>6. ASSUME NEW s \in Sids,
             LoadNothing(s) \/ LoadReady(s) \/ LoadMidway(s) \/ LoadTerminal(s)
      PROVE  ResInv'
  <2>1. /\ cursor = s /\ UNCHANGED <<pc, pend>>
        /\ \A t \in Sids : t # s => /\ rows'[t] = rows[t] /\ sess'[t] = sess[t]
                                    /\ (t \in inMap' <=> t \in inMap)
    BY <1>6, LoadOne
  <2>2. \A g \in Procs, t \in Sids : pc'[g][t] = "idle" /\ pend'[g][t] = NoRow
    BY <2>1 DEF Back, Sids
  <2>3. /\ created' = created
        /\ rows[s] = NoRow => rows'[s] = NoRow /\ UNCHANGED <<inMap, sess>>
        /\ rows[s] # NoRow => ~sess'[s].res
    BY <1>6, LoadView
  <2>4. Beside(s)
    BY <2>1 DEF Beside, Untouched
  <2>5. Staged(s)' /\ Kept(s)'
    <3>1. CASE rows[s] # NoRow
      <4>1. ~(s > created')
        BY <2>3, <3>1 DEF ResInv, Staged
      <4> QED
        BY <2>2, <2>3, <3>1, <4>1, IdleRes
    <3>2. CASE rows[s] = NoRow
      <4>1. Untouched(s) /\ Staged(s) /\ Kept(s)
        BY <2>1, <2>3, <3>2 DEF Untouched, ResInv
      <4> QED
        BY <2>3, <4>1 DEF Untouched, Staged, InStage, Kept, Quiet, Procs
    <3> QED
      BY <3>1, <3>2
  <2> QED
    BY <1>0, <2>3, <2>4, <2>5, ResFrame
<1>7. CASE CleanupOrphans
  BY <1>7 DEF CleanupOrphans, maps, ResInv, Staged, InStage, Kept, Quiet
<1>8. CASE UNCHANGED vars
  BY <1>8 DEF vars, maps, ResInv, Staged, InStage, Kept, Quiet
<1>9. \A s \in Sids : InStage(s)
  BY DEF ResInv, Staged
<1>10. CASE Next
  BY <1>1, <1>2, <1>3, <1>4, <1>5, <1>6, <1>7, <1>9, <1>10, StepOf
<1> QED
  BY <1>8, <1>10

LEMMA InitRes == Init => ResInv
<1> SUFFICES ASSUME Init, NEW s \in Sids PROVE Staged(s) /\ Kept(s)
  BY DEF ResInv
<1>1. /\ pc["boot"][s] = "idle" /\ pc["stop"][s] = "idle"
      /\ pend["boot"][s] = NoRow /\ pend["stop"][s] = NoRow /\ ~Final(NoRow)
      /\ s \notin inMap /\ rows[s] = NoRow /\ ~sess[s].res
  BY DEF Init, Procs, Final, NoSession
<1> QED
  BY <1>1 DEF Staged, InStage, BootPCs, StopPCs, Kept, Procs

\* The invariant behind the two theorems on results, for every way in which
\* calls of Stop and Restart, crashes and held up goroutines may interleave.
LEMMA ResInvariant ==
  ASSUME "store" \notin Faults PROVE Spec => [](TInv /\ Back /\ ResInv)
<1>1. Init => TInv /\ Back /\ ResInv
  BY InitTInv, InitRes DEF Init, Back
<1>2. TInv /\ Back /\ ResInv /\ [Next]_vars => (TInv /\ Back /\ ResInv)'
  BY NextTInv, NextBack, NextRes
<1> QED
  BY <1>1, <1>2, PTL DEF Spec

\* Once nobody is at work on an agent that finished, its result is in its row,
\* unless Stop has deleted the row (ResultDelivered): Stop and its goroutine,
\* whenever they come in between AgentDone and the end of boot, never leave an
\* older row there.
THEOREM ResultsAreDelivered ==
  ASSUME "store" \notin Faults PROVE Spec => []ResultDelivered
<1>1. TInv /\ ResInv => ResultDelivered
  <2> SUFFICES ASSUME TInv, ResInv, NEW s \in Sids, Resting(s), sess[s].res
               PROVE  \/ WaitForSession(s) = "result" /\ get_session_result(s).res
                      \/ sess[s].asked # "no" /\ rows[s] = NoRow
    BY DEF ResultDelivered
  <2>1. /\ pc["boot"][s] = "idle" /\ Quiet(s) /\ pend["boot"][s] = NoRow /\ Kept(s)
    BY DEF Resting, Procs, Quiet, ResInv
  <2>2. Final(rows[s]) \/ (rows[s] = NoRow /\ sess[s].asked # "no")
    BY <2>1 DEF Kept, Final
  <2>3. CASE Final(rows[s])
    <3>1. rows[s] \in Row /\ rows[s].st = "stopped" /\ rows[s].res /\ rows[s] # NoRow
      BY <2>3, Typed DEF Final
    <3>2. get_session_result(s) = [rows[s] EXCEPT !.res = rows[s].res /\ TRUE]
      BY DEF get_session_result, slimSession, GetSession
    <3>3. get_session_result(s).res
      BY <3>1, <3>2 DEF Row
    <3>4. WaitForSession(s) = "result"
      BY <3>1 DEF WaitForSession
    <3> QED
      BY <3>3, <3>4
  <2> QED
    BY <2>2, <2>3
<1> QED
  BY <1>1, ResInvariant, PTL

\* The row of a finished agent is never overwritten but by Stop or by a Restart
\* of the session (ResultKept): no crash, recovery or late write of either
\* goroutine withdraws a result that the store has.
THEOREM ResultsAreKept ==
  ASSUME "store" \notin Faults PROVE Spec => ResultKept
<1> DEFINE Goal(s) == \/ rows'[s] = rows[s]
                      \/ pc["stop"][s] # "idle"
                      \/ pend["boot"][s] # NoRow /\ pend["boot"][s].st = "provisioning"
<1>1. ASSUME TInv, Back, ResInv, [Next]_vars, NEW s \in Sids,
             rows[s] # NoRow, rows[s].st = "stopped", rows[s].res
      PROVE  Goal(s)
  <2>0. Staged(s) /\ Kept(s) /\ Final(rows[s]) /\ \A t \in Sids : InStage(t)
    BY <1>1 DEF ResInv, Staged, Final
  <2>1. ASSUME NEW t \in Sids, Beside(t), t # s PROVE Goal(s)
    BY <2>1 DEF Beside, Untouched
  <2>2. ASSUME NEW t \in Sids, Begun(t), Beside(t) PROVE Goal(s)
    BY <2>1, <2>2 DEF Begun
  <2>3. ASSUME NEW t \in Sids, Stop(t) \/ StopTerminal(t) PROVE Goal(s)
    BY <1>1, <2>1, <2>3, StopMoves, StopTerminalMoves DEF StopCalled
  <2>4. ASSUME NEW t \in Sids, Restart(t) PROVE Goal(s)
    BY <1>1, <2>2, <2>4, RestartMoves
  <2>5. ASSUME BootMove(s) PROVE Goal(s)
    BY <2>5 DEF BootMove, Seen
  <2>6. ASSUME StopMove(s) PROVE Goal(s)
    BY <2>6 DEF StopMove, Keeps, Writes, Moved, StopPair
  <2>7. ASSUME Written("boot", s) PROVE Goal(s)
    <3>1. rows'[s] = pend["boot"][s] /\ pend["boot"][s] # NoRow
      BY <1>1, <2>7, Typed, StoredEffect DEF Written, Procs, PendType
    <3>2. CASE pc["stop"][s] = "idle"
      BY <2>0, <3>1, <3>2 DEF Kept, Quiet
    <3> QED
      BY <3>2
  <2>8. ASSUME Written("stop", s) PROVE Goal(s)
    BY <2>0, <2>8 DEF Written, Staged
  <2>9. ASSUME NEW reboot \in BOOLEAN, Crash(reboot) PROVE Goal(s)
    BY <2>9 DEF Crash
  <2>10. ASSUME NEW t \in Sids,
                LoadNothing(t) \/ LoadReady(t) \/ LoadMidway(t) \/ LoadTerminal(t)
         PROVE  Goal(s)
    <3>1. /\ t # s => rows'[s] = rows[s]
          /\ rows'[t] = rows[t] \/ (rows[t].st \in Midway \cup {"ready"} /\ rows[t] # NoRow)
      BY <1>1, <2>10, LoadOne, LoadView
    <3> QED
      BY <1>1, <3>1 DEF Midway
  <2>11. CASE CleanupOrphans
    BY <2>11 DEF CleanupOrphans
  <2>12. CASE UNCHANGED vars
    BY <2>12 DEF vars
  <2>13. CASE Next
    <3> HIDE DEF Goal
    <3> QED
      BY <1>1, <2>0, <2>1, <2>2, <2>3, <2>4, <2>5, <2>6, <2>7, <2>8, <2>9, <2>10, <2>11, <2>13, StepOf
  <2> QED
    BY <1>1, <2>12, <2>13
<1>2. TInv /\ Back /\ ResInv /\ [Next]_vars =>
        [\A s \in Sids : rows[s] # NoRow /\ rows[s].st = "stopped" /\ rows[s].res =>
           \/ rows'[s] = rows[s]
           \/ pc["stop"][s] # "idle"
           \/ pend["boot"][s] # NoRow /\ pend["boot"][s].st = "provisioning"]_vars
  BY <1>1
<1> QED
  BY <1>2, ResInvariant, PTL DEF Spec, ResultKept

----------------------------------------------------------------------------
(* The two views of a session, the map and its row, are related at every   *)
(* place of the two goroutines, and at every step of recovery.             *)

\* While the server serves: which row each goroutine has left to write, and
\* what the row says when none has, unless the session was asked to stop or
\* restart in the middle of something.
Told(s) ==
  LET b == pc["boot"][s]
      k == pc["stop"][s]
      x == sess[s]
      r == rows[s]
      pb == pend["boot"][s]
      ps == pend["stop"][s] IN
  /\ k # "idle" \/ ps # NoRow => b = "idle" /\ pb = NoRow
  /\ pb # NoRow => s \in inMap /\ pb = RowOf(x)
  /\ ps # NoRow => s \in inMap /\ ps = RowOf(x)
  /\ s \in inMap /\ pb = NoRow /\ ps = NoRow =>
       r # NoRow /\ r.st = x.st /\ r.slot = x.slot /\ (b # "idle" => r.role = x.role)
  /\ s \notin inMap =>
       r = NoRow \/ k \in {"k_delrow", "forget"} \/ (r.st = "stopped" /\ r.role # "interactive")
  /\ b \notin {"idle", "rmws"} => s \in inMap
  /\ k \in {"k_kill", "k_snap", "k_free", "k_stopped", "k_drop"} => s \in inMap
  /\ k \in {"k_delrow", "forget"} => s \notin inMap
  /\ b = "agent" => x.st = "ready"
  /\ b \in {"agent"} \cup Ending => x.role # "interactive"
  /\ b \in {"d_kill", "d_snap", "d_free", "d_stopped"} => x.st = "stopping"
  /\ b \notin {"u_kill", "u_snap", "u_free", "u_drop"}

\* While loadFromDB goes through the rows.
Reread(s) ==
  /\ s \in inMap => /\ s < cursor /\ rows[s] # NoRow
                    /\ rows[s].st = sess[s].st /\ rows[s].slot = sess[s].slot
  /\ s \notin inMap /\ s < cursor => rows[s] = NoRow
  /\ sess[s].asked = "no"

Related(s) == IF cursor = 0 THEN sess[s].asked # "working" => Told(s) ELSE Reread(s)

RowInv == \A s \in Sids : Related(s)

LEMMA RelatedFrame ==
  ASSUME RowInv, NEW s \in Sids, Beside(s), cursor = 0, cursor' = 0,
         sess'[s].asked # "working" => Told(s)'
  PROVE  RowInv'
<1>1. ASSUME NEW t \in Sids, t # s PROVE Related(t)'
  <2>1. /\ pc'["boot"][t] = pc["boot"][t] /\ pc'["stop"][t] = pc["stop"][t]
        /\ pend'["boot"][t] = pend["boot"][t] /\ pend'["stop"][t] = pend["stop"][t]
        /\ sess'[t] = sess[t] /\ rows'[t] = rows[t] /\ (t \in inMap' <=> t \in inMap)
    BY <1>1 DEF Beside, Untouched, Procs
  <2>2. Related(t)
    BY DEF RowInv
  <2>3. Told(t)' <=> Told(t)
    BY <2>1 DEF Told
  <2> QED
    BY <2>1, <2>2, <2>3 DEF Related
<1>2. Related(s)'
  BY DEF Related
<1> QED
  BY <1>1, <1>2 DEF RowInv

\* The fields of a row, as TLAPS needs them.
LEMMA RowSays ==
  ASSUME NEW x \in Session
  PROVE  /\ RowOf(x).st = x.st /\ RowOf(x).slot = x.slot /\ RowOf(x).role = x.role
         /\ (x.st \in States => RowOf(x) # NoRow)
  BY DEF RowOf, NoRow, States

LEMMA KeepsTold ==
  ASSUME TInv, TInv', NEW s \in Sids, Told(s),
         NEW c \in PCs, NEW d \in PCs, BootPair(c, d), Keeps("boot", s, c, d), Seen(s)
  PROVE  Told(s)'
<1>1. /\ pc["boot"][s] = c /\ pc'["boot"][s] = d /\ pend["boot"][s] = NoRow
      /\ pend'["boot"][s] = NoRow
      /\ pc'["stop"][s] = pc["stop"][s] /\ pend'["stop"][s] = pend["stop"][s]
      /\ sess'[s].st = sess[s].st /\ sess'[s].slot = sess[s].slot
      /\ sess'[s].role = sess[s].role
      /\ rows'[s] = rows[s] /\ (s \in inMap' <=> s \in inMap)
  BY DEF Keeps, Moved, Seen, Procs
<1>2. /\ c # "idle" /\ d \notin {"agent", "d_kill", "d_drop", "u_kill"}
      /\ d \in {"d_snap", "d_free", "d_stopped"} => c \in {"d_kill", "d_snap", "d_free"}
      /\ d \in {"u_snap", "u_free", "u_drop"} => c \in {"u_kill", "u_snap", "u_free"}
      /\ d # "rmws" /\ (c = "rmws" => d = "idle")
  BY DEF BootPair
<1>3. pc["stop"][s] = "idle" /\ pend["stop"][s] = NoRow
  BY <1>1, <1>2 DEF Told
<1> QED
  BY <1>1, <1>2, <1>3 DEF Told, Ending

LEMMA TellsTold ==
  ASSUME TInv, TInv', "usage" \notin Outcomes, NEW s \in Sids, Told(s), Staged(s),
         NEW c \in PCs, NEW d \in PCs, NEW to \in States, BootTells(s, c, d, to),
         Writes("boot", s, c, d, to), Seen(s)
  PROVE  Told(s)'
<1>1. /\ pc["boot"][s] = c /\ pc'["boot"][s] = d /\ pend["boot"][s] = NoRow
      /\ pend'["boot"][s] = RowOf(sess'[s])
      /\ pc'["stop"][s] = pc["stop"][s] /\ pend'["stop"][s] = pend["stop"][s]
      /\ sess'[s].st = to /\ sess'[s].role = sess[s].role
      /\ rows'[s] = rows[s] /\ (s \in inMap' <=> s \in inMap)
  BY DEF Writes, Moved, Seen, Procs
<1>2. /\ c \notin {"idle", "rmws"}
      /\ d = "agent" => to = "ready" /\ sess[s].role # "interactive"
      /\ d \in Ending => d = "d_drop" /\ c = "d_stopped"
      /\ d \notin {"u_kill", "u_snap", "u_free", "u_drop", "rmws"}
  BY DEF BootTells, Ending
<1>3. /\ pc["stop"][s] = "idle" /\ pend["stop"][s] = NoRow /\ s \in inMap
      /\ c = "d_stopped" => sess[s].role # "interactive"
  BY <1>1, <1>2 DEF Told, Ending
<1>4. pend'["boot"][s] # NoRow
  BY <1>1, RowSays, Typed DEF TInv, TypeOK
<1> QED
  BY <1>1, <1>2, <1>3, <1>4 DEF Told, Ending

LEMMA DoneTold ==
  ASSUME TInv, TInv', NEW s \in Sids, Told(s),
         Writes("boot", s, "agent", "d_kill", TryState(sess[s].st, "stopping")), Seen(s)
  PROVE  Told(s)'
<1>1. /\ pc["boot"][s] = "agent" /\ pc'["boot"][s] = "d_kill" /\ pend["boot"][s] = NoRow
      /\ pend'["boot"][s] = RowOf(sess'[s])
      /\ pc'["stop"][s] = pc["stop"][s] /\ pend'["stop"][s] = pend["stop"][s]
      /\ sess'[s].st = TryState(sess[s].st, "stopping") /\ sess'[s].role = sess[s].role
      /\ rows'[s] = rows[s] /\ (s \in inMap' <=> s \in inMap)
  BY DEF Writes, Moved, Seen, Procs
<1>2. /\ pc["stop"][s] = "idle" /\ pend["stop"][s] = NoRow /\ s \in inMap
      /\ sess[s].role # "interactive" /\ sess[s].st = "ready"
  BY <1>1 DEF Told
<1>3. sess'[s].st = "stopping"
  BY <1>1, <1>2 DEF TryState, CanTransition, validTransitions
<1>4. pend'["boot"][s] # NoRow
  BY <1>1, <1>3, RowSays DEF TInv, TypeOK, States
<1> QED
  BY <1>1, <1>2, <1>3, <1>4 DEF Told

LEMMA DropTold ==
  ASSUME TInv, NEW s \in Sids, Told(s), Staged(s), NEW c \in {"u_drop", "d_drop"},
         Keeps("boot", s, c, "rmws"), rows'[s] = rows[s], s \notin inMap'
  PROVE  Told(s)'
<1>1. /\ pc["boot"][s] = c /\ pc'["boot"][s] = "rmws" /\ pend["boot"][s] = NoRow
      /\ pend'["boot"][s] = NoRow
      /\ pc'["stop"][s] = pc["stop"][s] /\ pend'["stop"][s] = pend["stop"][s]
      /\ sess'[s] = sess[s]
  BY DEF Keeps, Moved, Procs
<1>2. /\ c = "d_drop" /\ s \in inMap /\ sess[s].role # "interactive" /\ sess[s].st = "stopped"
      /\ pc["stop"][s] = "idle" /\ pend["stop"][s] = NoRow
  BY <1>1 DEF Told, Ending, Staged, InStage
<1>3. s \in inMap /\ pend["boot"][s] = NoRow /\ pend["stop"][s] = NoRow /\ pc["boot"][s] # "idle" =>
        rows[s].st = sess[s].st /\ rows[s].role = sess[s].role
  BY DEF Told
<1>4. rows[s].st = "stopped" /\ rows[s].role # "interactive"
  BY <1>1, <1>2, <1>3, SMTT(20)
<1> QED
  BY <1>1, <1>2, <1>4 DEF Told, Ending

LEMMA StopTold ==
  ASSUME "store" \notin Faults, TInv, TInv', NEW s \in Sids, Told(s), StopMove(s)
  PROVE  Told(s)'
<1>0. \A c, d : Moved("stop", s, c, d) =>
        /\ pc["stop"][s] = c /\ pc'["stop"][s] = d /\ pend["stop"][s] = NoRow
        /\ pc'["boot"][s] = pc["boot"][s] /\ pend'["boot"][s] = pend["boot"][s]
        /\ sess'[s].role = sess[s].role /\ sess'[s].slot = sess[s].slot
  BY DEF Moved, Procs
<1>1. ASSUME NEW c \in PCs, NEW d \in PCs, Keeps("stop", s, c, d), Seen(s),
             StopPair(c, d) \/ (c = "k_stopped" /\ d = "k_drop")
      PROVE  Told(s)'
  <2>1. /\ pc["stop"][s] = c /\ pc'["stop"][s] = d /\ pend["stop"][s] = NoRow
        /\ pend'["stop"][s] = NoRow
        /\ pc'["boot"][s] = pc["boot"][s] /\ pend'["boot"][s] = pend["boot"][s]
        /\ sess'[s] = sess[s] /\ rows'[s] = rows[s] /\ (s \in inMap' <=> s \in inMap)
        /\ c # "idle" /\ c \notin {"k_delrow", "forget"} /\ d \notin {"k_delrow", "forget"}
        /\ d \in {"k_kill", "k_snap", "k_free", "k_stopped", "k_drop"} =>
             c \in {"k_kill", "k_snap", "k_free", "k_stopped"}
    BY <1>0, <1>1 DEF Keeps, Seen, StopPair
  <2> QED
    BY <2>1 DEF Told
<1>2. ASSUME Writes("stop", s, "k_stopped", "k_drop", "stopped"), Seen(s)
      PROVE  Told(s)'
  <2>1. /\ pc["stop"][s] = "k_stopped" /\ pc'["stop"][s] = "k_drop"
        /\ pend'["stop"][s] = RowOf(sess'[s]) /\ sess'[s].st = "stopped"
        /\ pc'["boot"][s] = pc["boot"][s] /\ pend'["boot"][s] = pend["boot"][s]
        /\ rows'[s] = rows[s] /\ (s \in inMap' <=> s \in inMap)
    BY <1>0, <1>2 DEF Writes, Seen
  <2>2. pc["boot"][s] = "idle" /\ pend["boot"][s] = NoRow /\ s \in inMap
    BY <2>1 DEF Told
  <2>3. pend'["stop"][s] # NoRow
    BY <2>1, RowSays DEF TInv, TypeOK, States
  <2> QED
    BY <2>1, <2>2, <2>3 DEF Told, Ending
<1>3. ASSUME Keeps("stop", s, "k_drop", "k_delrow"), rows'[s] = rows[s], s \notin inMap'
      PROVE  Told(s)'
  <2>1. /\ pc["stop"][s] = "k_drop" /\ pc'["stop"][s] = "k_delrow" /\ pend'["stop"][s] = NoRow
        /\ pc'["boot"][s] = pc["boot"][s] /\ pend'["boot"][s] = pend["boot"][s]
        /\ sess'[s] = sess[s]
    BY <1>0, <1>3 DEF Keeps
  <2>2. pc["boot"][s] = "idle" /\ pend["boot"][s] = NoRow
    BY <2>1 DEF Told
  <2> QED
    BY <1>3, <2>1, <2>2 DEF Told, Ending
<1>4. ASSUME NEW c \in {"k_delrow", "forget"},
             Keeps("stop", s, c, IF c = "forget" THEN "idle" ELSE "rmws"),
             Stored(s, NoRow), s \in inMap' <=> s \in inMap
      PROVE  Told(s)'
  <2>1. /\ pc["stop"][s] = c /\ pc'["stop"][s] \in {"idle", "rmws"} /\ pend'["stop"][s] = NoRow
        /\ pc'["boot"][s] = pc["boot"][s] /\ pend'["boot"][s] = pend["boot"][s]
    BY <1>0, <1>4 DEF Keeps
  <2>2. pc["boot"][s] = "idle" /\ pend["boot"][s] = NoRow /\ s \notin inMap /\ s \notin inMap'
    BY <1>4, <2>1 DEF Told
  <2>3. rows'[s] = NoRow
    BY <1>4, Typed, StoredEffect
  <2> QED
    BY <2>1, <2>2, <2>3 DEF Told, Ending
<1> QED
  BY <1>1, <1>2, <1>3, <1>4 DEF StopMove, PCs

LEMMA WrittenTold ==
  ASSUME "store" \notin Faults, TInv, TInv', NEW g \in Procs, NEW s \in Sids, Told(s), Written(g, s)
  PROVE  Told(s)'
<1>1. /\ rows'[s] = pend[g][s] /\ sess'[s] = sess[s] /\ pend[g][s] # NoRow /\ pend'[g][s] = NoRow
      /\ \A h \in Procs : h # g => pend'[h][s] = pend[h][s]
      /\ pc'["boot"][s] = pc["boot"][s] /\ pc'["stop"][s] = pc["stop"][s]
      /\ (s \in inMap' <=> s \in inMap)
  BY Typed, StoredEffect DEF Written, Procs, PendType
<1>2. rows'[s] = RowOf(sess[s]) /\ s \in inMap
      /\ pend'["boot"][s] = NoRow /\ pend'["stop"][s] = NoRow
  <2>1. CASE g = "boot"
    BY <1>1, <2>1 DEF Told, Procs
  <2>2. CASE g = "stop"
    BY <1>1, <2>2 DEF Told, Procs
  <2> QED
    BY <2>1, <2>2 DEF Procs
<1>3. /\ rows'[s].st = sess[s].st /\ rows'[s].slot = sess[s].slot /\ rows'[s].role = sess[s].role
      /\ rows'[s] # NoRow
  BY <1>1, <1>2, Typed, RowSays
<1>4. pc["boot"][s] = "idle" \/ pc["stop"][s] = "idle"
  BY DEF Told
<1> QED
  BY <1>1, <1>2, <1>3, <1>4 DEF Told

\* Calls of Stop and Restart, and Create, while nobody is at work.
LEMMA CalledTold ==
  ASSUME TInv, TInv', NEW s \in Sids, Told(s), Resting(s), sess[s].st # "absent",
         NEW d \in {"k_kill", "forget"}, StopCalled(s, d),
         \/ /\ d = "k_kill" /\ sess'[s].st = "stopping" /\ s \in inMap'
            /\ pend'["stop"][s] = RowOf(sess'[s])
         \/ d = "forget" /\ s \notin inMap' /\ pend'["stop"][s] = NoRow
  PROVE  Told(s)'
<1>1. /\ pc["boot"][s] = "idle" /\ pend["boot"][s] = NoRow
      /\ pc'["boot"][s] = "idle" /\ pend'["boot"][s] = NoRow /\ pc'["stop"][s] = d
  BY DEF Resting, Procs, StopCalled
<1>2. CASE d = "k_kill" /\ s \in inMap' /\ pend'["stop"][s] = RowOf(sess'[s])
           /\ sess'[s].st = "stopping"
  <2>1. pend'["stop"][s] # NoRow
    BY <1>2, RowSays DEF TInv, TypeOK, States
  <2> QED
    BY <1>1, <1>2, <2>1 DEF Told, Ending
<1>3. CASE d = "forget" /\ s \notin inMap' /\ pend'["stop"][s] = NoRow
  BY <1>1, <1>3 DEF Told, Ending
<1> QED
  BY <1>2, <1>3

LEMMA BegunTold ==
  ASSUME TInv, TInv', NEW s \in Sids, Begun(s), pc["stop"][s] = "idle", pend["stop"][s] = NoRow
  PROVE  Told(s)'
<1>1. pend'["boot"][s] # NoRow
  BY RowSays DEF Begun, TInv, TypeOK, States
<1> QED
  BY <1>1 DEF Begun, Told, Ending

LEMMA NextRows ==
  ASSUME "store" \notin Faults, "usage" \notin Outcomes
  PROVE  TInv /\ Back /\ ResInv /\ RowInv /\ [Next]_vars => RowInv'
<1> SUFFICES ASSUME TInv, Back, ResInv, RowInv, [Next]_vars PROVE RowInv'
  OBVIOUS
<1>0. TInv' /\ \A s \in Sids : InStage(s) /\ Staged(s)
  BY NextTInv DEF ResInv, Staged
<1>1. ASSUME NEW s \in Sids, s = created + 1, Begun(s), Beside(s), cursor = 0, cursor' = 0
      PROVE  RowInv'
  <2>1. pc["stop"][s] = "idle" /\ pend["stop"][s] = NoRow
    <3>1. s > created
      BY <1>1 DEF TInv, TypeOK
    <3> QED
      BY <1>0, <3>1 DEF Staged, Procs
  <2>2. Told(s)'
    BY <1>0, <1>1, <2>1, BegunTold
  <2> QED
    BY <1>1, <2>2, RelatedFrame
<1>2. ASSUME NEW s \in Sids, Restart(s) PROVE RowInv'
  <2>1. /\ Begun(s) /\ Beside(s) /\ cursor = 0 /\ cursor' = 0
        /\ sess'[s].asked = IF Resting(s) THEN "no" ELSE "working"
    BY <1>2, RestartMoves
  <2>2. sess'[s].asked # "working" => pc["stop"][s] = "idle" /\ pend["stop"][s] = NoRow
    BY <2>1 DEF Resting, Procs
  <2>3. sess'[s].asked # "working" => Told(s)'
    BY <1>0, <2>1, <2>2, BegunTold
  <2> QED
    BY <2>1, <2>3, RelatedFrame
<1>3. ASSUME NEW s \in Sids, Stop(s) \/ StopTerminal(s) PROVE RowInv'
  <2>1. /\ Beside(s) /\ cursor = 0 /\ cursor' = 0
        /\ sess'[s].asked = Asked(s) /\ sess[s].st # "absent"
        /\ \/ /\ StopCalled(s, "k_kill") /\ sess'[s].st = "stopping" /\ s \in inMap'
              /\ pend'["stop"][s] = RowOf(sess'[s])
           \/ StopCalled(s, "forget") /\ s \notin inMap' /\ pend'["stop"][s] = NoRow
    BY <1>3, StopMoves, StopTerminalMoves DEF StopCalled
  <2>2. sess'[s].asked # "working" => Resting(s) /\ Told(s)
    BY <2>1 DEF Asked, RowInv, Related
  <2>3. sess'[s].asked # "working" => Told(s)'
    BY <1>0, <2>1, <2>2, CalledTold
  <2> QED
    BY <2>1, <2>3, RelatedFrame
<1>4. ASSUME NEW s \in Sids, Beside(s), cursor = 0, cursor' = 0,
             BootMove(s) \/ StopMove(s) \/ Written("boot", s) \/ Written("stop", s)
      PROVE  RowInv'
  <2>1. sess'[s].asked = sess[s].asked
    BY <1>4 DEF BootMove, StopMove, Keeps, Writes, Moved, Written
  <2>2. ASSUME Told(s), BootMove(s) PROVE Told(s)'
    BY <1>0, <2>2, KeepsTold, TellsTold, DoneTold, DropTold DEF BootMove
  <2>3. ASSUME Told(s), ~BootMove(s) PROVE Told(s)'
    BY <1>0, <1>4, <2>3, StopTold, WrittenTold DEF Procs
  <2>4. sess'[s].asked # "working" => Told(s)'
    BY <1>4, <2>1, <2>2, <2>3 DEF RowInv, Related
  <2> QED
    BY <1>4, <2>4, RelatedFrame, SMTT(20)
<1>5. ASSUME NEW reboot \in BOOLEAN, Crash(reboot) PROVE RowInv'
  <2>1. cursor' = 1 /\ inMap' = {} /\ \A s \in Sids : sess'[s].asked = "no"
    BY <1>5 DEF Crash, NoSession
  <2>2. \A s \in Sids : ~(s < 1)
    BY DEF Sids
  <2>3. ASSUME NEW s \in Sids PROVE Reread(s)'
    BY <2>1, <2>2 DEF Reread
  <2> QED
    BY <2>1, <2>3 DEF RowInv, Related
<1>6. ASSUME NEW s \in Sids,
             LoadNothing(s) \/ LoadReady(s) \/ LoadMidway(s) \/ LoadTerminal(s)
      PROVE  RowInv'
  <2>1. /\ cursor = s /\ cursor' = s + 1 /\ cursor # 0 /\ cursor' # 0
        /\ \A t \in Sids : t # s => /\ rows'[t] = rows[t] /\ sess'[t] = sess[t]
                                    /\ (t \in inMap' <=> t \in inMap)
    BY <1>6, LoadOne DEF Sids
  <2>2. ASSUME NEW t \in Sids, t # s PROVE Reread(t)'
    <3>1. Reread(t) /\ (t < cursor' <=> t < cursor)
      BY <2>1, <2>2 DEF RowInv, Related, Sids
    <3> QED
      BY <2>1, <2>2, <3>1 DEF Reread
  <2>3. Reread(s)'
    <3>1. Reread(s) /\ s < cursor'
      BY <2>1 DEF RowInv, Related, Sids
    <3>2. /\ rows[s] = NoRow => rows'[s] = NoRow /\ UNCHANGED <<inMap, sess>>
          /\ rows[s] # NoRow => /\ s \in inMap' /\ sess'[s].asked = "no" /\ rows'[s] # NoRow
                                /\ rows'[s].st = sess'[s].st /\ rows'[s].slot = sess'[s].slot
      BY <1>6, LoadView
    <3> QED
      BY <3>1, <3>2 DEF Reread
  <2> QED
    BY <2>1, <2>2, <2>3 DEF RowInv, Related
<1>7. CASE CleanupOrphans
  <2>1. /\ cursor = MaxSessions + 1 /\ cursor' = 0 /\ cursor # 0
        /\ UNCHANGED <<inMap, sess, rows, pc, pend>>
    BY <1>7, ConstantsAssumption DEF CleanupOrphans, maps
  <2>2. ASSUME NEW s \in Sids PROVE Told(s)'
    <3>1. Reread(s) /\ s < cursor
      BY <2>1, ConstantsAssumption DEF RowInv, Related, Sids
    <3>2. /\ pc["boot"][s] = "idle" /\ pc["stop"][s] = "idle"
          /\ pend["boot"][s] = NoRow /\ pend["stop"][s] = NoRow
      BY <2>1 DEF Back, Procs, TInv, TypeOK
    <3> QED
      BY <2>1, <3>1, <3>2 DEF Reread, Told, Ending
  <2> QED
    BY <2>1, <2>2 DEF RowInv, Related
<1>8. CASE UNCHANGED vars
  BY <1>8 DEF vars, maps, bounds, RowInv, Related, Told, Reread
<1>9. CASE Next
  BY <1>0, <1>1, <1>2, <1>3, <1>4, <1>5, <1>6, <1>7, <1>9, StepOf
<1> QED
  BY <1>8, <1>9

\* The map and the rows agree on every session that nobody is at work on, and
\* that was not asked to stop or restart in the middle of something
\* (RowsMatch), however the writes of its two goroutines are held up and
\* whenever the server ends and recovers; agents that meet their usage limit
\* are left out (the run usage_limit).
THEOREM MapAndRowsAgree ==
  ASSUME "store" \notin Faults, "usage" \notin Outcomes PROVE Spec => []RowsMatch
<1>1. Init => RowInv
  <2> SUFFICES ASSUME Init, NEW s \in Sids PROVE Related(s)
    BY DEF RowInv
  <2>1. /\ pc["boot"][s] = "idle" /\ pc["stop"][s] = "idle"
        /\ pend["boot"][s] = NoRow /\ pend["stop"][s] = NoRow
        /\ s \notin inMap /\ rows[s] = NoRow /\ cursor = 0
    BY DEF Init, Procs
  <2> QED
    BY <2>1 DEF Related, Told, Ending
<1>2. TInv /\ RowInv => RowsMatch
  <2> SUFFICES ASSUME TInv, RowInv, cursor = 0, NEW s \in Sids, Resting(s),
                      sess[s].asked # "working"
               PROVE  /\ s \in List => /\ s \in ListSessions
                                       /\ get_session(s).st = sess[s].st
                                       /\ get_session(s).slot = sess[s].slot
                      /\ s \in list_sessions(FALSE) => s \in List
                      /\ s \in list_sessions(TRUE) \ List =>
                           /\ get_session(s).st = "stopped"
                           /\ get_session(s).role # "interactive"
    BY DEF RowsMatch
  <2>1. /\ Told(s) /\ pc["boot"][s] = "idle" /\ pc["stop"][s] = "idle"
        /\ pend["boot"][s] = NoRow /\ pend["stop"][s] = NoRow
    BY DEF RowInv, Related, Resting, Procs
  <2>2. /\ s \in inMap => rows[s] # NoRow /\ rows[s].st = sess[s].st /\ rows[s].slot = sess[s].slot
        /\ s \notin inMap => rows[s] = NoRow \/ (rows[s].st = "stopped" /\ rows[s].role # "interactive")
    BY <2>1 DEF Told
  <2>3. rows[s] # NoRow => /\ get_session(s).st = rows[s].st /\ get_session(s).slot = rows[s].slot
                           /\ get_session(s).role = rows[s].role
    BY Typed DEF get_session, slimSession, GetSession, Row
  <2> QED
    BY <2>2, <2>3 DEF List, ListSessions, list_sessions, isActiveSession
<1>3. TInv /\ Back /\ ResInv /\ RowInv /\ [Next]_vars => RowInv'
  BY NextRows
<1> QED
  BY <1>1, <1>2, <1>3, ResInvariant, PTL DEF Spec
====
