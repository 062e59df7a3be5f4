---- MODULE SessionRecoveryProofs ----
(***************************************************************************)
(* The sessions over any number of lives of the server: it may end at any  *)
(* step, also in the middle of a recovery, the host may reboot with it,    *)
(* and stopped sessions may be restarted.  For every number of sessions,   *)
(* slots, crashes and restarts.                                            *)
(***************************************************************************)
EXTENDS SessionVMProofs

\* Where recovery works.  None of the conditions can be dropped:
\*  - a goroutine held up between building its row and writing it leaves a row
\*    at "stopping" whose slot has a new owner, whom loadFromDB then kills;
\*  - an agent's usage limit leaves the row at "ready" with the slot given away;
\*  - Stop in the middle of an agent's run frees the slot twice, the second time
\*    perhaps that of a session that got it in between;
\*  - a session that is restarted after a stop finds its workspace there, the
\*    clone fails, and so does the setup, which leaves the VM behind; and so
\*    does a checkout that fails by itself.
Recovers ==
  /\ Orderly /\ ~StopMidRun /\ WorkspacesWork
  /\ TRUE \in Repos => MaxRestarts = 0

\* The store has session s as one that may have a VM.
Claims(s) == rows[s] # NoRow /\ rows[s].st \in Busy

\* No two rows claim the same slot: loadFromDB can kill what runs in the slot of
\* a row without looking whose it is.
RowsApart ==
  /\ \A s \in Sids : rows[s] # NoRow => s <= created /\ (rows[s].repo => TRUE \in Repos)
  /\ \A s, t \in Sids : s # t /\ Claims(s) /\ Claims(t) => rows[s].slot # rows[t].slot

\* While loadFromDB runs: no goroutine is at work, the map holds what the rows
\* below the cursor say, and a session that was taken back has its VM.
Loaded(s) ==
  /\ \A g \in Procs : pc[g][s] = "idle" /\ pend[g][s] = NoRow
  /\ s \in inMap <=> s < cursor /\ rows[s] # NoRow
  /\ s \in inMap =>
       /\ sess[s].st = rows[s].st /\ sess[s].slot = rows[s].slot /\ sess[s].repo = rows[s].repo
       /\ sess[s].st \in {"ready", "stopped", "failed"}
       /\ sess[s].st = "ready" => <<s, sess[s].slot>> \in vms /\ sess[s].v = "detached"
  /\ sess[s].repo => TRUE \in Repos
  /\ s > created => s \notin workspaces
  /\ s \in workspaces => TRUE \in Repos

\* While loadFromDB runs, every VM that is still there has a row that leads to
\* it, its network, its snapshot and its workspace.
Lasting(x) ==
  /\ x[1] \in Sids /\ x = <<x[1], x[2]>> /\ Claims(x[1]) /\ rows[x[1]].slot = x[2]
  /\ x[2] \in taps /\ x[1] \in snaps /\ (rows[x[1]].repo => x[1] \in workspaces)

Recovering ==
  /\ crashes > 0
  /\ \A x \in vms : Lasting(x)
  /\ \A s \in Sids : Loaded(s)

RecInv ==
  /\ SInv /\ RowsApart
  /\ cursor = 0 => HInv /\ RInv
  /\ cursor > 0 => Recovering

----------------------------------------------------------------------------
(* The steps of a server that serves. *)

\* While loadFromDB runs no goroutine and no request takes a step.
LEMMA ServesAtZero ==
  ASSUME RecInv, Serve
  PROVE  cursor = 0
<1>1. CASE cursor > 0
  <2>1. \A g \in Procs, s \in Sids : pc[g][s] = "idle" /\ pend[g][s] = NoRow
    BY <1>1 DEF RecInv, Recovering, Loaded
  <2>2. ASSUME NEW role \in Roles, NEW repo \in Repos, Create(role, repo) PROVE FALSE
    BY <1>1, <2>2 DEF Create
  <2>3. ASSUME NEW s \in Sids, Stop(s) \/ StopTerminal(s) PROVE FALSE
    BY <1>1, <2>3 DEF Stop, StopAccepted, StopTerminal, StopCallable
  <2>4. ASSUME NEW g \in Procs, NEW s \in Sids, TeardownStep(g, s) \/ Upsert(g, s) PROVE FALSE
    <3>1. ~Upsert(g, s) /\ pc[g][s] = "idle"
      BY <2>1 DEF Upsert
    <3>2. PICK places : Teardown(g, s, places) /\ "idle" \notin places
      BY <2>4, <3>1 DEF TeardownStep, StopVM, DeleteSnapshot, freeSlot, MarkStopped, DropFromMap,
                        DeleteRow, CleanupWorkspace
    <3> QED
      BY <3>1, <3>2 DEF Teardown
  <2>5. ASSUME NEW s \in Sids, BootStep(s) \/ AgentStep(s), ~Upsert("boot", s) PROVE FALSE
    BY <2>1, <2>5 DEF BootStep, Clone, CreateSnapshot, InjectNetworkConfig, Launch, WaitForSSH,
                      Setup, FailRelease, FailTransition, AgentStep, AgentUsageLimit, AgentError,
                      AgentDone, At, Procs
  <2> QED
    BY <2>2, <2>3, <2>4, <2>5 DEF Serve, Procs
<1>2. cursor \in Nat
  BY ConstantsAssumption DEF RecInv, SInv, TInv, TypeOK
<1> QED
  BY <1>1, <1>2

\* A session whose state says that it may have a VM has its slot, unless a
\* goroutine has just freed it and is about to change the state.
LEMMA ClaimHolds ==
  ASSUME SInv, RInv, NEW s \in inMap, sess[s].st \in Busy,
         pc["boot"][s] \notin {"f_failed", "d_stopped"}, pc["stop"][s] # "k_stopped"
  PROVE  Holds(s)
<1>1. s \in Sids /\ BootOwner(s) /\ StopOwner(s) /\ Rowed(s)
  BY DEF SInv, TInv, TypeOK, Owner, RInv
<1>2. CASE pc["boot"][s] = "idle" /\ pc["stop"][s] = "idle"
  BY <1>1, <1>2 DEF StopOwner, Busy, PreReady, Holds
<1>3. CASE pc["boot"][s] # "idle"
  BY <1>1, <1>3 DEF BootOwner, BootPCs, Rowed, Busy, PreReady, Holds, BootHolding
<1>4. CASE pc["stop"][s] # "idle"
  BY <1>1, <1>4 DEF StopOwner, StopPCs, Busy, PreReady, Holds, StopHolding
<1> QED
  BY <1>2, <1>3, <1>4

LEMMA SameApart ==
  ASSUME SInv, RowsApart, rows' = rows, created' \in Int, created <= created'
  PROVE  RowsApart'
<1>1. created \in Int /\ \A s \in Sids : s \in Int
  BY DEF SInv, TInv, TypeOK, Sids
<1>2. \A s \in Sids : s <= created => s <= created'
  BY <1>1
<1>3. \A s \in Sids : Claims(s)' <=> Claims(s)
  BY DEF Claims
<1> QED
  BY <1>2, <1>3 DEF RowsApart

\* Only the row of a session that has its slot is written as one that claims it.
LEMMA UpsertApart ==
  ASSUME Orderly, SInv, HInv, RInv, RowsApart, NEW g \in Procs, NEW s \in Sids, Upsert(g, s)
  PROVE  RowsApart'
<1>1. /\ created' = created /\ pend[g][s] # NoRow /\ Calm({<<g, s>>})
      /\ rows' = [rows EXCEPT ![s] = pend[g][s]]
  BY DEF Upsert, maps, Stored, Tries, Orderly
<1>2. Rowed(s) /\ s \in inMap /\ pend[g][s] = RowOf(sess[s])
  BY <1>1 DEF RInv, Rowed
<1>3. /\ rows'[s].st = sess[s].st /\ rows'[s].slot = sess[s].slot /\ rows'[s].repo = sess[s].repo
      /\ \A t \in Sids : t # s => rows'[t] = rows[t]
  <2>1. rows \in [Sids -> Row \cup {NoRow}]
    BY DEF SInv, TInv, TypeOK
  <2> QED
    BY <1>1, <1>2, <2>1 DEF RowOf
<1>4. Claims(s)' => Holds(s)
  BY <1>1, <1>2, <1>3, ClaimHolds DEF Claims, Rowed
<1>5. ASSUME NEW t \in Sids, t # s, Claims(t)
      PROVE  Holds(t) /\ rows[t].slot = sess[t].slot
  <2>1. \A h \in Procs : pend[h][t] = NoRow /\ pc[h][t] \notin Prompt
    BY <1>1, <1>5 DEF Calm, Orderly
  <2>2. Rowed(t) /\ pc["stop"][t] \notin {"k_delrow", "forget"}
    BY <2>1 DEF RInv, Prompt, Procs
  <2>3. t \in inMap
    BY <1>5, <2>2 DEF Rowed, Claims, Busy, PreReady
  <2>4. rows[t].st = sess[t].st /\ rows[t].slot = sess[t].slot
    BY <2>1, <2>2, <2>3 DEF Rowed
  <2> QED
    BY <1>5, <2>1, <2>3, <2>4, ClaimHolds DEF Claims, Prompt, Procs
<1>6. s <= created /\ (rows'[s].repo => TRUE \in Repos)
  <2>1. s <= created
    <3>1. ~(s > created)
      BY <1>2, Known DEF Unborn
    <3> QED
      BY <3>1 DEF SInv, TInv, TypeOK, Sids
  <2> QED
    BY <1>3, <2>1 DEF HInv, Host
<1>7. ASSUME NEW t \in Sids, t # s, Claims(s)', Claims(t)'
      PROVE  rows'[s].slot # rows'[t].slot
  <2>1. Claims(t)
    BY <1>3, <1>7 DEF Claims
  <2> QED
    BY <1>3, <1>4, <1>5, <1>7, <2>1 DEF SInv, SlotInv
<1>8. \A t \in Sids : rows'[t] # NoRow => t <= created' /\ (rows'[t].repo => TRUE \in Repos)
  BY <1>1, <1>3, <1>6 DEF RowsApart
<1>9. ASSUME NEW t \in Sids, NEW u \in Sids, t # u, Claims(t)', Claims(u)'
      PROVE  rows'[t].slot # rows'[u].slot
  BY <1>3, <1>7, <1>9 DEF RowsApart, Claims
<1> QED
  BY <1>8, <1>9 DEF RowsApart

LEMMA DeleteRowApart ==
  ASSUME Orderly, SInv, RowsApart, NEW g \in Procs, NEW s \in Sids, DeleteRow(g, s)
  PROVE  RowsApart'
<1>1. created' = created /\ rows' = [rows EXCEPT ![s] = NoRow]
  BY DEF DeleteRow, maps, Stored, Tries, Orderly
<1>2. rows'[s] = NoRow /\ \A t \in Sids : t # s => rows'[t] = rows[t]
  BY <1>1 DEF SInv, TInv, TypeOK
<1>3. \A t \in Sids : Claims(t)' => t # s /\ Claims(t)
  BY <1>2 DEF Claims
<1> QED
  BY <1>1, <1>2, <1>3 DEF RowsApart

LEMMA ServeApart ==
  ASSUME Orderly, SInv, HInv, RInv, RowsApart, [Serve]_vars
  PROVE  RowsApart'
<1>0. created \in Int
  BY DEF SInv, TInv, TypeOK
<1>1. ASSUME NEW role \in Roles, NEW repo \in Repos, Create(role, repo)
      PROVE  RowsApart'
  <2>1. rows' = rows /\ created' = created + 1
    BY <1>1 DEF Create
  <2> QED
    BY <1>0, <2>1, SameApart
<1>2. ASSUME rows' = rows, created' = created PROVE RowsApart'
  BY <1>0, <1>2, SameApart
<1>3. ASSUME NEW s \in Sids, Stop(s) \/ StopTerminal(s) \/ AgentStep(s)
      PROVE  rows' = rows /\ created' = created
  BY <1>3 DEF Stop, StopAccepted, StopTerminal, AgentStep, AgentUsageLimit, AgentError, AgentDone, maps
<1>4. ASSUME NEW s \in Sids, BootStep(s), ~Upsert("boot", s)
      PROVE  rows' = rows /\ created' = created
  BY <1>4 DEF BootStep, Clone, CreateSnapshot, InjectNetworkConfig, Launch, WaitForSSH, Setup,
              FailRelease, FailTransition, maps
<1>5. ASSUME NEW g \in Procs, NEW s \in Sids, TeardownStep(g, s), ~DeleteRow(g, s)
      PROVE  rows' = rows /\ created' = created
  BY <1>5 DEF TeardownStep, StopVM, DeleteSnapshot, freeSlot, MarkStopped, DropFromMap,
              CleanupWorkspace, maps
<1>6. UNCHANGED vars => rows' = rows /\ created' = created
  BY DEF vars, maps
<1>7. ASSUME NEW g \in Procs, NEW s \in Sids, TeardownStep(g, s) \/ Upsert(g, s)
      PROVE  RowsApart'
  BY <1>2, <1>5, <1>7, UpsertApart, DeleteRowApart
<1>8. ASSUME NEW s \in Sids, BootStep(s) \/ AgentStep(s) \/ Stop(s) \/ StopTerminal(s)
      PROVE  RowsApart'
  BY <1>2, <1>3, <1>4, <1>7, <1>8 DEF Procs
<1> QED
  BY <1>1, <1>2, <1>6, <1>7, <1>8 DEF Serve, Procs

LEMMA ServeRecInv ==
  ASSUME Recovers, RecInv, Serve
  PROVE  RecInv'
<1>1. cursor = 0 /\ SInv /\ RowsApart /\ HInv /\ RInv
  BY ServesAtZero DEF RecInv
<1>2. cursor' = 0
  BY <1>1, ServeBounds
<1>3. SInv' /\ HInv' /\ RInv' /\ RowsApart'
  BY <1>1, ServeSInv, ServeHInv, ServeRInv, ServeApart DEF Recovers
<1> QED
  BY <1>2, <1>3 DEF RecInv

----------------------------------------------------------------------------
(* Restart. *)

LEMMA RestartRecInv ==
  ASSUME Recovers, RecInv, NEW s \in Sids, Restart(s)
  PROVE  RecInv'
<1> USE ConstantsAssumption
<1>1. /\ cursor = 0 /\ cursor' = 0 /\ Calm({}) /\ s \in inMap /\ sess[s].st = "stopped"
      /\ pc["boot"][s] = "idle" /\ Goto("boot", s, "clone") /\ persistSession("boot", s)
      /\ created' = created /\ inMap' = inMap /\ UNCHANGED host /\ rows' = rows
      /\ crashes' = crashes
  BY DEF Restart
<1>2. SInv /\ RowsApart /\ HInv /\ RInv
  BY <1>1 DEF RecInv
<1>3. \A h \in Procs : pend[h][s] = NoRow /\ pc[h][s] \notin Prompt
  BY <1>1 DEF Calm, Recovers, Orderly
<1>4. pc["stop"][s] = "idle"
  BY <1>1, <1>2, <1>3, Known DEF StopOwner, StopPCs, Prompt, Procs
<1>5. PICK i \in SlotCandidates :
        /\ i \notin usedSlots /\ usedSlots' = usedSlots \cup {i}
        /\ sess' = [sess EXCEPT ![s] = [sess[s] EXCEPT
                      !.slot = i, !.v = "none", !.err = "", !.st = "provisioning",
                      !.asked = IF Resting(s) THEN "no" ELSE "working"]]
  BY DEF Restart, allocSlot
<1>6. /\ sess'[s].slot = i /\ sess'[s].st = "provisioning" /\ sess'[s].repo = sess[s].repo
      /\ \A t \in Sids : t # s => sess'[t] = sess[t]
  <2>1. sess[s] \in Session /\ sess \in [Sids -> Session]
    BY <1>2, Known
  <2>2. sess'[s] = [sess[s] EXCEPT !.slot = i, !.v = "none", !.err = "", !.st = "provisioning",
                                   !.asked = IF Resting(s) THEN "no" ELSE "working"]
    BY <1>5, <2>1
  <2> QED
    BY <1>5, <2>1, <2>2 DEF Session
<1>7. pc'["boot"][s] = "clone" /\ pc'["stop"][s] = "idle"
  BY <1>1, <1>2, <1>4, Goes DEF Procs, PCs
<1>8. SInv'
  <2>1. TInv'
    BY <1>2, NextTInv DEF SInv, Next
  <2>2. Owner(s)'
    <3>1. BootOwner(s)' /\ StopOwner(s)'
      BY <1>1, <1>6, <1>7 DEF BootOwner, StopOwner, BootPCs, StopPCs
    <3>2. Unborn(s)'
      BY <1>1, <1>2, Known DEF Unborn
    <3> QED
      BY <3>1, <3>2 DEF Owner
  <2>3. TakeSlot(s)
    BY <1>1, <1>4, <1>5, <1>6, <1>7 DEF TakeSlot, Holds, BootHolding, StopHolding
  <2> QED
    BY <1>1, <1>2, <1>6, <2>1, <2>2, <2>3, GoroutineStep DEF Procs, PCs
<1>9. HInv'
  <2>1. Host(s) /\ TRUE \notin Repos
    <3>1. MaxRestarts # 0
      BY <1>2 DEF Restart, SInv, TInv, TypeOK
    <3> QED
      BY <1>2, <3>1 DEF HInv, Recovers
  <2>2. ~RunsVM(s) /\ ~HasSnap(s) /\ ~RunsVM(s)' /\ ~HasSnap(s)' /\ ~NeedsWorkspace(s)'
    BY <1>1, <1>4, <1>7 DEF RunsVM, HasSnap, AtRest, NeedsWorkspace, Mounting
  <2>3. s \notin workspaces /\ ~sess[s].repo
    BY <2>1 DEF Host
  <2>4. Host(s)'
    BY <1>1, <1>6, <1>7, <2>1, <2>2, <2>3 DEF Host, host, Mounting
  <2> QED
    BY <1>1, <1>2, <1>6, <2>4, HostUntouched, HostStep DEF Procs, PCs
<1>10. RInv'
  <2>1. /\ \A h \in Procs : pend'[h][s] # NoRow => s \in inMap' /\ pend'[h][s] = RowOf(sess'[s])
        /\ ~(\A h \in Procs : pend'[h][s] = NoRow)
    BY <1>1, <1>2, <1>3, <1>6, PersistedRow DEF Procs, States
  <2>2. ~RunsVM(s)'
    BY <1>7 DEF RunsVM, AtRest
  <2>3. Rowed(s)'
    BY <1>1, <1>7, <2>1, <2>2 DEF Rowed
  <2> QED
    BY <1>1, <1>2, <1>6, <2>3, RowedStep DEF Procs, PCs
<1>11. RowsApart'
  <2>1. created \in Int
    BY <1>2 DEF SInv, TInv, TypeOK
  <2> QED
    BY <1>1, <1>2, <2>1, SameApart
<1> QED
  BY <1>1, <1>8, <1>9, <1>10, <1>11 DEF RecInv

----------------------------------------------------------------------------
(* The end of the server, and loadFromDB. *)

\* While loadFromDB runs, the sessions that hold a slot are the ready ones that
\* it has taken back.
LEMMA LoadedHolds ==
  ASSUME NEW s \in Sids, Loaded(s)
  PROVE  Holds(s) <=> s \in inMap /\ sess[s].st = "ready"
  BY DEF Loaded, Holds, BootHolding, StopHolding, Procs

\* The invariant of the sessions, while loadFromDB runs.
LEMMA LoadedSInv ==
  ASSUME TInv', RowsApart', \A s \in Sids : Loaded(s)', SlotInv'
  PROVE  SInv'
<1>1. ASSUME NEW s \in Sids PROVE Owner(s)'
  <2>1. /\ pc'["boot"][s] = "idle" /\ pc'["stop"][s] = "idle"
        /\ s \in inMap' => rows'[s] # NoRow /\ sess'[s].st \in {"ready", "stopped", "failed"}
    BY DEF Loaded, Procs
  <2>2. BootOwner(s)' /\ StopOwner(s)'
    BY <2>1 DEF BootOwner, StopOwner, BootPCs, StopPCs
  <2>3. Unborn(s)'
    <3>1. created' \in Int /\ s \in Int
      BY DEF TInv, TypeOK, Sids
    <3>a. s \in inMap' => s <= created'
      BY <2>1 DEF RowsApart
    <3>2. s \in inMap' => ~(s > created')
      BY <3>1, <3>a
    <3> QED
      BY <2>1, <3>2 DEF Unborn
  <2> QED
    BY <2>2, <2>3 DEF Owner
<1> QED
  BY <1>1 DEF SInv

\* While the server serves, the row of every VM's session leads to it.
LEMMA ServedSurvivors ==
  ASSUME SInv, HInv, RInv, NEW x \in vms
  PROVE  Lasting(x)
<1>1. x[1] \in Sids /\ x = <<x[1], sess[x[1]].slot>> /\ RunsVM(x[1])
  BY VMOwner
<1>2. PICK s \in Sids : s = x[1]
  BY <1>1
<1>3. Host(s) /\ Rowed(s) /\ RunsVM(s) /\ HasSnap(s) /\ NeedsWorkspace(s) /\ x[2] = sess[s].slot
  BY <1>1, <1>2 DEF HInv, RInv, HasSnap, NeedsWorkspace
<1>4. Claims(s) /\ rows[s].slot = x[2] /\ rows[s].repo = sess[s].repo
  BY <1>3 DEF Rowed, Claims
<1>5. x[2] \in taps /\ s \in snaps /\ (sess[s].repo => s \in workspaces)
  BY <1>3 DEF Host
<1> QED
  BY <1>1, <1>2, <1>3, <1>4, <1>5 DEF Lasting

LEMMA NoSessionFields == ~NoSession.repo
  BY DEF NoSession

LEMMA CrashRecInv ==
  ASSUME RecInv, NEW reboot \in BOOLEAN, Crash(reboot)
  PROVE  RecInv'
<1> USE ConstantsAssumption
<1>1. /\ crashes' = crashes + 1 /\ cursor' = 1 /\ inMap' = {} /\ usedSlots' = {}
      /\ rows' = rows /\ created' = created /\ workspaces' = workspaces
      /\ vms' = {} \/ (vms' = vms /\ taps' = taps /\ snaps' = snaps)
  BY DEF Crash
<1>2. ASSUME NEW s \in Sids
      PROVE  /\ sess'[s] = NoSession
             /\ \A g \in Procs : pc'[g][s] = "idle" /\ pend'[g][s] = NoRow
  BY DEF Crash
<1>3. SInv /\ cursor \in Nat /\ crashes \in Nat /\ created \in Int
  BY DEF RecInv, SInv, TInv, TypeOK
<1>4. RowsApart'
  BY <1>1, <1>3, SameApart DEF RecInv
<1>5. ASSUME NEW s \in Sids
      PROVE  (s > created => s \notin workspaces) /\ (s \in workspaces => TRUE \in Repos)
  <2>1. CASE cursor = 0
    BY <2>1 DEF RecInv, HInv, Host
  <2>2. CASE cursor > 0
    BY <2>2 DEF RecInv, Recovering, Loaded
  <2>3. cursor = 0 \/ cursor > 0
    BY <1>3
  <2> QED
    BY <2>1, <2>2, <2>3
<1>6. ASSUME NEW s \in Sids PROVE Loaded(s)'
  <2>1. ~(s < cursor') /\ s \notin inMap' /\ ~sess'[s].repo
    <3>1. ~(s < cursor')
      BY <1>1 DEF Sids
    <3> QED
      BY <1>1, <1>2, <3>1, NoSessionFields
  <2> QED
    BY <1>1, <1>2, <1>5, <2>1 DEF Loaded
<1>7. ASSUME NEW x \in vms' PROVE Lasting(x)'
  <2>1. /\ x \in vms /\ vms' = vms /\ taps' = taps /\ snaps' = snaps
    BY <1>1, <1>7
  <2>2. Lasting(x)
    <3>1. CASE cursor = 0
      BY <1>3, <2>1, <3>1, ServedSurvivors DEF RecInv
    <3>2. CASE cursor > 0
      BY <2>1, <3>2 DEF RecInv, Recovering
    <3> QED
      BY <1>3, <3>1, <3>2
  <2> QED
    BY <1>1, <2>1, <2>2 DEF Lasting, Claims
<1>8. SInv'
  <2>1. TInv'
    BY <1>3, NextTInv DEF SInv, Next
  <2>2. SlotInv'
    <3>1. ASSUME NEW s \in Sids PROVE ~Holds(s)'
      BY <1>1, <1>2 DEF Holds, BootHolding, StopHolding, Procs
    <3> QED
      BY <1>1, <3>1 DEF SlotInv
  <2> QED
    BY <1>4, <1>6, <2>1, <2>2, LoadedSInv
<1> QED
  BY <1>1, <1>3, <1>4, <1>6, <1>7, <1>8 DEF RecInv, Recovering

\* What every step of loadFromDB but the last leaves alone.
LoadFrame(s) ==
  /\ cursor = s /\ cursor' = s + 1
  /\ UNCHANGED <<created, snaps, workspaces, pc, pend, crashes>>
  /\ \A t \in Sids : t # s =>
       /\ sess'[t] = sess[t] /\ rows'[t] = rows[t] /\ (t \in inMap' <=> t \in inMap)

\* The row of session s claims its slot after the step only as it did before,
\* and the VMs of the other sessions are still there.
LEMMA LoadRecInv ==
  ASSUME RecInv, TInv', NEW s \in Sids, LoadFrame(s), Loaded(s)', SlotInv',
         rows'[s] # NoRow => rows[s] # NoRow /\ rows'[s].repo = rows[s].repo,
         Claims(s)' => Claims(s) /\ rows'[s].slot = rows[s].slot,
         \A x \in vms : x[1] # s => x \in vms', \A x \in vms' : Lasting(x)'
  PROVE  RecInv'
<1>1. SInv /\ RowsApart /\ Recovering /\ s \in Nat \ {0}
  BY DEF RecInv, LoadFrame, Sids
<1>2. \A t \in Sids : Claims(t)' => Claims(t) /\ rows'[t].slot = rows[t].slot
  BY DEF LoadFrame, Claims
<1>3. RowsApart'
  <2>1. \A t \in Sids : rows'[t] # NoRow => rows[t] # NoRow /\ rows'[t].repo = rows[t].repo
    BY DEF LoadFrame
  <2>2. \A t \in Sids : rows'[t] # NoRow => t <= created' /\ (rows'[t].repo => TRUE \in Repos)
    BY <1>1, <2>1 DEF RowsApart, LoadFrame
  <2> QED
    BY <1>1, <1>2, <2>2 DEF RowsApart
<1>4. ASSUME NEW t \in Sids, t # s PROVE Loaded(t)'
  <2>1. /\ Loaded(t) /\ sess'[t] = sess[t] /\ rows'[t] = rows[t] /\ (t \in inMap' <=> t \in inMap)
        /\ UNCHANGED <<created, snaps, workspaces, pc, pend>>
    BY <1>1, <1>4 DEF Recovering, LoadFrame
  <2>2. t < cursor' <=> t < cursor
    BY <1>1, <1>4 DEF LoadFrame, Sids
  <2>3. \A k : <<t, k>> \in vms => <<t, k>> \in vms'
    BY <1>4
  <2> QED
    BY <2>1, <2>2, <2>3 DEF Loaded
<1>5. \A t \in Sids : Loaded(t)'
  BY <1>4
<1>6. SInv'
  BY <1>3, <1>5, LoadedSInv
<1>7. Recovering'
  BY <1>1, <1>5 DEF Recovering, LoadFrame
<1>8. cursor' # 0
  BY <1>1 DEF LoadFrame
<1> QED
  BY <1>3, <1>6, <1>7, <1>8 DEF RecInv

\* What is known when loadFromDB comes to row s: the session is not in the map,
\* and a VM that runs in the slot of a row that claims it is that session's.
LEMMA AtRow ==
  ASSUME RecInv, NEW s \in Sids, cursor = s
  PROVE  /\ SInv /\ RowsApart /\ Recovering /\ Loaded(s) /\ s \notin inMap /\ ~Holds(s)
         /\ \A x \in vms : x[1] = s => Claims(s) /\ x = <<s, rows[s].slot>>
         /\ \A x \in vms : Claims(s) /\ x[2] = rows[s].slot => x = <<s, rows[s].slot>>
<1>1. SInv /\ RowsApart /\ Recovering /\ Loaded(s)
  BY DEF RecInv, Sids, Recovering
<1>2. s \notin inMap
  BY <1>1 DEF Loaded, Sids
<1>3. ~Holds(s)
  BY <1>1, <1>2, LoadedHolds
<1>4. ASSUME NEW x \in vms
      PROVE  x[1] \in Sids /\ x = <<x[1], x[2]>> /\ Claims(x[1]) /\ rows[x[1]].slot = x[2]
  BY <1>1 DEF Recovering, Lasting
<1>5. ASSUME NEW x \in vms, Claims(s), x[2] = rows[s].slot PROVE x[1] = s
  BY <1>1, <1>4, <1>5 DEF RowsApart
<1> QED
  BY <1>1, <1>2, <1>3, <1>4, <1>5

\* A session that does not become ready takes no slot.
LEMMA NoSlotTaken ==
  ASSUME RecInv, NEW s \in Sids, LoadFrame(s), usedSlots' = usedSlots,
         Loaded(s)', s \in inMap' => sess'[s].st # "ready"
  PROVE  SlotInv'
<1>1. SlotInv /\ ~Holds(s)
  BY AtRow DEF LoadFrame, SInv
<1>2. ~Holds(s)'
  BY DEF Holds, Loaded, BootHolding, StopHolding, Procs
<1>3. ASSUME NEW t \in Sids, t # s PROVE (Holds(t)' <=> Holds(t)) /\ sess'[t].slot = sess[t].slot
  BY <1>3 DEF LoadFrame, Holds
<1> QED
  BY <1>1, <1>2, <1>3 DEF SlotInv

\* What loadFromDB makes of a row.
LEMMA FromRowFields ==
  ASSUME NEW r, NEW st, NEW v, NEW err
  PROVE  /\ FromRow(r, st, v, err).slot = r.slot /\ FromRow(r, st, v, err).repo = r.repo
         /\ FromRow(r, st, v, err).st = st /\ FromRow(r, st, v, err).v = v
  BY DEF FromRow, NoSession

\* A session that is loaded and is not ready: its row, if it is rewritten, is
\* that of the failed session.
LEMMA LoadOver ==
  ASSUME RecInv, TInv', NEW s \in Sids, LoadFrame(s), rows[s] # NoRow, s \in inMap',
         NEW st \in {"stopped", "failed"}, NEW err, sess'[s] = FromRow(rows[s], st, "none", err),
         (rows'[s] = rows[s] /\ rows[s].st = st) \/ rows'[s] = RowOf(sess'[s]),
         usedSlots' = usedSlots,
         vms' \subseteq vms, \A x \in vms' : x[1] # s /\ (x[2] \in taps => x[2] \in taps'),
         \A x \in vms : x[1] # s => x \in vms'
  PROVE  RecInv'
<1>1. /\ sess'[s].slot = rows[s].slot /\ sess'[s].repo = rows[s].repo /\ sess'[s].st = st
  BY FromRowFields
<1>2. /\ rows'[s] # NoRow /\ rows'[s].slot = rows[s].slot /\ rows'[s].repo = rows[s].repo
      /\ rows'[s].st = st
  <2>1. CASE rows'[s] = RowOf(sess'[s])
    BY <1>1, <2>1 DEF RowOf, NoRow
  <2> QED
    BY <2>1
<1>3. /\ SInv /\ RowsApart /\ Recovering /\ Loaded(s) /\ cursor = s
      /\ UNCHANGED <<created, snaps, workspaces, pc, pend, crashes>> /\ s < cursor'
  <2>1. s < cursor'
    BY DEF LoadFrame, Sids
  <2> QED
    BY <2>1, AtRow DEF LoadFrame
<1>4. Loaded(s)'
  <2>1. rows[s].repo => TRUE \in Repos
    BY <1>3 DEF RowsApart
  <2> QED
    BY <1>1, <1>2, <1>3, <2>1 DEF Loaded
<1>5. ~Claims(s)'
  BY <1>2 DEF Claims, Busy, PreReady
<1>6. ASSUME NEW x \in vms' PROVE Lasting(x)'
  <2>1. Lasting(x) /\ x[1] # s
    BY <1>3, <1>6 DEF Recovering
  <2>2. rows'[x[1]] = rows[x[1]]
    BY <2>1 DEF Lasting, LoadFrame
  <2> QED
    BY <1>3, <1>6, <2>1, <2>2 DEF Lasting, Claims
<1>7. SlotInv'
  BY <1>1, <1>4, NoSlotTaken
<1> QED
  BY <1>1, <1>2, <1>4, <1>5, <1>6, <1>7, LoadRecInv

LEMMA LoadEffect ==
  ASSUME SInv, NEW s \in Sids, NEW x, LoadAs(s, x)
  PROVE  /\ s \in inMap' /\ sess'[s] = x
         /\ \A t \in Sids : t # s => sess'[t] = sess[t] /\ (t \in inMap' <=> t \in inMap)
  BY Known DEF LoadAs

LEMMA LoadFailedEffect ==
  ASSUME Orderly, SInv, NEW s \in Sids, LoadFailed(s)
  PROVE  /\ s \in inMap' /\ sess'[s] = FromRow(rows[s], "failed", "none", "other")
         /\ rows'[s] = RowOf(sess'[s])
         /\ \A t \in Sids : t # s =>
              /\ sess'[t] = sess[t] /\ rows'[t] = rows[t] /\ (t \in inMap' <=> t \in inMap)
<1>1. /\ LoadAs(s, FromRow(rows[s], "failed", "none", "other"))
      /\ rows' = [rows EXCEPT ![s] = RowOf(FromRow(rows[s], "failed", "none", "other"))]
  BY DEF LoadFailed, Stored, Tries, Orderly
<1>2. rows \in [Sids -> Row \cup {NoRow}]
  BY DEF SInv, TInv, TypeOK
<1> QED
  BY <1>1, <1>2, LoadEffect

LEMMA LoadNothingRecInv ==
  ASSUME RecInv, TInv', NEW s \in Sids, LoadNothing(s)
  PROVE  RecInv'
<1>1. /\ cursor = s /\ cursor' = s + 1 /\ rows[s] = NoRow
      /\ UNCHANGED <<created, inMap, usedSlots, sess, vms, taps, snaps, workspaces, rows, pc, pend,
                      crashes>>
  BY DEF LoadNothing, Loading, maps, host
<1>2. LoadFrame(s)
  BY <1>1 DEF LoadFrame
<1>3. /\ Recovering /\ Loaded(s) /\ s \notin inMap
  BY <1>1, AtRow DEF RecInv
<1>4. Loaded(s)'
  BY <1>1, <1>3 DEF Loaded
<1>5. SlotInv'
  BY <1>1, <1>2, <1>3, <1>4, NoSlotTaken
<1>6. \A x \in vms' : Lasting(x)'
  BY <1>1, <1>3 DEF Recovering, Lasting, Claims
<1> QED
  BY <1>1, <1>2, <1>4, <1>5, <1>6, LoadRecInv DEF Claims

LEMMA LoadTerminalRecInv ==
  ASSUME RecInv, TInv', NEW s \in Sids, LoadTerminal(s)
  PROVE  RecInv'
<1>1. /\ cursor = s /\ cursor' = s + 1 /\ rows[s].st \in {"stopped", "failed"}
      /\ LoadAs(s, FromRow(rows[s], rows[s].st, "none", rows[s].err))
      /\ UNCHANGED <<created, usedSlots, vms, taps, snaps, workspaces, rows, pc, pend, crashes>>
  BY DEF LoadTerminal, Loading, host
<1>2. SInv /\ \A x \in vms : x[1] = s => Claims(s)
  BY <1>1, AtRow
<1>3. ~Claims(s) /\ rows[s] # NoRow
  BY <1>1 DEF Claims, Busy, PreReady, NoRow
<1>4. /\ LoadFrame(s) /\ s \in inMap'
      /\ sess'[s] = FromRow(rows[s], rows[s].st, "none", rows[s].err)
  BY <1>1, <1>2, LoadEffect DEF LoadFrame
<1> QED
  BY <1>1, <1>2, <1>3, <1>4, LoadOver

\* Whatever runs in the slot of the row is the session's own VM.
LEMMA LoadMidwayRecInv ==
  ASSUME Orderly, RecInv, TInv', NEW s \in Sids, LoadMidway(s)
  PROVE  RecInv'
<1>1. /\ cursor = s /\ cursor' = s + 1 /\ rows[s].st \in Midway
      /\ vms' = {x \in vms : x[2] # rows[s].slot}
      /\ taps' = taps \/ taps' = taps \ {rows[s].slot}
      /\ LoadFailed(s)
      /\ UNCHANGED <<created, usedSlots, snaps, workspaces, pc, pend, crashes>>
  BY DEF LoadMidway, Loading
<1>2. rows[s] # NoRow /\ Claims(s)
  BY <1>1 DEF Claims, Busy, PreReady, Midway, NoRow
<1>3. /\ SInv /\ \A x \in vms : x[1] = s => x = <<s, rows[s].slot>>
      /\ \A x \in vms : x[2] = rows[s].slot => x = <<s, rows[s].slot>>
  BY <1>1, <1>2, AtRow
<1>4. /\ \A x \in vms : x[1] # s => x \in vms'
      /\ \A x \in vms' : x[1] # s /\ (x[2] \in taps => x[2] \in taps')
      /\ vms' \subseteq vms
  BY <1>1, <1>3
<1>5. /\ LoadFrame(s) /\ s \in inMap' /\ rows'[s] = RowOf(sess'[s])
      /\ sess'[s] = FromRow(rows[s], "failed", "none", "other")
  BY <1>1, <1>3, LoadFailedEffect DEF LoadFrame
<1> QED
  BY <1>1, <1>2, <1>4, <1>5, LoadOver

\* A ready session is taken back if its VM is there, and only then.
LEMMA LoadReadyRecInv ==
  ASSUME Orderly, RecInv, TInv', NEW s \in Sids, LoadReady(s)
  PROVE  RecInv'
<1>1. /\ cursor = s /\ cursor' = s + 1 /\ rows[s].st = "ready"
      /\ UNCHANGED <<created, vms, taps, snaps, workspaces, pc, pend, crashes>>
  BY DEF LoadReady, Loading, host
<1>2. rows[s] # NoRow /\ Claims(s)
  BY <1>1 DEF Claims, Busy, NoRow
<1>3. /\ SInv /\ RowsApart /\ Recovering /\ Loaded(s) /\ s \notin inMap /\ ~Holds(s)
      /\ \A x \in vms : x[1] = s => x = <<s, rows[s].slot>>
      /\ \A x \in vms : x[2] = rows[s].slot => x = <<s, rows[s].slot>>
  BY <1>1, <1>2, AtRow
<1>4. CASE ~IsSocketAlive(rows[s].slot)
  <2>1. LoadFailed(s) /\ usedSlots' = usedSlots
    BY <1>4 DEF LoadReady
  <2>2. \A x \in vms : x[1] # s
    BY <1>3, <1>4 DEF IsSocketAlive
  <2>3. /\ LoadFrame(s) /\ s \in inMap' /\ rows'[s] = RowOf(sess'[s])
        /\ sess'[s] = FromRow(rows[s], "failed", "none", "other")
    BY <1>1, <1>3, <2>1, LoadFailedEffect DEF LoadFrame
  <2> QED
    BY <1>1, <1>2, <2>1, <2>2, <2>3, LoadOver
<1>5. CASE IsSocketAlive(rows[s].slot)
  <2>1. /\ LoadAs(s, FromRow(rows[s], "ready", "detached", rows[s].err))
        /\ usedSlots' = usedSlots \cup {rows[s].slot} /\ rows' = rows
    BY <1>5 DEF LoadReady
  <2>2. /\ LoadFrame(s) /\ s \in inMap'
        /\ sess'[s] = FromRow(rows[s], "ready", "detached", rows[s].err)
    BY <1>1, <1>3, <2>1, LoadEffect DEF LoadFrame
  <2>3. /\ sess'[s].slot = rows[s].slot /\ sess'[s].repo = rows[s].repo /\ sess'[s].st = "ready"
        /\ sess'[s].v = "detached"
    BY <2>2, FromRowFields
  <2>4. <<s, rows[s].slot>> \in vms
    BY <1>3, <1>5 DEF IsSocketAlive
  <2>5. Loaded(s)'
    <3>1. s < cursor'
      BY <1>1 DEF Sids
    <3>2. rows[s].repo => TRUE \in Repos
      BY <1>2, <1>3 DEF RowsApart
    <3> QED
      BY <1>1, <1>2, <1>3, <2>1, <2>2, <2>3, <2>4, <3>1, <3>2 DEF Loaded
  <2>6. SlotInv'
    <3>1. ASSUME NEW t \in Sids, Holds(t) PROVE sess[t].slot # rows[s].slot
      <4>1. t # s /\ Loaded(t)
        BY <1>3, <3>1 DEF Recovering
      <4>2. t \in inMap /\ sess[t].st = "ready"
        BY <3>1, <4>1, LoadedHolds
      <4>3. Claims(t) /\ rows[t].slot = sess[t].slot
        BY <4>1, <4>2 DEF Loaded, Claims, Busy
      <4> QED
        BY <1>2, <1>3, <4>1, <4>3 DEF RowsApart
    <3>2. rows[s].slot \notin usedSlots
      BY <1>3, <3>1 DEF SInv, SlotInv
    <3>3. TakeSlot(s)
      <4>1. Holds(s)'
        BY <2>2, <2>3, <2>5 DEF Holds, Loaded, Procs
      <4> QED
        BY <1>3, <2>1, <2>3, <3>2, <4>1 DEF TakeSlot
    <3>4. ASSUME NEW t \in Sids, t # s
          PROVE  (Holds(t)' <=> Holds(t)) /\ sess'[t].slot = sess[t].slot
      BY <2>2, <3>4 DEF LoadFrame, Holds
    <3> QED
      BY <1>3, <3>3, <3>4, SlotStep DEF SInv
  <2>7. \A x \in vms' : Lasting(x)'
    BY <1>1, <1>3, <2>1 DEF Recovering, Lasting, Claims
  <2>8. Claims(s)' => Claims(s) /\ rows'[s].slot = rows[s].slot
    BY <1>2, <2>1
  <2>9. rows'[s] # NoRow => rows[s] # NoRow /\ rows'[s].repo = rows[s].repo
    BY <1>2, <2>1
  <2> QED
    BY <1>1, <2>2, <2>3, <2>5, <2>6, <2>7, <2>8, <2>9, LoadRecInv
<1> QED
  BY <1>4, <1>5

\* What is known when loadFromDB is through with the rows: the map is what the
\* rows say, and the slots in use are those of the sessions that are back.
LEMMA AtEnd ==
  ASSUME RecInv, cursor = MaxSessions + 1, NEW s \in Sids
  PROVE  /\ SInv /\ Recovering /\ Loaded(s)
         /\ s \in inMap <=> rows[s] # NoRow
         /\ \A k : <<s, k>> \in vms /\ k \in usedSlots =>
              s \in inMap /\ sess[s].st = "ready" /\ k = sess[s].slot
         /\ s \in inMap /\ sess[s].st = "ready" =>
              <<s, sess[s].slot>> \in vms /\ sess[s].slot \in usedSlots
<1>1. SInv /\ RowsApart /\ Recovering /\ s < cursor
  <2>1. cursor > 0 /\ s < cursor
    BY ConstantsAssumption DEF Sids
  <2> QED
    BY <2>1 DEF RecInv
<1>2. \A t \in Sids : Loaded(t) /\ (Holds(t) <=> t \in inMap /\ sess[t].st = "ready")
  BY <1>1, LoadedHolds DEF Recovering
<1>3. ASSUME NEW k, <<s, k>> \in vms, k \in usedSlots
      PROVE  s \in inMap /\ sess[s].st = "ready" /\ k = sess[s].slot
  <2>1. PICK t \in Sids : Holds(t) /\ sess[t].slot = k
    BY <1>1, <1>3 DEF SInv, SlotInv
  <2>2. t \in inMap /\ sess[t].st = "ready"
    BY <1>2, <2>1
  <2>3. Claims(t) /\ rows[t].slot = k
    <3>1. Loaded(t)
      BY <1>2
    <3>2. rows[t] # NoRow /\ rows[t].st = "ready" /\ rows[t].slot = k
      BY <2>1, <2>2, <3>1 DEF Loaded
    <3> QED
      BY <3>2 DEF Claims, Busy
  <2>4. Claims(s) /\ rows[s].slot = k
    <3>1. Lasting(<<s, k>>)
      BY <1>1, <1>3 DEF Recovering
    <3> QED
      BY <3>1 DEF Lasting
  <2>5. s = t
    BY <1>1, <2>3, <2>4 DEF RowsApart
  <2> QED
    BY <2>1, <2>2, <2>5
<1>4. s \in inMap /\ sess[s].st = "ready" =>
        <<s, sess[s].slot>> \in vms /\ sess[s].slot \in usedSlots
  BY <1>1, <1>2 DEF Loaded, SInv, SlotInv
<1>5. s \in inMap <=> rows[s] # NoRow
  BY <1>1, <1>2 DEF Loaded
<1> QED
  BY <1>1, <1>2, <1>3, <1>4, <1>5

LEMMA CleanupRecInv ==
  ASSUME RecInv, TInv', CleanupOrphans
  PROVE  RecInv'
<1>1. /\ cursor = MaxSessions + 1 /\ cursor' = 0
      /\ vms' = {x \in vms : x[2] \in usedSlots}
      /\ taps' = {k \in taps : k \in usedSlots \/ ~IsSocketAlive(k)}
      /\ UNCHANGED <<created, inMap, usedSlots, sess, snaps, workspaces, rows, pc, pend, crashes>>
  BY DEF CleanupOrphans, maps
<1>2. SInv /\ RowsApart /\ Recovering
  <2>1. cursor > 0
    BY <1>1, ConstantsAssumption
  <2> QED
    BY <2>1 DEF RecInv
<1>3. SInv'
  BY <1>1, <1>2 DEF SInv, Owner, BootOwner, StopOwner, Unborn, SlotInv, Holds
<1>4. RowsApart'
  BY <1>1, <1>2 DEF RowsApart, Claims
<1>5. ASSUME NEW s \in Sids PROVE Host(s)' /\ Rowed(s)'
  <2> DEFINE back == s \in inMap /\ sess[s].st = "ready"
  <2>1. /\ pc'["boot"][s] = "idle" /\ pc'["stop"][s] = "idle"
        /\ \A g \in Procs : pend'[g][s] = NoRow
        /\ Loaded(s) /\ (s \in inMap <=> rows[s] # NoRow)
    <3>1. Loaded(s) /\ (s \in inMap <=> rows[s] # NoRow)
      BY <1>1, AtEnd
    <3> QED
      BY <1>1, <3>1 DEF Loaded, Procs
  <2>2. (RunsVM(s)' <=> back) /\ (HasSnap(s)' <=> back) /\ (NeedsWorkspace(s)' <=> back)
    BY <1>1, <2>1 DEF RunsVM, HasSnap, NeedsWorkspace, AtRest, Mounting
  <2>3. \A k \in Nat : <<s, k>> \in vms' <=> back /\ k = sess[s].slot
    BY <1>1, AtEnd
  <2>4. back => /\ sess[s].v # "none" /\ sess[s].slot \in taps' /\ s \in snaps
                /\ sess[s].repo => s \in workspaces
    <3> SUFFICES ASSUME back
                 PROVE  /\ sess[s].v # "none" /\ sess[s].slot \in taps' /\ s \in snaps
                        /\ sess[s].repo => s \in workspaces
      OBVIOUS
    <3>1. <<s, sess[s].slot>> \in vms /\ sess[s].slot \in usedSlots
      BY <1>1, AtEnd
    <3>2. Lasting(<<s, sess[s].slot>>)
      BY <1>2, <3>1 DEF Recovering
    <3>3. sess[s].slot \in taps /\ s \in snaps /\ (rows[s].repo => s \in workspaces)
      BY <3>2 DEF Lasting
    <3>4. sess[s].v = "detached" /\ sess[s].repo = rows[s].repo
      BY <2>1 DEF Loaded
    <3> QED
      BY <1>1, <3>1, <3>3, <3>4
  <2>5. crashes # 0
    BY <1>2 DEF Recovering
  <2>6. /\ s > created => s \notin workspaces
        /\ sess[s].repo \/ s \in workspaces => TRUE \in Repos
    BY <2>1 DEF Loaded
  <2>7. s \in inMap => /\ rows[s] # NoRow /\ rows[s].st = sess[s].st
                       /\ rows[s].slot = sess[s].slot /\ rows[s].repo = sess[s].repo
    BY <2>1 DEF Loaded
  <2>8. back => rows[s].st \in Busy
    BY <2>7 DEF Busy
  <2> HIDE DEF back
  <2>9. Host(s)'
    BY <1>1, <2>1, <2>2, <2>3, <2>4, <2>5, <2>6 DEF Host, Mounting
  <2>10. Rowed(s)'
    <3>1. back => s \in inMap
      BY DEF back
    <3> QED
      BY <1>1, <2>1, <2>2, <2>7, <2>8, <3>1 DEF Rowed
  <2> QED
    BY <2>9, <2>10
<1> QED
  BY <1>1, <1>3, <1>4, <1>5 DEF RecInv, HInv, RInv

----------------------------------------------------------------------------

LEMMA InitRecInv == Init => RecInv
<1>1. Init => RowsApart /\ cursor = 0
  BY DEF Init, RowsApart, Claims
<1> QED
  BY <1>1, InitSInv, InitHInv, InitRInv DEF RecInv

LEMMA NextRecInv ==
  ASSUME Recovers, RecInv, [Next]_vars
  PROVE  RecInv'
<1>0. TInv'
  BY NextTInv DEF RecInv, SInv
<1>1. CASE Serve
  BY <1>1, ServeRecInv
<1>2. ASSUME NEW s \in Sids, Restart(s) PROVE RecInv'
  BY <1>2, RestartRecInv
<1>3. ASSUME NEW reboot \in BOOLEAN, Crash(reboot) PROVE RecInv'
  BY <1>3, CrashRecInv
<1>4. CASE LoadStep
  BY <1>0, <1>4, LoadNothingRecInv, LoadReadyRecInv, LoadMidwayRecInv, LoadTerminalRecInv,
     CleanupRecInv DEF LoadStep, Recovers
<1>5. CASE UNCHANGED vars
  <2>1. SInv' /\ (cursor = 0 => HInv' /\ RInv') /\ cursor' = cursor
    BY <1>5, ServeSInv, ServeHInv, ServeRInv DEF RecInv, Recovers, vars, bounds
  <2>2. UNCHANGED <<created, inMap, sess, vms, taps, snaps, workspaces, rows, pc, pend, crashes>>
    BY <1>5 DEF vars, maps, host, bounds
  <2>3. RowsApart'
    BY <2>2 DEF RecInv, RowsApart, Claims
  <2>4. \A s \in Sids : Loaded(s) => Loaded(s)'
    BY <2>1, <2>2 DEF Loaded
  <2>5. \A x \in vms : Lasting(x) => Lasting(x)'
    BY <2>2 DEF Lasting, Claims
  <2>6. Recovering => Recovering'
    BY <2>2, <2>4, <2>5 DEF Recovering
  <2> QED
    BY <2>1, <2>3, <2>6 DEF RecInv
<1> QED
  BY <1>1, <1>2, <1>3, <1>4, <1>5 DEF Next, Serve

\* The invariant holds in every state, however often the server crashes.
THEOREM RecoveryInvariant == ASSUME Recovers PROVE Spec => []RecInv
<1>1. RecInv /\ [Next]_vars => RecInv'
  BY NextRecInv
<1> QED
  BY InitRecInv, <1>1, PTL DEF Spec

\* usedSlots holds exactly the slots of the sessions that have yet to give
\* theirs back, no two of which share one: also when the account was rebuilt by
\* loadFromDB from rows that a crash left at any point of boot or stop.
THEOREM SlotsAcrossCrashes == ASSUME Recovers PROVE Spec => []SlotsAccounted
<1>1. RecInv => SlotsAccounted
  BY SlotsAreAccounted DEF RecInv
<1> QED
  BY <1>1, RecoveryInvariant, PTL

\* No transition of a boot goroutine is refused, also of a boot that Restart
\* started on a session of an earlier life.
THEOREM BootAcrossCrashes == ASSUME Recovers PROVE Spec => []BootOwnsState
<1>1. RecInv => BootOwnsState
  BY BootOwns DEF RecInv
<1> QED
  BY <1>1, RecoveryInvariant, PTL

\* No two VMs share a slot: while loadFromDB runs, because no two rows claim one.
LEMMA OneVMRecovers == RecInv => OneVMPerSlot
<1> SUFFICES ASSUME RecInv PROVE OneVMPerSlot
  OBVIOUS
<1>1. CASE cursor = 0
  BY <1>1, VMsHaveSlots DEF RecInv
<1>2. CASE cursor > 0
  <2>1. RowsApart /\ \A x \in vms : Lasting(x)
    BY <1>2 DEF RecInv, Recovering
  <2>2. ASSUME NEW x \in vms, NEW y \in vms, x[2] = y[2] PROVE x = y
    <3>1. /\ x[1] \in Sids /\ x = <<x[1], x[2]>> /\ Claims(x[1]) /\ rows[x[1]].slot = x[2]
          /\ y[1] \in Sids /\ y = <<y[1], y[2]>> /\ Claims(y[1]) /\ rows[y[1]].slot = y[2]
      BY <2>1 DEF Lasting
    <3>2. x[1] = y[1]
      BY <2>1, <2>2, <3>1 DEF RowsApart
    <3> QED
      BY <2>2, <3>1, <3>2
  <2> QED
    BY <2>2 DEF OneVMPerSlot
<1>3. cursor \in Nat
  BY ConstantsAssumption DEF RecInv, SInv, TInv, TypeOK
<1> QED
  BY <1>1, <1>2, <1>3

\* No two Firecracker processes share a slot, although VMs outlive the server
\* and the next one hands out slots of its own.
THEOREM VMsAcrossCrashes == ASSUME Recovers PROVE Spec => []OneVMPerSlot
<1> QED
  BY OneVMRecovers, RecoveryInvariant, PTL

\* A session shown as ready has its VM in its slot with the network up, its
\* snapshot and its workspace, also one that loadFromDB took back, and also
\* while loadFromDB is still at work.
THEOREM UsableAcrossCrashes == ASSUME Recovers PROVE Spec => []ReadyIsUsable
<1>1. RecInv => ReadyIsUsable
  <2> SUFFICES ASSUME RecInv PROVE ReadyIsUsable
    OBVIOUS
  <2>1. CASE cursor = 0
    BY <2>1, ReadyUsable DEF RecInv
  <2>2. CASE cursor > 0
    <3>1. ASSUME NEW s \in inMap, sess[s].st = "ready"
          PROVE  /\ <<s, sess[s].slot>> \in vms /\ sess[s].slot \in taps /\ s \in snaps
                 /\ sess[s].repo => s \in workspaces
      <4>1. s \in Sids /\ Loaded(s)
        BY <2>2 DEF RecInv, SInv, TInv, TypeOK, Recovering
      <4>2. <<s, sess[s].slot>> \in vms /\ sess[s].repo = rows[s].repo
        BY <3>1, <4>1 DEF Loaded
      <4>3. Lasting(<<s, sess[s].slot>>)
        BY <2>2, <4>2 DEF RecInv, Recovering
      <4> QED
        BY <4>2, <4>3 DEF Lasting
    <3> QED
      BY <3>1 DEF ReadyIsUsable
  <2>3. cursor \in Nat
    BY ConstantsAssumption DEF RecInv, SInv, TInv, TypeOK
  <2> QED
    BY <2>1, <2>2, <2>3
<1> QED
  BY <1>1, RecoveryInvariant, PTL

\* Whenever the server accepts requests, every VM that runs belongs to a session
\* of the map, in that session's slot: loadFromDB and CleanupOrphansExcept
\* leave none that nobody can stop.
THEOREM StoppableAcrossCrashes == ASSUME Recovers PROVE Spec => []VMsStoppable
<1>1. RecInv => VMsStoppable
  <2>1. CASE cursor = 0
    BY <2>1, Stoppable DEF RecInv
  <2>2. CASE cursor # 0
    BY <2>2 DEF VMsStoppable
  <2> QED
    BY <2>1, <2>2
<1> QED
  BY <1>1, RecoveryInvariant, PTL

----------------------------------------------------------------------------
(* The leases, with the end of the server and loadFromDB. *)

\* While loadFromDB runs, the leases are the VMs.
LEMMA LeasedLoading == (\A s \in Sids : Loaded(s)) => Leases = vms
<1> SUFFICES ASSUME \A s \in Sids : Loaded(s) PROVE Leases = vms
  OBVIOUS
<1>1. ASSUME NEW s \in Sids, Holds(s) PROVE <<s, sess[s].slot>> \in vms
  BY <1>1, LoadedHolds DEF Loaded
<1> QED
  BY <1>1 DEF Leases, Holders

LEMMA LeasedLoadingNext == (\A s \in Sids : Loaded(s))' => Leases' = vms'
<1>1. ((\A s \in Sids : Loaded(s)) => Leases = vms)'
  BY LeasedLoading, PTL
<1> QED
  BY <1>1

\* A server that ends loses the leases but for the VMs.
LEMMA CrashLease ==
  ASSUME NEW reboot \in BOOLEAN, Crash(reboot)
  PROVE  Lease!Next
<1>1. Holders' = {}
  BY DEF Crash, Holders, Holds, BootHolding, StopHolding, Procs
<1>2. Leases' = vms' /\ vms' \in {vms, {}} /\ cursor' = 1
  BY <1>1 DEF Crash, Leases
<1> QED
  BY <1>2 DEF Lease!Next, Lease!Lose

\* loadFromDB ends VMs one at a time, and grants nothing.
LEMMA LoadLease ==
  ASSUME RecInv, RecInv', LoadStep
  PROVE  [Lease!Next]_(Lease!vars)
<1>1. cursor > 0 /\ cursor \in Nat /\ cursor' \in Nat
  BY ConstantsAssumption DEF RecInv, SInv, TInv, TypeOK,
     LoadStep, LoadNothing, LoadReady, LoadMidway, LoadTerminal, Loading, CleanupOrphans, Sids
<1>2. Leases = vms
  BY <1>1, LeasedLoading DEF RecInv, Recovering
<1>3. CASE CleanupOrphans
  <2>1. cursor' = 0 /\ vms' = {x \in vms : x[2] \in usedSlots} /\ UNCHANGED <<sess, pc, inMap, usedSlots>>
    BY <1>3 DEF CleanupOrphans, maps
  <2>2. Leases' = vms'
    <3>1. ASSUME NEW s \in Sids, Holds(s)' PROVE <<s, sess'[s].slot>> \in vms'
      <4>1. Holds(s)
        BY <2>1, <3>1 DEF Holds
      <4>2. <<s, sess[s].slot>> \in vms /\ sess[s].slot \in usedSlots
        BY <1>1, <4>1, LoadedHolds DEF RecInv, Recovering, Loaded, SInv, SlotInv
      <4> QED
        BY <2>1, <4>2
    <3> QED
      BY <3>1 DEF Leases, Holders
  <2>3. Lease!Resume
    BY <1>1, <2>1, <2>2 DEF Lease!Resume
  <2> QED
    BY <2>3 DEF Lease!Next
<1>4. CASE \E s \in Sids : LoadNothing(s) \/ LoadReady(s) \/ LoadMidway(s) \/ LoadTerminal(s)
  <2>1. PICK s \in Sids : LoadNothing(s) \/ LoadReady(s) \/ LoadMidway(s) \/ LoadTerminal(s)
    BY <1>4
  <2>2. cursor' > 0
    BY <2>1 DEF LoadNothing, LoadReady, LoadMidway, LoadTerminal, Loading, Sids
  <2>3. Leases' = vms'
    BY <2>2, LeasedLoadingNext DEF RecInv, Recovering
  <2>4. CASE vms' = vms
    BY <1>1, <1>2, <2>2, <2>3, <2>4 DEF Lease!vars
  <2>5. CASE vms' # vms
    <3>1. vms' = {x \in vms : x[2] # rows[s].slot}
      BY <2>1, <2>5 DEF LoadNothing, LoadReady, LoadMidway, LoadTerminal, host
    <3>2. PICK x \in vms : x[2] = rows[s].slot
      BY <2>5, <3>1
    <3>3. \A y \in vms : y[2] = rows[s].slot => y = x
      BY <3>2, OneVMRecovers DEF OneVMPerSlot
    <3>4. vms' = vms \ {x}
      BY <3>1, <3>2, <3>3
    <3>5. Lease!Evict(x)
      BY <1>1, <1>2, <2>2, <2>3, <3>4 DEF Lease!Evict
    <3> QED
      BY <1>2, <3>5 DEF Lease!Next
  <2> QED
    BY <2>4, <2>5
<1> QED
  BY <1>3, <1>4 DEF LoadStep

\* Over any number of lives of the server, every step is one of SlotLease: what
\* loadFromDB rebuilds from the rows is exactly the leases whose VM still runs,
\* so that no slot is granted to a second session while the first one's VM is
\* there.
THEOREM LeasesAcrossCrashes == ASSUME Recovers PROVE Spec => LeasePromise
<1>1. ASSUME RecInv, RecInv', [Next]_vars PROVE [Lease!Next]_(Lease!vars)
  <2>1. ASSUME NEW s \in Sids, cursor = 0, cursor' = 0, LeaseMove(s)
        PROVE  [Lease!Next]_(Lease!vars)
    BY <1>1, <2>1, ServedLease DEF RecInv
  <2>2. CASE Serve
    BY <1>1, <2>1, <2>2, ServesAtZero, ServeBounds, ServeLease DEF RecInv
  <2>3. ASSUME NEW s \in Sids, Restart(s) PROVE [Lease!Next]_(Lease!vars)
    <3>1. cursor = 0 /\ cursor' = 0
      BY <2>3 DEF Restart
    <3> QED
      BY <1>1, <2>1, <2>3, <3>1, RestartLease DEF RecInv
  <2>4. ASSUME NEW reboot \in BOOLEAN, Crash(reboot) PROVE [Lease!Next]_(Lease!vars)
    BY <2>4, CrashLease
  <2>5. CASE LoadStep
    BY <1>1, <2>5, LoadLease
  <2>6. CASE UNCHANGED vars
    BY <2>6, LeasesUnchanged
  <2> QED
    BY <1>1, <2>2, <2>3, <2>4, <2>5, <2>6 DEF Next, Serve
<1> QED
  BY InitLease, RecoveryInvariant, <1>1, PTL DEF Spec, LeasePromise, Lease!Spec
====
