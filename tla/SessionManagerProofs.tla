---- MODULE SessionManagerProofs ----
(***************************************************************************)
(* Proofs about SessionManager, for every number of sessions and slots.    *)
(***************************************************************************)
EXTENDS SessionManager, FiniteSetTheorems, TLAPS

----------------------------------------------------------------------------
(* Type correctness. *)

\* A session that is in the map or that a goroutine works on has a state
\* machine: what persistSession builds is a row.
Live(s) ==
  s \in inMap \/ pc["boot"][s] # "idle" \/ pc["stop"][s] # "idle" => sess[s].st \in States

TInv == TypeOK /\ \A s \in Sids : Live(s)

\* The part of TypeOK that is not about sess, pc and pend.
Plain ==
  /\ created \in 0 .. MaxSessions
  /\ inMap \subseteq Sids
  /\ usedSlots \subseteq Nat /\ IsFiniteSet(usedSlots)
  /\ vms \subseteq Sids \X Nat
  /\ taps \subseteq Nat
  /\ snaps \subseteq Sids
  /\ strays \subseteq Sids
  /\ workspaces \subseteq Sids
  /\ rows \in [Sids -> Row \cup {NoRow}]
  /\ cursor \in 0 .. MaxSessions + 1
  /\ restarts \in 0 .. MaxRestarts
  /\ crashes \in 0 .. MaxCrashes

PendType == [Procs -> [Sids -> Row \cup {NoRow}]]

\* The slot numbers that allocSlot considers are natural numbers.
LEMMA Candidates == ASSUME IsFiniteSet(usedSlots) PROVE SlotCandidates \subseteq Nat
  BY FS_CardinalityType DEF SlotCandidates

\* validTransitions only leads to states.
LEMMA Targets == ASSUME NEW from, NEW to, CanTransition(from, to) PROVE to \in States
  BY DEF CanTransition, validTransitions, States

\* Transition with a refused target keeps the state.
LEMMA TryStates == ASSUME NEW st \in States, NEW to \in States PROVE TryState(st, to) \in States
  BY DEF TryState

\* The row of a session that has a state machine is a row.
LEMMA RowOfType == ASSUME NEW x \in Session, x.st \in States PROVE RowOf(x) \in Row
  BY DEF RowOf, Session, Row

\* Every place of a teardown has a next place.
LEMMA FollowingType == ASSUME NEW c \in DOMAIN Order PROVE Following(c) \in PCs
  BY DEF Following, Order, PCs

\* What Goto changes.
LEMMA GotoEffect ==
  ASSUME pc \in [Procs -> [Sids -> PCs]], NEW g \in Procs, NEW s \in Sids, NEW c \in PCs,
         Goto(g, s, c)
  PROVE  /\ pc' \in [Procs -> [Sids -> PCs]]
         /\ pc'[g][s] = c
         /\ \A h \in Procs : h # g => pc'[h][s] = pc[h][s]
         /\ \A h \in Procs, t \in Sids : t # s => pc'[h][t] = pc[h][t]
  BY DEF Goto

\* What persistSession leaves to be written is a row.
LEMMA PersistType ==
  ASSUME pend \in PendType, NEW g \in Procs, NEW s \in Sids,
         sess' \in [Sids -> Session], sess'[s].st \in States, persistSession(g, s)
  PROVE  pend' \in PendType
<1>1. RowOf(sess'[s]) \in Row
  BY RowOfType
<1> QED
  BY <1>1 DEF persistSession, PendType

\* What a legal Transition changes.
LEMMA TransitionEffect ==
  ASSUME sess \in [Sids -> Session], pend \in PendType,
         NEW g \in Procs, NEW s \in Sids, NEW to, Transition(g, s, to)
  PROVE  /\ sess' \in [Sids -> Session]
         /\ to \in States /\ sess'[s].st = to /\ sess'[s].slot = sess[s].slot
         /\ \A t \in Sids : t # s => sess'[t] = sess[t]
         /\ pend' \in PendType
<1>1. to \in States
  BY Targets DEF Transition
<1>2. /\ sess' \in [Sids -> Session]
      /\ sess'[s].st = to /\ sess'[s].slot = sess[s].slot
      /\ \A t \in Sids : t # s => sess'[t] = sess[t]
  BY <1>1 DEF Transition, Session
<1> QED
  BY <1>1, <1>2, PersistType DEF Transition

\* What a call of Stop that is accepted changes.
LEMMA StopEffect ==
  ASSUME sess \in [Sids -> Session], pend \in PendType, NEW s \in Sids, StopAccepted(s)
  PROVE  /\ sess' \in [Sids -> Session]
         /\ sess[s].st = "ready"
         /\ sess'[s].st = "stopping" /\ sess'[s].slot = sess[s].slot
         /\ \A t \in Sids : t # s => sess'[t] = sess[t]
         /\ pend' \in PendType
<1>1. Asked(s) \in Asks
  BY DEF Asked, Asks
<1>2. sess[s].st = "ready"
  BY DEF StopAccepted, CanTransition, validTransitions, Session, States
<1>3. /\ sess' \in [Sids -> Session]
      /\ sess'[s].st = "stopping" /\ sess'[s].slot = sess[s].slot
      /\ \A t \in Sids : t # s => sess'[t] = sess[t]
  BY <1>1 DEF StopAccepted, Session, States
<1>4. sess'[s].st \in States
  BY <1>3 DEF States
<1> QED
  BY <1>2, <1>3, <1>4, PersistType DEF StopAccepted, Procs

\* What a call of Stop for a session that is over changes.
LEMMA StopTerminalEffect ==
  ASSUME sess \in [Sids -> Session], NEW s \in Sids, StopTerminal(s)
  PROVE  /\ sess' \in [Sids -> Session]
         /\ sess[s].st \in {"stopped", "failed"}
         /\ sess'[s].st = sess[s].st /\ sess'[s].slot = sess[s].slot
         /\ \A t \in Sids : t # s => sess'[t] = sess[t]
<1>1. Asked(s) \in Asks
  BY DEF Asked, Asks
<1> QED
  BY <1>1 DEF StopTerminal, Session

\* A write of the store concerns one row, and may fail only if the store may.
LEMMA StoredEffect ==
  ASSUME rows \in [Sids -> Row \cup {NoRow}], NEW s \in Sids, NEW r \in Row \cup {NoRow},
         Stored(s, r)
  PROVE  /\ rows' \in [Sids -> Row \cup {NoRow}]
         /\ \A t \in Sids : t # s => rows'[t] = rows[t]
         /\ rows'[s] = r \/ rows'[s] = rows[s]
         /\ "store" \notin Faults => rows'[s] = r
  BY DEF Stored, Tries

\* A goroutine that is at work works on a session with a state machine.
LEMMA AtWork ==
  ASSUME TInv, NEW g \in Procs, NEW s \in Sids, pc[g][s] # "idle"
  PROVE  sess[s].st \in States
  BY DEF TInv, Live, Procs

\* A step of a goroutine of session s that leaves s with a state machine.
LEMMA OneSession ==
  ASSUME TInv, NEW g \in Procs, NEW s \in Sids, NEW c \in PCs, Goto(g, s, c),
         sess' \in [Sids -> Session], sess'[s].st \in States,
         \A t \in Sids : t # s => sess'[t] = sess[t],
         pend' \in PendType, inMap' \subseteq inMap \cup {s}, Plain'
  PROVE  TInv'
<1>1. /\ pc' \in [Procs -> [Sids -> PCs]]
      /\ \A h \in Procs, t \in Sids : t # s => pc'[h][t] = pc[h][t]
  BY GotoEffect DEF TInv, TypeOK
<1>2. TypeOK'
  BY <1>1 DEF TypeOK, Plain, PendType
<1>3. ASSUME NEW t \in Sids PROVE Live(t)'
  BY <1>1 DEF TInv, Live, Procs
<1> QED
  BY <1>2, <1>3 DEF TInv

\* A step of a teardown that changes neither sess nor pend.
LEMMA TeardownTInv ==
  ASSUME TInv, NEW g \in Procs, NEW s \in Sids, NEW places, Teardown(g, s, places),
         places \subseteq DOMAIN Order, "idle" \notin places,
         UNCHANGED <<sess, pend>>, inMap' \subseteq inMap, Plain'
  PROVE  TInv'
<1>1. sess[s].st \in States
  BY AtWork DEF Teardown
<1>2. Following(pc[g][s]) \in PCs
  BY FollowingType DEF Teardown
<1> QED
  BY <1>1, <1>2, OneSession DEF Teardown, TInv, TypeOK, PendType

\* A first start has the types.
LEMMA InitTInv == Init => TInv
<1> SUFFICES ASSUME Init PROVE TInv
  OBVIOUS
<1>1. NoSession \in Session
  BY DEF NoSession, Session, AllRoles, Errors, Asks
<1>2. IsFiniteSet(usedSlots)
  BY FS_EmptySet DEF Init
<1>3. TypeOK
  BY <1>1, <1>2, ConstantsAssumption DEF Init, TypeOK, Sids, PCs
<1>4. \A s \in Sids : Live(s)
  BY DEF Init, Live, Procs
<1> QED
  BY <1>3, <1>4 DEF TInv

\* What Restart makes of a Session object.
LEMMA RestartedType ==
  ASSUME NEW x \in Session, NEW i \in Nat, NEW a \in Asks
  PROVE  LET y == [x EXCEPT !.slot = i, !.v = "none", !.err = "", !.st = "provisioning",
                            !.asked = a]
         IN  y \in Session /\ y.st = "provisioning" /\ y.slot = i
  BY DEF Session, States, Errors

\* What a successful Launch makes of it.
LEMMA LaunchedType ==
  ASSUME NEW x \in Session
  PROVE  LET y == [x EXCEPT !.v = "own", !.st = "waiting_ssh"]
         IN  y \in Session /\ y.st = "waiting_ssh" /\ y.slot = x.slot
  BY DEF Session, States

\* What a successful LocalClone makes of it.
LEMMA ClonedType ==
  ASSUME NEW x \in Session
  PROVE  LET y == [x EXCEPT !.wsp = TRUE] IN y \in Session /\ y.st = x.st /\ y.slot = x.slot
  BY DEF Session

\* What fail() makes of it, before its transition.
LEMMA FailedType ==
  ASSUME NEW x \in Session
  PROVE  LET y == [x EXCEPT !.err = "other"] IN y \in Session /\ y.st = x.st /\ y.slot = x.slot
  BY DEF Session, Errors

\* What an agent that failed or hit its usage limit makes of it.
LEMMA AgentErrType ==
  ASSUME NEW x \in Session, NEW e \in Errors, NEW st \in States
  PROVE  LET y == [x EXCEPT !.err = e, !.st = st] IN y \in Session /\ y.st = st /\ y.slot = x.slot
  BY DEF Session

\* There is a result or there is none.
LEMMA ResultType == \A r \in RunCapture : parseClaudeJSON(r).result \in BOOLEAN
  BY DEF RunCapture, parseClaudeJSON

\* What an agent that finished makes of it.
LEMMA AgentResType ==
  ASSUME NEW x \in Session, NEW st \in States, NEW b \in BOOLEAN
  PROVE  LET y == [x EXCEPT !.res = b, !.st = st]
         IN  y \in Session /\ y.st = st /\ y.slot = x.slot
  BY DEF Session

\* Every action keeps the types.
LEMMA NextTInv == TInv /\ [Next]_vars => TInv'
<1> SUFFICES ASSUME TInv, [Next]_vars PROVE TInv'
  OBVIOUS
<1> USE ConstantsAssumption
<1>0. /\ sess \in [Sids -> Session] /\ pend \in PendType /\ rows \in [Sids -> Row \cup {NoRow}]
      /\ \A s \in Sids : sess[s].slot \in Nat
  BY DEF TInv, TypeOK, PendType, Session
<1>1. ASSUME NEW role \in Roles, NEW repo \in Repos, Create(role, repo)
      PROVE  TInv'
  <2> DEFINE s == created + 1
  <2>1. s \in Sids
    BY <1>1 DEF Create, Sids, TInv, TypeOK
  <2>2. PICK i \in SlotCandidates :
          /\ usedSlots' = usedSlots \cup {i}
          /\ sess' = [sess EXCEPT ![s] = [NoSession EXCEPT
                        !.slot = i, !.st = "provisioning", !.role = role, !.repo = repo]]
    BY <1>1 DEF Create
  <2>3. i \in Nat
    BY <2>2, Candidates DEF TInv, TypeOK
  <2>4. /\ sess' \in [Sids -> Session] /\ sess'[s].st = "provisioning"
        /\ \A t \in Sids : t # s => sess'[t] = sess[t]
    BY <1>0, <2>1, <2>2, <2>3 DEF NoSession, Session, States, AllRoles, Errors, Asks
  <2>5. sess'[s].st \in States
    BY <2>4 DEF States
  <2>6. pend' \in PendType
    BY <1>1, <1>0, <2>1, <2>4, <2>5, PersistType DEF Create, Procs
  <2>7. IsFiniteSet(usedSlots')
    BY <2>2, FS_AddElement DEF TInv, TypeOK
  <2>8. Plain'
    <3>1. created' \in 0 .. MaxSessions /\ inMap' \subseteq Sids /\ usedSlots' \subseteq Nat
      BY <1>1, <2>1, <2>2, <2>3 DEF Create, TInv, TypeOK, Sids
    <3>2. UNCHANGED <<vms, taps, snaps, strays, workspaces, rows, cursor, restarts, crashes>>
      BY <1>1 DEF Create, host, bounds
    <3> QED
      BY <2>7, <3>1, <3>2 DEF TInv, TypeOK, Plain
  <2>9. /\ Goto("boot", s, "clone") /\ inMap' \subseteq inMap \cup {s}
        /\ "boot" \in Procs /\ "clone" \in PCs
    BY <1>1 DEF Create, Procs, PCs
  <2> HIDE DEF s
  <2> QED
    BY <2>1, <2>4, <2>5, <2>6, <2>8, <2>9, OneSession
<1>2. ASSUME NEW s \in Sids, Restart(s)
      PROVE  TInv'
  <2>1. PICK i \in SlotCandidates :
          /\ usedSlots' = usedSlots \cup {i}
          /\ sess' = [sess EXCEPT ![s] = [sess[s] EXCEPT
                        !.slot = i, !.v = "none", !.err = "", !.st = "provisioning",
                        !.asked = IF Resting(s) THEN "no" ELSE "working"]]
    BY <1>2 DEF Restart
  <2>2. i \in Nat
    BY <2>1, Candidates DEF TInv, TypeOK
  <2>3. /\ sess' \in [Sids -> Session] /\ sess'[s].st = "provisioning"
        /\ \A t \in Sids : t # s => sess'[t] = sess[t]
    <3> DEFINE a == IF Resting(s) THEN "no" ELSE "working"
               x == [sess[s] EXCEPT !.slot = i, !.v = "none", !.err = "", !.st = "provisioning",
                                    !.asked = a]
    <3>1. a \in Asks
      BY DEF Asks
    <3> HIDE DEF a
    <3>2. x \in Session /\ x.st = "provisioning"
      BY <1>0, <2>2, <3>1, RestartedType
    <3>3. sess' = [sess EXCEPT ![s] = x]
      BY <2>1 DEF a
    <3> HIDE DEF x
    <3> QED
      BY <1>0, <3>2, <3>3
  <2>4. sess'[s].st \in States
    BY <2>3 DEF States
  <2>5. pend' \in PendType
    BY <1>2, <1>0, <2>3, <2>4, PersistType DEF Restart, Procs
  <2>6. IsFiniteSet(usedSlots')
    BY <2>1, FS_AddElement DEF TInv, TypeOK
  <2>7. Plain'
    <3>1. restarts' \in 0 .. MaxRestarts
      BY <1>2 DEF Restart, TInv, TypeOK
    <3>2. UNCHANGED <<created, inMap, vms, taps, snaps, strays, workspaces, rows, cursor, crashes>>
      BY <1>2 DEF Restart, host
    <3> QED
      BY <2>1, <2>2, <2>6, <3>1, <3>2 DEF TInv, TypeOK, Plain
  <2> QED
    BY <1>2, <2>3, <2>4, <2>5, <2>7, OneSession DEF Restart, Procs, PCs
<1>3. ASSUME NEW s \in Sids, Stop(s)
      PROVE  TInv'
  <2>1. Plain' /\ UNCHANGED inMap
    BY <1>3 DEF Stop, TInv, TypeOK, Plain, maps, host, bounds
  <2> QED
    BY <1>3, <1>0, <2>1, StopEffect, OneSession DEF Stop, Procs, PCs, States
<1>4. ASSUME NEW s \in Sids, StopTerminal(s)
      PROVE  TInv'
  <2>1. Plain' /\ sess[s].st \in States
    BY <1>4 DEF StopTerminal, TInv, TypeOK, Plain, host, bounds, States
  <2> QED
    BY <1>4, <1>0, <2>1, StopTerminalEffect, OneSession DEF StopTerminal, Procs, PCs, PendType
<1>5. ASSUME NEW g \in Procs, NEW s \in Sids, Upsert(g, s)
      PROVE  TInv'
  <2>1. pend' \in PendType /\ rows' \in [Sids -> Row \cup {NoRow}]
    BY <1>5, <1>0, StoredEffect DEF Upsert, PendType
  <2> QED
    BY <1>5, <2>1 DEF Upsert, TInv, TypeOK, Live, PendType, maps, host, bounds
<1>6. ASSUME NEW s \in Sids, Clone(s)
      PROVE  TInv'
  <2>1. sess[s].st \in States
    BY <1>6, AtWork DEF Clone, At, Procs
  <2>2. /\ sess' \in [Sids -> Session] /\ sess'[s].st = sess[s].st
        /\ \A t \in Sids : t # s => sess'[t] = sess[t]
    <3>1. [sess[s] EXCEPT !.wsp = TRUE] \in Session
      BY <1>0, ClonedType
    <3>2. sess' = [sess EXCEPT ![s].wsp = TRUE] \/ sess' = sess
      BY <1>6 DEF Clone
    <3> QED
      BY <1>0, <3>1, <3>2, ClonedType
  <2>3. Plain' /\ UNCHANGED <<inMap, pend>>
    BY <1>6 DEF Clone, TInv, TypeOK, Plain, maps, host, bounds
  <2> QED
    BY <1>6, <1>0, <2>1, <2>2, <2>3, OneSession DEF Clone, Procs, PCs
<1>7. ASSUME NEW s \in Sids, CreateSnapshot(s)
      PROVE  TInv'
  <2>1. sess[s].st \in States
    BY <1>7, AtWork DEF CreateSnapshot, At, Procs
  <2>2. Plain' /\ UNCHANGED <<inMap, sess, pend>>
    BY <1>7 DEF CreateSnapshot, TInv, TypeOK, Plain, maps, host, bounds
  <2>3. PICK c \in PCs : Goto("boot", s, c)
    BY <1>7 DEF CreateSnapshot, PCs
  <2> QED
    BY <1>0, <2>1, <2>2, <2>3, OneSession DEF Procs
<1>8. ASSUME NEW s \in Sids, InjectNetworkConfig(s)
      PROVE  TInv'
  <2>1. sess[s].st \in States
    BY <1>8, AtWork DEF InjectNetworkConfig, At, Procs
  <2>2. Plain' /\ UNCHANGED inMap
    BY <1>8 DEF InjectNetworkConfig, TInv, TypeOK, Plain, maps, host, bounds
  <2>3. CASE Goto("boot", s, "f_snap") /\ UNCHANGED <<sess, pend>>
    BY <1>0, <2>1, <2>2, <2>3, OneSession DEF Procs, PCs
  <2>4. CASE Transition("boot", s, "booting") /\ Goto("boot", s, "launch")
    BY <1>0, <2>2, <2>4, TransitionEffect, OneSession DEF Procs, PCs
  <2> QED
    BY <1>8, <2>3, <2>4 DEF InjectNetworkConfig, ThenTransition
<1>9. ASSUME NEW s \in Sids, Launch(s)
      PROVE  TInv'
  <2>1. sess[s].st \in States
    BY <1>9, AtWork DEF Launch, At, Procs
  <2>2. Plain' /\ UNCHANGED inMap
    BY <1>9, <1>0 DEF Launch, LaunchVM, TInv, TypeOK, Plain, maps, bounds
  <2>3. CASE Goto("boot", s, "f_snap") /\ UNCHANGED <<sess, pend>>
    BY <1>0, <2>1, <2>2, <2>3, OneSession DEF Procs, PCs
  <2>4. CASE /\ sess' = [sess EXCEPT ![s] = [sess[s] EXCEPT !.v = "own", !.st = "waiting_ssh"]]
             /\ persistSession("boot", s) /\ Goto("boot", s, "ssh")
    <3>1. /\ sess' \in [Sids -> Session] /\ sess'[s].st \in States
          /\ \A t \in Sids : t # s => sess'[t] = sess[t]
      <4> DEFINE x == [sess[s] EXCEPT !.v = "own", !.st = "waiting_ssh"]
      <4>1. x \in Session /\ x.st \in States
        BY <1>0, LaunchedType DEF States
      <4> QED
        BY <1>0, <2>4, <4>1
    <3>2. pend' \in PendType
      BY <1>0, <2>4, <3>1, PersistType DEF Procs
    <3> QED
      BY <2>2, <2>4, <3>1, <3>2, OneSession DEF Procs, PCs
  <2> QED
    BY <1>9, <2>3, <2>4 DEF Launch
<1>10. ASSUME NEW s \in Sids, WaitForSSH(s)
      PROVE  TInv'
  <2>1. sess[s].st \in States
    BY <1>10, AtWork DEF WaitForSSH, At, Procs
  <2>2. Plain' /\ UNCHANGED inMap
    BY <1>10 DEF WaitForSSH, TInv, TypeOK, Plain, maps, host, bounds
  <2>3. CASE Goto("boot", s, "f_kill") /\ UNCHANGED <<sess, pend>>
    BY <1>0, <2>1, <2>2, <2>3, OneSession DEF Procs, PCs
  <2>4. CASE Transition("boot", s, "configuring") /\ Goto("boot", s, "setup")
    BY <1>0, <2>2, <2>4, TransitionEffect, OneSession DEF Procs, PCs
  <2> QED
    BY <1>10, <2>3, <2>4 DEF WaitForSSH, ThenTransition
<1>11. ASSUME NEW s \in Sids, Setup(s)
      PROVE  TInv'
  <2>1. sess[s].st \in States
    BY <1>11, AtWork DEF Setup, At, Procs
  <2>2. Plain' /\ UNCHANGED inMap
    BY <1>11 DEF Setup, TInv, TypeOK, Plain, maps, host, bounds
  <2>3. CASE Goto("boot", s, "f_release") /\ UNCHANGED <<sess, pend>>
    BY <1>0, <2>1, <2>2, <2>3, OneSession DEF Procs, PCs
  <2>4. ASSUME NEW c \in PCs, Transition("boot", s, "ready"), Goto("boot", s, c) PROVE TInv'
    BY <1>0, <2>2, <2>4, TransitionEffect, OneSession DEF Procs
  <2> QED
    BY <1>11, <2>3, <2>4 DEF Setup, PCs
<1>12. ASSUME NEW s \in Sids, FailRelease(s)
      PROVE  TInv'
  <2>1. sess[s].st \in States
    BY <1>12, AtWork DEF FailRelease, At, Procs
  <2>2. /\ sess' \in [Sids -> Session] /\ sess'[s].st = sess[s].st
        /\ \A t \in Sids : t # s => sess'[t] = sess[t]
    <3>1. [sess[s] EXCEPT !.err = "other"] \in Session
      BY <1>0, FailedType
    <3> QED
      BY <1>12, <1>0, <3>1, FailedType DEF FailRelease
  <2>3. IsFiniteSet(usedSlots')
    BY <1>12, FS_RemoveElement DEF FailRelease, TInv, TypeOK
  <2>4. Plain' /\ UNCHANGED <<inMap, pend>>
    BY <1>12, <2>3 DEF FailRelease, TInv, TypeOK, Plain, maps, host, bounds
  <2> QED
    BY <1>12, <1>0, <2>1, <2>2, <2>4, OneSession DEF FailRelease, Procs, PCs
<1>13. ASSUME NEW s \in Sids, FailTransition(s)
      PROVE  TInv'
  <2>1. Plain' /\ UNCHANGED inMap
    BY <1>13 DEF FailTransition, TInv, TypeOK, Plain, maps, host, bounds
  <2> QED
    BY <1>13, <1>0, <2>1, TransitionEffect, OneSession DEF FailTransition, Procs, PCs
<1>14. ASSUME NEW s \in Sids, AgentUsageLimit(s)
      PROVE  TInv'
  <2>1. sess[s].st \in States
    BY <1>14, AtWork DEF AgentUsageLimit, At, Procs
  <2>2. TryState(sess[s].st, "failed") \in States
    BY <2>1, TryStates DEF States
  <2>3. /\ sess' \in [Sids -> Session] /\ sess'[s].st \in States
        /\ \A t \in Sids : t # s => sess'[t] = sess[t]
    <3> DEFINE x == [sess[s] EXCEPT !.err = "usage limit", !.st = TryState(sess[s].st, "failed")]
    <3>1. x \in Session /\ x.st \in States
      <4>1. sess[s] \in Session /\ "usage limit" \in Errors
        BY <1>0 DEF Errors
      <4>2. PICK st \in States : st = TryState(sess[s].st, "failed")
        BY <2>2
      <4>3. x = [sess[s] EXCEPT !.err = "usage limit", !.st = st]
        BY <4>2
      <4> HIDE DEF x
      <4> QED
        BY <4>1, <4>3, AgentErrType
    <3>2. sess' = [sess EXCEPT ![s] = x]
      BY <1>14 DEF AgentUsageLimit
    <3> QED
      BY <1>0, <3>1, <3>2
  <2>4. pend' \in PendType
    BY <1>14, <1>0, <2>3, PersistType DEF AgentUsageLimit, Procs
  <2>5. Plain' /\ UNCHANGED inMap
    BY <1>14 DEF AgentUsageLimit, TInv, TypeOK, Plain, maps, host, bounds
  <2>6. PICK c \in PCs : Goto("boot", s, c)
    BY <1>14 DEF AgentUsageLimit, PCs
  <2> QED
    BY <2>3, <2>4, <2>5, <2>6, OneSession DEF Procs
<1>15. ASSUME NEW s \in Sids, AgentError(s)
      PROVE  TInv'
  <2>1. sess[s].st \in States
    BY <1>15, AtWork DEF AgentError, At, Procs
  <2>2. TryState(sess[s].st, "failed") \in States
    BY <2>1, TryStates DEF States
  <2>3. /\ sess' \in [Sids -> Session] /\ sess'[s].st \in States
        /\ \A t \in Sids : t # s => sess'[t] = sess[t]
    <3> DEFINE x == [sess[s] EXCEPT !.err = "other", !.st = TryState(sess[s].st, "failed")]
    <3>1. x \in Session /\ x.st \in States
      <4>1. sess[s] \in Session /\ "other" \in Errors
        BY <1>0 DEF Errors
      <4>2. PICK st \in States : st = TryState(sess[s].st, "failed")
        BY <2>2
      <4>3. x = [sess[s] EXCEPT !.err = "other", !.st = st]
        BY <4>2
      <4> HIDE DEF x
      <4> QED
        BY <4>1, <4>3, AgentErrType
    <3>2. sess' = [sess EXCEPT ![s] = x]
      BY <1>15 DEF AgentError
    <3> QED
      BY <1>0, <3>1, <3>2
  <2>4. pend' \in PendType
    BY <1>15, <1>0, <2>3, PersistType DEF AgentError, Procs
  <2>5. Plain' /\ UNCHANGED inMap
    BY <1>15 DEF AgentError, TInv, TypeOK, Plain, maps, host, bounds
  <2>6. PICK c \in PCs : Goto("boot", s, c)
    BY <1>15 DEF AgentError, PCs
  <2> QED
    BY <2>3, <2>4, <2>5, <2>6, OneSession DEF Procs
<1>16. ASSUME NEW s \in Sids, AgentDone(s)
      PROVE  TInv'
  <2>1. sess[s].st \in States
    BY <1>16, AtWork DEF AgentDone, At, Procs
  <2>2. TryState(sess[s].st, "stopping") \in States
    BY <2>1, TryStates DEF States
  <2>3. /\ sess' \in [Sids -> Session] /\ sess'[s].st \in States
        /\ \A t \in Sids : t # s => sess'[t] = sess[t]
    <3>1. PICK b \in BOOLEAN :
            sess' = [sess EXCEPT ![s] = [sess[s] EXCEPT !.res = b, !.st = TryState(sess[s].st, "stopping")]]
      BY <1>16, ResultType DEF AgentDone
    <3> DEFINE x == [sess[s] EXCEPT !.res = b, !.st = TryState(sess[s].st, "stopping")]
    <3>2. x \in Session /\ x.st \in States
      <4>1. sess[s] \in Session
        BY <1>0
      <4> QED
        BY <4>1, <2>2, AgentResType, Zenon
    <3>3. sess' = [sess EXCEPT ![s] = x]
      BY <3>1
    <3> HIDE DEF x
    <3> QED
      BY <1>0, <3>2, <3>3
  <2>4. pend' \in PendType
    BY <1>16, <1>0, <2>3, PersistType DEF AgentDone, Procs
  <2>5. Plain' /\ UNCHANGED inMap
    BY <1>16 DEF AgentDone, TInv, TypeOK, Plain, maps, host, bounds
  <2>6. PICK c \in PCs : Goto("boot", s, c)
    BY <1>16 DEF AgentDone, PCs
  <2> QED
    BY <2>3, <2>4, <2>5, <2>6, OneSession DEF Procs
<1>17. ASSUME NEW g \in Procs, NEW s \in Sids, StopVM(g, s)
      PROVE  TInv'
  <2>1. Plain' /\ UNCHANGED <<sess, pend>> /\ inMap' \subseteq inMap
    BY <1>17 DEF StopVM, TInv, TypeOK, Plain, maps, host, bounds
  <2> QED
    BY <1>17, <2>1, TeardownTInv DEF StopVM, Order
<1>18. ASSUME NEW g \in Procs, NEW s \in Sids, DeleteSnapshot(g, s)
      PROVE  TInv'
  <2>1. Plain' /\ UNCHANGED <<sess, pend>> /\ inMap' \subseteq inMap
    BY <1>18 DEF DeleteSnapshot, TInv, TypeOK, Plain, maps, host, bounds
  <2> QED
    BY <1>18, <2>1, TeardownTInv DEF DeleteSnapshot, Order
<1>19. ASSUME NEW g \in Procs, NEW s \in Sids, freeSlot(g, s)
      PROVE  TInv'
  <2>1. IsFiniteSet(usedSlots')
    BY <1>19, FS_RemoveElement DEF freeSlot, TInv, TypeOK
  <2> QED
    BY <1>19, <2>1, TeardownTInv DEF freeSlot, Order, TInv, TypeOK, Plain, host, bounds
<1>20. ASSUME NEW g \in Procs, NEW s \in Sids, DropFromMap(g, s)
      PROVE  TInv'
  <2>1. Plain' /\ UNCHANGED <<sess, pend>> /\ inMap' \subseteq inMap
    BY <1>20 DEF DropFromMap, TInv, TypeOK, Plain, maps, host, bounds
  <2> QED
    BY <1>20, <2>1, TeardownTInv DEF DropFromMap, Order
<1>21. ASSUME NEW g \in Procs, NEW s \in Sids, DeleteRow(g, s)
      PROVE  TInv'
  <2>1. Plain' /\ UNCHANGED <<sess, pend>> /\ inMap' \subseteq inMap
    BY <1>0, <1>21, StoredEffect DEF DeleteRow, TInv, TypeOK, Plain, maps, host, bounds
  <2> QED
    BY <1>21, <2>1, TeardownTInv DEF DeleteRow, Order
<1>22. ASSUME NEW g \in Procs, NEW s \in Sids, CleanupWorkspace(g, s)
      PROVE  TInv'
  <2>1. Plain' /\ UNCHANGED <<sess, pend>> /\ inMap' \subseteq inMap
    BY <1>22 DEF CleanupWorkspace, TInv, TypeOK, Plain, maps, host, bounds
  <2> QED
    BY <1>22, <2>1, TeardownTInv DEF CleanupWorkspace, Order
<1>23. ASSUME NEW g \in Procs, NEW s \in Sids, MarkStopped(g, s)
      PROVE  TInv'
  <2>1. sess[s].st \in States /\ Following(pc[g][s]) \in PCs
    BY <1>23, AtWork, FollowingType DEF MarkStopped, Teardown, Order
  <2>2. TryState(sess[s].st, "stopped") \in States
    BY <2>1, TryStates DEF States
  <2>3. /\ sess' \in [Sids -> Session] /\ sess'[s].st \in States
        /\ \A t \in Sids : t # s => sess'[t] = sess[t]
    BY <1>23, <1>0, <2>2 DEF MarkStopped, Session
  <2>4. pend' \in PendType
    BY <1>23, <1>0, <2>3, PersistType DEF MarkStopped
  <2>5. Plain' /\ UNCHANGED inMap
    BY <1>23 DEF MarkStopped, TInv, TypeOK, Plain, maps, host, bounds
  <2> QED
    BY <1>23, <2>1, <2>3, <2>4, <2>5, OneSession DEF MarkStopped, Teardown
<1>24. ASSUME NEW reboot \in BOOLEAN, Crash(reboot)
      PROVE  TInv'
  <2>1. NoSession \in Session
    BY DEF NoSession, Session, AllRoles, Errors, Asks
  <2>2. IsFiniteSet(usedSlots')
    BY <1>24, FS_EmptySet DEF Crash
  <2>3. TypeOK'
    <3>1. vms' \subseteq Sids \X Nat /\ taps' \subseteq Nat /\ snaps' \subseteq Sids
      BY <1>24 DEF Crash, TInv, TypeOK
    <3>2. pc' \in [Procs -> [Sids -> PCs]] /\ pend' \in PendType /\ sess' \in [Sids -> Session]
      BY <1>24, <2>1 DEF Crash, PCs, PendType
    <3>3. crashes' \in 0 .. MaxCrashes /\ cursor' \in 0 .. MaxSessions + 1
      BY <1>24 DEF Crash, TInv, TypeOK
    <3> QED
      BY <1>24, <2>2, <3>1, <3>2, <3>3 DEF Crash, TInv, TypeOK, PendType
  <2> QED
    BY <1>24, <2>3 DEF Crash, TInv, Live, Procs
<1>a. ASSUME NEW s \in Sids, NEW x \in Session, LoadAs(s, x), x.st \in States,
             Plain', UNCHANGED <<pc, pend>>
      PROVE  TInv'
  BY <1>0, <1>a DEF LoadAs, TInv, TypeOK, Live, Plain, PendType
<1>b. ASSUME NEW s \in Sids, rows[s] # NoRow, NEW st \in States, NEW v \in {"none", "detached"},
             NEW err \in Errors
      PROVE  /\ rows[s] \in Row /\ rows[s].slot \in Nat /\ rows[s].err \in Errors
             /\ FromRow(rows[s], st, v, err) \in Session
             /\ FromRow(rows[s], st, v, err).st = st
  BY <1>0, <1>b DEF FromRow, Session, Row, NoSession, AllRoles, Asks
<1>c. ASSUME NEW s \in Sids, rows[s] # NoRow, LoadFailed(s)
      PROVE  /\ rows' \in [Sids -> Row \cup {NoRow}]
             /\ \E x \in Session : x.st \in States /\ LoadAs(s, x)
  <2> DEFINE x == FromRow(rows[s], "failed", "none", "other")
  <2>1. x \in Session /\ x.st \in States
    <3>1. "failed" \in States /\ "other" \in Errors
      BY DEF States, Errors
    <3> QED
      BY <3>1, <1>b, <1>c
  <2>2. RowOf(x) \in Row
    BY <2>1, RowOfType
  <2> QED
    BY <1>0, <1>c, <2>1, <2>2, StoredEffect DEF LoadFailed
<1>d. ASSUME NEW s \in Sids, rows[s].st \in States PROVE rows[s] # NoRow
  BY <1>d DEF NoRow, States
<1>25. ASSUME NEW s \in Sids, LoadNothing(s)
      PROVE  TInv'
  BY <1>25 DEF LoadNothing, Loading, Sids, TInv, TypeOK, Live, maps, host
<1>26. ASSUME NEW s \in Sids, LoadReady(s)
      PROVE  TInv'
  <2>1. rows[s] # NoRow
    BY <1>26, <1>d DEF LoadReady, States
  <2>2. CASE /\ LoadAs(s, FromRow(rows[s], "ready", "detached", rows[s].err))
             /\ usedSlots' = usedSlots \cup {rows[s].slot}
             /\ UNCHANGED rows
    <3>1. rows[s].slot \in Nat /\ rows[s].err \in Errors
      <4>1. "ready" \in States /\ "" \in Errors
        BY DEF States, Errors
      <4> QED
        BY <4>1, <1>b, <2>1
    <3>2. IsFiniteSet(usedSlots')
      BY <2>2, FS_AddElement DEF TInv, TypeOK
    <3>3. Plain' /\ UNCHANGED <<pc, pend>>
      <4>1. cursor' \in 0 .. MaxSessions + 1 /\ inMap' \subseteq Sids
        BY <1>26, <2>2 DEF LoadReady, LoadAs, Loading, Sids, TInv, TypeOK
      <4>2. UNCHANGED <<created, vms, taps, snaps, strays, workspaces, rows, pc, pend, restarts, crashes>>
        BY <1>26, <2>2 DEF LoadReady, host
      <4> QED
        BY <2>2, <3>1, <3>2, <4>1, <4>2 DEF TInv, TypeOK, Plain
    <3> QED
      BY <1>a, <1>b, <2>1, <2>2, <3>1, <3>3 DEF States
  <2>3. CASE LoadFailed(s) /\ UNCHANGED usedSlots
    <3>1. PICK x \in Session : x.st \in States /\ LoadAs(s, x)
      BY <1>c, <2>1, <2>3
    <3>2. rows' \in [Sids -> Row \cup {NoRow}]
      BY <1>c, <2>1, <2>3
    <3>3. Plain' /\ UNCHANGED <<pc, pend>>
      BY <1>26, <2>3, <3>1, <3>2 DEF LoadReady, LoadAs, Loading, Sids, TInv, TypeOK, Plain, host
    <3> QED
      BY <1>a, <3>1, <3>3
  <2> QED
    BY <1>26, <2>2, <2>3 DEF LoadReady
<1>27. ASSUME NEW s \in Sids, LoadMidway(s)
      PROVE  TInv'
  <2>1. rows[s] # NoRow
    BY <1>27, <1>d DEF LoadMidway, Midway, States
  <2>2. PICK x \in Session : x.st \in States /\ LoadAs(s, x)
    BY <1>27, <1>c, <2>1 DEF LoadMidway
  <2>3. rows' \in [Sids -> Row \cup {NoRow}]
    BY <1>27, <1>c, <2>1 DEF LoadMidway
  <2>4. Plain' /\ UNCHANGED <<pc, pend>>
    <3>1. cursor' \in 0 .. MaxSessions + 1 /\ inMap' \subseteq Sids
      BY <1>27, <2>2 DEF LoadMidway, LoadAs, Loading, Sids, TInv, TypeOK
    <3>2. vms' \subseteq vms /\ taps' \subseteq taps
      BY <1>27 DEF LoadMidway
    <3>3. UNCHANGED <<created, usedSlots, snaps, strays, workspaces, pc, pend, restarts, crashes>>
      BY <1>27 DEF LoadMidway
    <3> QED
      BY <2>3, <3>1, <3>2, <3>3 DEF TInv, TypeOK, Plain
  <2> QED
    BY <1>a, <2>2, <2>4
<1>28. ASSUME NEW s \in Sids, LoadTerminal(s)
      PROVE  TInv'
  <2>1. rows[s] # NoRow /\ rows[s].st \in States
    BY <1>28, <1>d DEF LoadTerminal, States
  <2>2. rows[s].err \in Errors
    BY <1>b, <2>1 DEF Errors
  <2>3. Plain' /\ UNCHANGED <<pc, pend>>
    BY <1>28 DEF LoadTerminal, LoadAs, Loading, Sids, TInv, TypeOK, Plain, host
  <2> QED
    BY <1>28, <1>a, <1>b, <2>1, <2>2, <2>3 DEF LoadTerminal
<1>29. ASSUME CleanupOrphans
      PROVE  TInv'
  <2>1. /\ vms' \subseteq vms /\ taps' \subseteq taps /\ cursor' = 0
        /\ UNCHANGED <<created, inMap, usedSlots, sess, snaps, strays, workspaces, rows, pc, pend,
                       restarts, crashes>>
    BY <1>29 DEF CleanupOrphans, maps
  <2> QED
    BY <2>1 DEF TInv, TypeOK, Live
<1>30. CASE UNCHANGED vars
  BY <1>30 DEF vars, maps, host, bounds, TInv, TypeOK, Live
<1> QED
  BY <1>1, <1>2, <1>3, <1>4, <1>5, <1>6, <1>7, <1>8, <1>9, <1>10, <1>11, <1>12,
     <1>13, <1>14, <1>15, <1>16, <1>17, <1>18, <1>19, <1>20, <1>21, <1>22,
     <1>23, <1>24, <1>25, <1>26, <1>27, <1>28, <1>29, <1>30
  DEF Next, BootStep, AgentStep, TeardownStep, LoadStep, Procs

\* Every variable keeps its type, whatever the numbers of sessions, slots,
\* restarts and crashes: what persistSession writes is always a row, and a
\* goroutine never works on a session without a state machine.
THEOREM TypeCorrect == Spec => []TypeOK
<1>1. TInv => TypeOK
  BY DEF TInv
<1> QED
  BY InitTInv, NextTInv, <1>1, PTL DEF Spec

----------------------------------------------------------------------------
(* Slots and states of the sessions.  OneLife is a server that has not     *)
(* crashed, is not asked to restart a session and whose agents are left to *)
(* finish.                                                                 *)

OneLife == MaxCrashes = 0 /\ MaxRestarts = 0 /\ ~StopMidRun

PreReady == {"provisioning", "booting", "waiting_ssh", "configuring"}

BootPCs == {"idle", "clone", "snapshot", "inject", "launch", "ssh", "setup", "agent",
            "f_kill", "f_snap", "f_release", "f_failed",
            "u_kill", "u_snap", "u_free", "u_drop",
            "d_kill", "d_snap", "d_free", "d_stopped", "d_drop", "rmws"}
StopPCs == {"idle", "k_kill", "k_snap", "k_free", "k_stopped", "k_drop", "k_delrow",
            "forget", "rmws"}

\* Who may move session s, and from which states: the place of each goroutine
\* fixes the state of the session, and only one of the two is ever at work.
BootOwner(s) ==
  LET b == pc["boot"][s]
      st == sess[s].st IN
  /\ b \in BootPCs
  /\ b \in {"clone", "snapshot", "inject"} => st = "provisioning"
  /\ b = "launch" => st = "booting"
  /\ b = "ssh" => st = "waiting_ssh"
  /\ b = "setup" => st = "configuring"
  /\ b \in {"f_kill", "f_snap", "f_release", "f_failed"} => st \in PreReady
  /\ b \in {"agent", "u_kill", "u_snap", "u_free", "u_drop"} => st = "ready"
  /\ b \in {"d_kill", "d_snap", "d_free", "d_stopped"} => st = "stopping"
  /\ b = "d_drop" => st = "stopped"
  /\ b \notin {"idle", "rmws"} => s \in inMap
  /\ b = "rmws" => s \notin inMap

StopOwner(s) ==
  LET k == pc["stop"][s]
      st == sess[s].st IN
  /\ k \in StopPCs
  /\ k # "idle" => pc["boot"][s] = "idle"
  /\ k \in {"k_kill", "k_snap", "k_free", "k_stopped"} => st = "stopping"
  /\ k = "k_drop" => st = "stopped"
  /\ k \in {"k_delrow", "forget", "rmws"} => s \notin inMap
  /\ k = "idle" /\ pc["boot"][s] = "idle" /\ s \in inMap => st \in {"ready", "stopped", "failed"}

Unborn(s) ==
  s > created => pc["boot"][s] = "idle" /\ pc["stop"][s] = "idle" /\ s \notin inMap

Owner(s) == BootOwner(s) /\ StopOwner(s) /\ Unborn(s)

\* SlotsAccounted, spelled out.
SlotInv ==
  /\ \A s \in Sids : Holds(s) => sess[s].slot \in usedSlots
  /\ \A u \in usedSlots : \E s \in Sids : Holds(s) /\ sess[s].slot = u
  /\ \A s, t \in Sids : Holds(s) /\ Holds(t) /\ s # t => sess[s].slot # sess[t].slot

SInv ==
  /\ TInv
  /\ \A s \in Sids : Owner(s)
  /\ SlotInv

----------------------------------------------------------------------------
(* What a step does to the slots. *)

\* Session s holds its slot after the step if and only if it did before.
KeepSlot(s) ==
  /\ Holds(s)' <=> Holds(s)
  /\ sess'[s].slot = sess[s].slot
  /\ usedSlots' = usedSlots

\* Session s gives its slot back.
GiveSlot(s) ==
  /\ Holds(s) /\ ~Holds(s)'
  /\ usedSlots' = usedSlots \ {sess[s].slot}

\* Session s gets a slot that was free.
TakeSlot(s) ==
  /\ ~Holds(s) /\ Holds(s)'
  /\ sess'[s].slot \notin usedSlots
  /\ usedSlots' = usedSlots \cup {sess'[s].slot}

\* A step that touches the slot of session s alone keeps the account.
LEMMA SlotStep ==
  ASSUME SlotInv, NEW s \in Sids,
         \A t \in Sids : t # s => (Holds(t)' <=> Holds(t)) /\ sess'[t].slot = sess[t].slot,
         KeepSlot(s) \/ GiveSlot(s) \/ TakeSlot(s)
  PROVE  SlotInv'
<1>1. CASE KeepSlot(s)
  BY <1>1 DEF SlotInv, KeepSlot
<1>2. CASE GiveSlot(s)
  BY <1>2 DEF SlotInv, GiveSlot
<1>3. CASE TakeSlot(s)
  BY <1>3 DEF SlotInv, TakeSlot
<1> QED
  BY <1>1, <1>2, <1>3

\* A step of one goroutine leaves the other sessions alone.
LEMMA Others ==
  ASSUME SInv, TInv', NEW s \in Sids,
         \A h \in Procs, t \in Sids : t # s => pc'[h][t] = pc[h][t],
         \A t \in Sids : t # s => sess'[t] = sess[t] /\ (t \in inMap' <=> t \in inMap),
         created \in Int, created' \in Int, created <= created',
         Owner(s)', KeepSlot(s) \/ GiveSlot(s) \/ TakeSlot(s)
  PROVE  SInv'
<1>1. ASSUME NEW t \in Sids, t # s
      PROVE  Owner(t)' /\ (Holds(t)' <=> Holds(t)) /\ sess'[t].slot = sess[t].slot
  <2>1. /\ pc'["boot"][t] = pc["boot"][t] /\ pc'["stop"][t] = pc["stop"][t]
        /\ sess'[t] = sess[t] /\ (t \in inMap' <=> t \in inMap)
    BY <1>1 DEF Procs
  <2>2. Unborn(t)'
    BY <2>1 DEF SInv, Owner, Unborn, Sids
  <2>3. BootOwner(t)' /\ StopOwner(t)'
    BY <2>1 DEF SInv, Owner, BootOwner, StopOwner
  <2>4. Holds(t)' <=> Holds(t)
    BY <2>1 DEF Holds
  <2> QED
    BY <2>1, <2>2, <2>3, <2>4 DEF Owner
<1>2. SlotInv'
  BY <1>1, SlotStep DEF SInv
<1> QED
  BY <1>1, <1>2 DEF SInv

\* The same, for the step of goroutine g of session s to place c.
LEMMA GoroutineStep ==
  ASSUME SInv, TInv', NEW g \in Procs, NEW s \in Sids, NEW c \in PCs, Goto(g, s, c),
         \A t \in Sids : t # s => sess'[t] = sess[t] /\ (t \in inMap' <=> t \in inMap),
         UNCHANGED created,
         Owner(s)',
         KeepSlot(s) \/ GiveSlot(s) \/ TakeSlot(s)
  PROVE  SInv'
<1>1. \A h \in Procs, t \in Sids : t # s => pc'[h][t] = pc[h][t]
  BY GotoEffect DEF SInv, TInv, TypeOK
<1>2. created \in Int /\ created' = created
  BY DEF SInv, TInv, TypeOK
<1> QED
  BY <1>1, <1>2, Others

\* What is known of session s before a step, in one place.
LEMMA Known ==
  ASSUME SInv, NEW s \in Sids
  PROVE  /\ sess \in [Sids -> Session] /\ pend \in PendType
         /\ pc \in [Procs -> [Sids -> PCs]]
         /\ BootOwner(s) /\ StopOwner(s) /\ Unborn(s)
  BY DEF SInv, TInv, TypeOK, Owner, PendType

----------------------------------------------------------------------------

\* The first start.
LEMMA InitSInv == Init => SInv
<1> SUFFICES ASSUME Init PROVE SInv
  OBVIOUS
<1>1. \A s \in Sids : pc["boot"][s] = "idle" /\ pc["stop"][s] = "idle" /\ s \notin inMap
  BY DEF Init, Procs
<1>2. ASSUME NEW s \in Sids PROVE Owner(s) /\ ~Holds(s)
  BY <1>1
  DEF Owner, BootOwner, StopOwner, Unborn, Holds, BootPCs, StopPCs, BootHolding, StopHolding
<1>3. SlotInv
  BY <1>2 DEF SlotInv, Init
<1> QED
  BY <1>2, <1>3, InitTInv DEF SInv, Init

\* What the server does once it serves: every action but Restart, the end of
\* the process and the next start.
Serve ==
  \/ \E role \in Roles, repo \in Repos : Create(role, repo)
  \/ \E s \in Sids :
       \/ Stop(s) \/ StopTerminal(s)
       \/ BootStep(s) \/ AgentStep(s)
       \/ TeardownStep("boot", s)
       \/ Upsert("stop", s) \/ TeardownStep("stop", s)

\* Every action of a serving server keeps the invariant.
LEMMA ServeSInv ==
  ASSUME ~StopMidRun, SInv, [Serve]_vars
  PROVE  SInv'
<1>0. TInv'
  BY NextTInv DEF SInv, Serve, Next
<1> USE ConstantsAssumption
<1>1. ASSUME NEW role \in Roles, NEW repo \in Repos, Create(role, repo)
      PROVE  SInv'
  <2>1. PICK s \in Sids : s = created + 1
    BY <1>1 DEF Create, Sids, SInv, TInv, TypeOK
  <2>2. created \in Int /\ created' = s
    BY <1>1, <2>1 DEF Create, SInv, TInv, TypeOK
  <2>3. PICK i \in SlotCandidates :
          /\ i \notin usedSlots
          /\ usedSlots' = usedSlots \cup {i}
          /\ sess' = [sess EXCEPT ![s] = [NoSession EXCEPT
                        !.slot = i, !.st = "provisioning", !.role = role, !.repo = repo]]
    BY <1>1, <2>1 DEF Create, allocSlot
  <2>4. /\ pc'["boot"][s] = "clone" /\ pc'["stop"][s] = pc["stop"][s]
        /\ \A h \in Procs, t \in Sids : t # s => pc'[h][t] = pc[h][t]
    <3>1. Goto("boot", s, "clone") /\ "clone" \in PCs /\ "boot" \in Procs /\ "stop" \in Procs
      BY <1>1, <2>1 DEF Create, PCs, Procs
    <3>2. pc \in [Procs -> [Sids -> PCs]]
      BY Known
    <3> QED
      BY <3>1, <3>2, GotoEffect
  <2>5. /\ sess'[s].st = "provisioning" /\ sess'[s].slot = i
        /\ \A t \in Sids : t # s => sess'[t] = sess[t]
    BY <2>3, Known DEF NoSession
  <2>6. inMap' = inMap \cup {s}
    BY <1>1, <2>1 DEF Create
  <2>7. pc["boot"][s] = "idle" /\ pc["stop"][s] = "idle" /\ s \notin inMap
    BY <2>1, <2>2, Known DEF Unborn
  <2>8. Owner(s)'
    <3>1. Unborn(s)'
      BY <2>1, <2>2 DEF Unborn
    <3>2. BootOwner(s)'
      BY <2>4, <2>5, <2>6 DEF BootOwner, BootPCs
    <3>3. StopOwner(s)'
      BY <2>4, <2>7 DEF StopOwner, StopPCs
    <3> QED
      BY <3>1, <3>2, <3>3 DEF Owner
  <2>9. TakeSlot(s)
    BY <2>3, <2>4, <2>5, <2>7 DEF TakeSlot, Holds, BootHolding, StopHolding
  <2> QED
    BY <1>0, <2>1, <2>2, <2>4, <2>5, <2>6, <2>8, <2>9, Others
<1>2. ASSUME NEW s \in Sids, Stop(s)
      PROVE  SInv'
  <2>1. UNCHANGED <<created, inMap, usedSlots>>
    BY <1>2 DEF Stop, maps, host, bounds
  <2>2. /\ sess[s].st = "ready" /\ sess'[s].st = "stopping" /\ sess'[s].slot = sess[s].slot
        /\ \A t \in Sids : t # s => sess'[t] = sess[t]
    BY <1>2, Known, StopEffect DEF Stop
  <2>3. pc["boot"][s] = "idle" /\ s \in inMap
    BY <1>2, <2>2, Known
    DEF Stop, StopAccepted, StopCallable, AgentAtWork, BootOwner, BootPCs, PreReady
  <2>4. pc'["stop"][s] = "k_kill" /\ pc'["boot"][s] = pc["boot"][s]
    <3>1. Goto("stop", s, "k_kill") /\ "k_kill" \in PCs /\ "boot" \in Procs /\ "stop" \in Procs
      BY <1>2 DEF Stop, PCs, Procs
    <3>2. pc \in [Procs -> [Sids -> PCs]]
      BY Known
    <3> QED
      BY <3>1, <3>2, GotoEffect
  <2>5. Owner(s)'
    BY <2>1, <2>2, <2>3, <2>4, Known
    DEF Owner, BootOwner, StopOwner, Unborn, BootPCs, StopPCs, PreReady
  <2>6. KeepSlot(s)
    BY <2>1, <2>2, <2>3, <2>4 DEF KeepSlot, Holds, BootHolding, StopHolding
  <2> QED
    BY <1>0, <1>2, <2>1, <2>2, <2>5, <2>6, GoroutineStep DEF Stop, Procs, PCs
<1>3. ASSUME NEW s \in Sids, StopTerminal(s)
      PROVE  SInv'
  <2>1. /\ UNCHANGED <<created, usedSlots>> /\ inMap' = inMap \ {s}
        /\ sess[s].st \in {"stopped", "failed"} /\ pc["stop"][s] = "idle" /\ s \in inMap
        /\ sess'[s].st = sess[s].st /\ sess'[s].slot = sess[s].slot
        /\ \A t \in Sids : t # s => sess'[t] = sess[t]
    BY <1>3, Known, StopTerminalEffect DEF StopTerminal, StopCallable, bounds
  <2>2. pc["boot"][s] = "idle"
    BY <1>3, <2>1, Known
    DEF StopTerminal, StopCallable, AgentAtWork, BootOwner, BootPCs, PreReady
  <2>3. pc'["stop"][s] = "forget" /\ pc'["boot"][s] = pc["boot"][s]
    BY <1>3, Known, GotoEffect DEF StopTerminal, Procs, PCs
  <2>4. Owner(s)'
    BY <2>1, <2>2, <2>3, Known
    DEF Owner, BootOwner, StopOwner, Unborn, BootPCs, StopPCs, PreReady
  <2>5. KeepSlot(s)
    BY <2>1, <2>2, <2>3 DEF KeepSlot, Holds, BootHolding, StopHolding
  <2> QED
    BY <1>0, <1>3, <2>1, <2>4, <2>5, GoroutineStep DEF StopTerminal, Procs, PCs
<1>4. ASSUME NEW g \in Procs, NEW s \in Sids, Upsert(g, s)
      PROVE  SInv'
  <2>1. UNCHANGED <<created, inMap, usedSlots, sess, pc>>
    BY <1>4 DEF Upsert, maps, bounds
  <2> QED
    BY <1>0, <2>1 DEF SInv, Owner, BootOwner, StopOwner, Unborn, SlotInv, Holds
<1>a. ASSUME NEW s \in Sids, NEW c \in BootPCs \ {"idle", "rmws"},
             NEW d \in BootPCs \ {"idle", "rmws"},
             pc["boot"][s] = c, Goto("boot", s, d),
             UNCHANGED <<created, inMap, usedSlots>>,
             sess'[s].slot = sess[s].slot,
             \A t \in Sids : t # s => sess'[t] = sess[t],
             c \in BootHolding <=> d \in BootHolding,
             d \in {"clone", "snapshot", "inject"} => sess'[s].st = "provisioning",
             d = "launch" => sess'[s].st = "booting",
             d = "ssh" => sess'[s].st = "waiting_ssh",
             d = "setup" => sess'[s].st = "configuring",
             d \in {"f_kill", "f_snap", "f_release", "f_failed"} => sess'[s].st \in PreReady,
             d \in {"agent", "u_kill", "u_snap", "u_free", "u_drop"} => sess'[s].st = "ready",
             d \in {"d_kill", "d_snap", "d_free", "d_stopped"} => sess'[s].st = "stopping",
             d = "d_drop" => sess'[s].st = "stopped"
      PROVE  SInv'
  <2>1. d \in PCs
    BY DEF BootPCs, PCs
  <2>2. pc'["boot"][s] = d /\ pc'["stop"][s] = pc["stop"][s]
    BY <1>a, <2>1, Known, GotoEffect DEF Procs
  <2>3. pc["stop"][s] = "idle"
    BY <1>a, Known DEF StopOwner, StopPCs
  <2>4. Owner(s)'
    BY <1>a, <2>2, <2>3, Known DEF Owner, BootOwner, StopOwner, Unborn, StopPCs
  <2>5. KeepSlot(s)
    BY <1>a, <2>2, <2>3 DEF KeepSlot, Holds, StopHolding
  <2> QED
    BY <1>0, <1>a, <2>1, <2>4, <2>5, GoroutineStep DEF Procs
<1>5. ASSUME NEW s \in Sids, Clone(s)
      PROVE  SInv'
  <2>1. UNCHANGED <<created, inMap, usedSlots>>
    BY <1>5 DEF Clone, maps, host, bounds
  <2>2. /\ sess'[s].st = sess[s].st /\ sess'[s].slot = sess[s].slot
        /\ \A t \in Sids : t # s => sess'[t] = sess[t]
    <3>1. sess' = [sess EXCEPT ![s].wsp = TRUE] \/ sess' = sess
      BY <1>5 DEF Clone
    <3> QED
      BY <3>1, Known, ClonedType
  <2>3. pc["boot"][s] = "clone" /\ Goto("boot", s, "snapshot") /\ sess[s].st = "provisioning"
    BY <1>5, Known DEF Clone, At, BootOwner
  <2> QED
    BY <1>a, <2>1, <2>2, <2>3 DEF BootPCs, BootHolding, PreReady
<1>6. ASSUME NEW s \in Sids, CreateSnapshot(s)
      PROVE  SInv'
  <2>1. UNCHANGED <<created, inMap, usedSlots>>
    BY <1>6 DEF CreateSnapshot, maps, host, bounds
  <2>2. /\ pc["boot"][s] = "snapshot" /\ sess[s].st = "provisioning" /\ sess' = sess
        /\ Goto("boot", s, "inject") \/ Goto("boot", s, "f_release")
    BY <1>6, Known DEF CreateSnapshot, At, BootOwner
  <2> QED
    BY <1>a, <2>1, <2>2 DEF BootPCs, BootHolding, PreReady
<1>7. ASSUME NEW s \in Sids, InjectNetworkConfig(s)
      PROVE  SInv'
  <2>1. UNCHANGED <<created, inMap, usedSlots>>
    BY <1>7 DEF InjectNetworkConfig, maps, host, bounds
  <2>2. pc["boot"][s] = "inject" /\ sess[s].st = "provisioning"
    BY <1>7, Known DEF InjectNetworkConfig, At, BootOwner
  <2>3. CASE Goto("boot", s, "f_snap") /\ UNCHANGED <<sess, pend>>
    BY <1>a, <2>1, <2>2, <2>3 DEF BootPCs, BootHolding, PreReady
  <2>4. CASE Transition("boot", s, "booting") /\ Goto("boot", s, "launch")
    <3>1. /\ sess'[s].st = "booting" /\ sess'[s].slot = sess[s].slot
          /\ \A t \in Sids : t # s => sess'[t] = sess[t]
      BY <2>4, Known, TransitionEffect DEF Procs
    <3> QED
      BY <1>a, <2>1, <2>2, <2>4, <3>1 DEF BootPCs, BootHolding, PreReady
  <2> QED
    BY <1>7, <2>3, <2>4 DEF InjectNetworkConfig, ThenTransition
<1>8. ASSUME NEW s \in Sids, Launch(s)
      PROVE  SInv'
  <2>1. UNCHANGED <<created, inMap, usedSlots>>
    BY <1>8 DEF Launch, maps, host, bounds
  <2>2. pc["boot"][s] = "launch" /\ sess[s].st = "booting"
    BY <1>8, Known DEF Launch, At, BootOwner
  <2>3. CASE Goto("boot", s, "f_snap") /\ UNCHANGED <<sess, pend>>
    BY <1>a, <2>1, <2>2, <2>3 DEF BootPCs, BootHolding, PreReady
  <2>4. CASE /\ sess' = [sess EXCEPT ![s] = [sess[s] EXCEPT !.v = "own", !.st = "waiting_ssh"]]
             /\ Goto("boot", s, "ssh")
    <3>1. /\ sess'[s].st = "waiting_ssh" /\ sess'[s].slot = sess[s].slot
          /\ \A t \in Sids : t # s => sess'[t] = sess[t]
      BY <2>4, Known, LaunchedType
    <3> QED
      BY <1>a, <2>1, <2>2, <2>4, <3>1 DEF BootPCs, BootHolding, PreReady
  <2> QED
    BY <1>8, <2>3, <2>4 DEF Launch
<1>9. ASSUME NEW s \in Sids, WaitForSSH(s)
      PROVE  SInv'
  <2>1. UNCHANGED <<created, inMap, usedSlots>>
    BY <1>9 DEF WaitForSSH, maps, host, bounds
  <2>2. pc["boot"][s] = "ssh" /\ sess[s].st = "waiting_ssh"
    BY <1>9, Known DEF WaitForSSH, At, BootOwner
  <2>3. CASE Goto("boot", s, "f_kill") /\ UNCHANGED <<sess, pend>>
    BY <1>a, <2>1, <2>2, <2>3 DEF BootPCs, BootHolding, PreReady
  <2>4. CASE Transition("boot", s, "configuring") /\ Goto("boot", s, "setup")
    <3>1. /\ sess'[s].st = "configuring" /\ sess'[s].slot = sess[s].slot
          /\ \A t \in Sids : t # s => sess'[t] = sess[t]
      BY <2>4, Known, TransitionEffect DEF Procs
    <3> QED
      BY <1>a, <2>1, <2>2, <2>4, <3>1 DEF BootPCs, BootHolding, PreReady
  <2> QED
    BY <1>9, <2>3, <2>4 DEF WaitForSSH, ThenTransition
<1>10. ASSUME NEW s \in Sids, Setup(s)
      PROVE  SInv'
  <2>1. UNCHANGED <<created, inMap, usedSlots>>
    BY <1>10 DEF Setup, maps, host, bounds
  <2>2. pc["boot"][s] = "setup" /\ sess[s].st = "configuring" /\ s \in inMap
    BY <1>10, Known DEF Setup, At, BootOwner
  <2>3. CASE Goto("boot", s, "f_release") /\ UNCHANGED <<sess, pend>>
    BY <1>a, <2>1, <2>2, <2>3 DEF BootPCs, BootHolding, PreReady
  <2>4. CASE Transition("boot", s, "ready")
    <3>1. /\ sess'[s].st = "ready" /\ sess'[s].slot = sess[s].slot
          /\ \A t \in Sids : t # s => sess'[t] = sess[t]
      BY <2>4, Known, TransitionEffect DEF Procs
    <3>2. CASE Goto("boot", s, "agent")
      BY <1>a, <2>1, <2>2, <3>1, <3>2 DEF BootPCs, BootHolding, PreReady
    <3>3. CASE Goto("boot", s, "idle")
      <4>1. pc'["boot"][s] = "idle" /\ pc'["stop"][s] = pc["stop"][s]
        BY <3>3, Known, GotoEffect DEF Procs, PCs
      <4>2. pc["stop"][s] = "idle"
        BY <2>2, Known DEF StopOwner
      <4>3. Owner(s)'
        BY <2>1, <2>2, <3>1, <4>1, <4>2, Known
        DEF Owner, BootOwner, StopOwner, Unborn, BootPCs, StopPCs, PreReady
      <4>4. KeepSlot(s)
        BY <2>1, <2>2, <3>1, <4>1, <4>2 DEF KeepSlot, Holds, BootHolding, StopHolding
      <4> QED
        BY <1>0, <2>1, <3>1, <3>3, <4>3, <4>4, GoroutineStep DEF Procs, PCs
    <3> QED
      BY <1>10, <2>2, <3>1, <3>2, <3>3 DEF Setup
  <2> QED
    BY <1>10, <2>3, <2>4 DEF Setup
<1>11. ASSUME NEW s \in Sids, FailRelease(s)
      PROVE  SInv'
  <2>1. /\ UNCHANGED <<created, inMap>> /\ Goto("boot", s, "f_failed")
        /\ usedSlots' = usedSlots \ {sess[s].slot}
        /\ pc["boot"][s] = "f_release"
    BY <1>11 DEF FailRelease, At, bounds
  <2>2. /\ sess'[s].st = sess[s].st
        /\ \A t \in Sids : t # s => sess'[t] = sess[t]
    BY <1>11, Known, FailedType DEF FailRelease
  <2>3. pc'["boot"][s] = "f_failed" /\ pc'["stop"][s] = pc["stop"][s]
    BY <2>1, Known, GotoEffect DEF Procs, PCs
  <2>4. pc["stop"][s] = "idle" /\ s \in inMap /\ sess[s].st \in PreReady
    BY <2>1, Known DEF StopOwner, BootOwner
  <2>5. Owner(s)'
    BY <2>1, <2>2, <2>3, <2>4, Known
    DEF Owner, BootOwner, StopOwner, Unborn, BootPCs, StopPCs, PreReady
  <2>6. GiveSlot(s)
    BY <2>1, <2>2, <2>3, <2>4 DEF GiveSlot, Holds, BootHolding, StopHolding
  <2> QED
    BY <1>0, <2>1, <2>2, <2>5, <2>6, GoroutineStep DEF Procs, PCs
<1>12. ASSUME NEW s \in Sids, FailTransition(s)
      PROVE  SInv'
  <2>1. UNCHANGED <<created, inMap, usedSlots>>
    BY <1>12 DEF FailTransition, maps, host, bounds
  <2>2. /\ sess'[s].st = "failed" /\ sess'[s].slot = sess[s].slot
        /\ \A t \in Sids : t # s => sess'[t] = sess[t]
    BY <1>12, Known, TransitionEffect DEF FailTransition, Procs
  <2>3. pc'["boot"][s] = "idle" /\ pc'["stop"][s] = pc["stop"][s] /\ pc["boot"][s] = "f_failed"
    BY <1>12, Known, GotoEffect DEF FailTransition, At, Procs, PCs
  <2>4. pc["stop"][s] = "idle"
    BY <2>3, Known DEF StopOwner
  <2>5. Owner(s)'
    BY <2>1, <2>2, <2>3, <2>4, Known
    DEF Owner, BootOwner, StopOwner, Unborn, BootPCs, StopPCs, PreReady
  <2>6. KeepSlot(s)
    BY <2>1, <2>2, <2>3, <2>4 DEF KeepSlot, Holds, BootHolding, StopHolding
  <2> QED
    BY <1>0, <1>12, <2>1, <2>2, <2>5, <2>6, GoroutineStep DEF FailTransition, Procs, PCs
<1>13. ASSUME NEW s \in Sids, AgentUsageLimit(s)
      PROVE  SInv'
  <2>1. UNCHANGED <<created, inMap, usedSlots>>
    BY <1>13 DEF AgentUsageLimit, maps, host, bounds
  <2>2. pc["boot"][s] = "agent" /\ sess[s].st = "ready" /\ s \in inMap
    BY <1>13, Known DEF AgentUsageLimit, At, BootOwner
  <2>3. TryState(sess[s].st, "failed") = "ready"
    BY <2>2 DEF TryState, CanTransition, validTransitions
  <2>4. /\ sess'[s].st = "ready" /\ sess'[s].slot = sess[s].slot
        /\ \A t \in Sids : t # s => sess'[t] = sess[t]
    <3> DEFINE y == [sess[s] EXCEPT !.err = "usage limit", !.st = "ready"]
    <3>1. sess' = [sess EXCEPT ![s] = y]
      BY <1>13, <2>3 DEF AgentUsageLimit
    <3>2. sess[s] \in Session
      BY Known
    <3>3. y.st = "ready" /\ y.slot = sess[s].slot
      BY <3>2 DEF Session
    <3> QED
      BY <3>1, <3>3, Known
  <2> QED
    BY <1>13, <1>a, <2>1, <2>2, <2>4 DEF AgentUsageLimit, BootPCs, BootHolding, PreReady
<1>14. ASSUME NEW s \in Sids, AgentError(s)
      PROVE  SInv'
  <2>1. UNCHANGED <<created, inMap, usedSlots>>
    BY <1>14 DEF AgentError, maps, host, bounds
  <2>2. pc["boot"][s] = "agent" /\ sess[s].st = "ready" /\ s \in inMap
    BY <1>14, Known DEF AgentError, At, BootOwner
  <2>3. TryState(sess[s].st, "failed") = "ready"
    BY <2>2 DEF TryState, CanTransition, validTransitions
  <2>4. /\ sess'[s].st = "ready" /\ sess'[s].slot = sess[s].slot
        /\ \A t \in Sids : t # s => sess'[t] = sess[t]
    <3> DEFINE y == [sess[s] EXCEPT !.err = "other", !.st = "ready"]
    <3>1. sess' = [sess EXCEPT ![s] = y]
      BY <1>14, <2>3 DEF AgentError
    <3>2. sess[s] \in Session
      BY Known
    <3>3. y.st = "ready" /\ y.slot = sess[s].slot
      BY <3>2 DEF Session
    <3> QED
      BY <3>1, <3>3, Known
  <2>5. Goto("boot", s, "idle")
    BY <1>14, <2>2 DEF AgentError, CanTransition, validTransitions
  <2>6. pc'["boot"][s] = "idle" /\ pc'["stop"][s] = pc["stop"][s]
    BY <2>5, Known, GotoEffect DEF Procs, PCs
  <2>7. pc["stop"][s] = "idle"
    BY <2>2, Known DEF StopOwner
  <2>8. Owner(s)'
    BY <2>1, <2>2, <2>4, <2>6, <2>7, Known
    DEF Owner, BootOwner, StopOwner, Unborn, BootPCs, StopPCs, PreReady
  <2>9. KeepSlot(s)
    BY <2>1, <2>2, <2>4, <2>6, <2>7 DEF KeepSlot, Holds, BootHolding, StopHolding
  <2> QED
    BY <1>0, <2>1, <2>4, <2>5, <2>8, <2>9, GoroutineStep DEF Procs, PCs
<1>15. ASSUME NEW s \in Sids, AgentDone(s)
      PROVE  SInv'
  <2>1. UNCHANGED <<created, inMap, usedSlots>>
    BY <1>15 DEF AgentDone, maps, host, bounds
  <2>2. pc["boot"][s] = "agent" /\ sess[s].st = "ready" /\ s \in inMap
    BY <1>15, Known DEF AgentDone, At, BootOwner
  <2>3. TryState(sess[s].st, "stopping") = "stopping"
    BY <2>2 DEF TryState, CanTransition, validTransitions
  <2>4. /\ sess'[s].st = "stopping" /\ sess'[s].slot = sess[s].slot
        /\ \A t \in Sids : t # s => sess'[t] = sess[t]
    <3>0. PICK b \in BOOLEAN :
            sess' = [sess EXCEPT ![s] = [sess[s] EXCEPT !.res = b, !.st = "stopping"]]
      BY <1>15, <2>3, ResultType DEF AgentDone
    <3> DEFINE y == [sess[s] EXCEPT !.res = b, !.st = "stopping"]
    <3>1. sess' = [sess EXCEPT ![s] = y]
      BY <3>0
    <3>2. sess[s] \in Session
      BY Known
    <3>3. y.st = "stopping" /\ y.slot = sess[s].slot
      BY <3>2 DEF Session
    <3> QED
      BY <3>1, <3>3, Known
  <2> QED
    BY <1>15, <1>a, <2>1, <2>2, <2>4 DEF AgentDone, BootPCs, BootHolding, PreReady
<1>b. ASSUME NEW g \in Procs, NEW s \in Sids, NEW c \in DOMAIN Order,
             pc[g][s] = c, Goto(g, s, Following(c)),
             UNCHANGED <<created>>,
             \A t \in Sids : t # s => sess'[t] = sess[t] /\ (t \in inMap' <=> t \in inMap),
             Owner(s)', KeepSlot(s) \/ GiveSlot(s)
      PROVE  SInv'
  BY <1>0, <1>b, FollowingType, GoroutineStep
<1>c. ASSUME NEW g \in Procs, NEW s \in Sids, NEW places, Teardown(g, s, places),
             places \subseteq DOMAIN Order
      PROVE  /\ pc[g][s] \in places /\ Goto(g, s, Following(pc[g][s]))
             /\ pc'[g][s] = Following(pc[g][s])
             /\ \A h \in Procs : h # g => pc'[h][s] = pc[h][s]
  BY <1>c, Known, FollowingType, GotoEffect DEF Teardown
<1>16. ASSUME NEW g \in Procs, NEW s \in Sids, StopVM(g, s)
      PROVE  SInv'
  <2>1. UNCHANGED <<created, inMap, usedSlots, sess>>
    BY <1>16 DEF StopVM, maps, host, bounds
  <2>2. /\ pc[g][s] \in {"f_kill", "u_kill", "d_kill", "k_kill"}
        /\ Goto(g, s, Following(pc[g][s])) /\ pc'[g][s] = Following(pc[g][s])
        /\ \A h \in Procs : h # g => pc'[h][s] = pc[h][s]
    BY <1>16, <1>c DEF StopVM, Order
  <2>3. pc'[g][s] \in {"f_snap", "u_snap", "d_snap", "k_snap"}
    BY <2>2 DEF Following, Order
  <2>4. CASE g = "boot"
    <3>0. /\ pc["boot"][s] \in BootPCs
          /\ pc["boot"][s] = "rmws" => s \notin inMap
          /\ pc["boot"][s] # "idle" => pc["stop"][s] = "idle"
      BY Known DEF BootOwner, StopOwner
    <3>1. /\ pc["boot"][s] \in {"f_kill", "u_kill", "d_kill", "k_kill"}
          /\ pc'["boot"][s] \in {"f_snap", "u_snap", "d_snap", "k_snap"}
          /\ pc'["boot"][s] = Following(pc["boot"][s])
          /\ pc["stop"][s] = "idle" /\ pc'["stop"][s] = "idle"
      BY <2>2, <2>3, <2>4, <3>0 DEF Procs
    <3>2. Owner(s)'
      <4>0. BootOwner(s) /\ StopOwner(s) /\ Unborn(s)
        BY Known
      <4>1. BootOwner(s)'
        BY <2>1, <3>1, <4>0, SMTT(30)
        DEF Following, Order, BootOwner, BootPCs, PreReady
      <4>2. StopOwner(s)'
        BY <2>1, <3>0, <3>1, <4>0 DEF StopOwner, StopPCs, BootPCs, Following, Order
      <4>3. Unborn(s)'
        BY <2>1, <3>1, <4>0 DEF Unborn
      <4> QED
        BY <4>1, <4>2, <4>3 DEF Owner
    <3>3. KeepSlot(s)
      <4>1. pc["boot"][s] \in BootHolding /\ pc'["boot"][s] \in BootHolding
        BY <3>0, <3>1 DEF BootPCs, BootHolding, Following, Order
      <4> QED
        BY <2>1, <4>1 DEF Holds, KeepSlot
    <3> QED
      BY <1>b, <2>1, <2>2, <3>2, <3>3 DEF Order
  <2>5. CASE g = "stop"
    <3>0. /\ pc["stop"][s] \in StopPCs
          /\ pc["stop"][s] # "idle" => pc["boot"][s] = "idle"
          /\ pc["stop"][s] \in {"k_kill", "k_snap", "k_free", "k_stopped"} =>
               sess[s].st = "stopping"
          /\ pc["stop"][s] = "k_drop" => sess[s].st = "stopped"
          /\ pc["stop"][s] \in {"k_delrow", "forget", "rmws"} => s \notin inMap
      BY Known DEF StopOwner
    <3>1. /\ pc["stop"][s] \in {"f_kill", "u_kill", "d_kill", "k_kill"}
          /\ pc'["stop"][s] \in {"f_snap", "u_snap", "d_snap", "k_snap"}
          /\ pc'["stop"][s] = Following(pc["stop"][s])
          /\ pc["boot"][s] = "idle" /\ pc'["boot"][s] = "idle"
      BY <2>2, <2>3, <2>5, <3>0 DEF Procs
    <3>2. Owner(s)'
      <4>0. BootOwner(s) /\ StopOwner(s) /\ Unborn(s)
        BY Known
      <4>1. BootOwner(s)'
        BY <2>1, <2>2, <2>5, <3>1, <4>0
        DEF Following, Order, BootOwner, BootPCs, PreReady
      <4>2. StopOwner(s)'
        BY <2>1, <2>2, <2>5, <3>1, <4>0
        DEF Following, Order, StopOwner, StopPCs
      <4>3. Unborn(s)'
        BY <2>1, <2>2, <2>5, <3>1, <4>0 DEF Unborn
      <4> QED
        BY <4>1, <4>2, <4>3 DEF Owner
    <3>3. KeepSlot(s)
      <4>1. pc["stop"][s] \in StopHolding /\ pc'["stop"][s] \in StopHolding
        BY <3>0, <3>1 DEF StopPCs, StopHolding, Following, Order
      <4> QED
        BY <2>1, <4>1 DEF Holds, KeepSlot
    <3> QED
      BY <1>b, <2>1, <2>2, <3>2, <3>3 DEF Order
  <2> QED
    BY <2>4, <2>5 DEF Procs
<1>17. ASSUME NEW g \in Procs, NEW s \in Sids, DeleteSnapshot(g, s)
      PROVE  SInv'
  <2>1. UNCHANGED <<created, inMap, usedSlots, sess>>
    BY <1>17 DEF DeleteSnapshot, maps, host, bounds
  <2>2. /\ pc[g][s] \in {"f_snap", "u_snap", "d_snap", "k_snap"}
        /\ Goto(g, s, Following(pc[g][s])) /\ pc'[g][s] = Following(pc[g][s])
        /\ \A h \in Procs : h # g => pc'[h][s] = pc[h][s]
    BY <1>17, <1>c DEF DeleteSnapshot, Order
  <2>3. pc'[g][s] \in {"f_release", "u_free", "d_free", "k_free"}
    BY <2>2 DEF Following, Order
  <2>4. CASE g = "boot"
    <3>0. /\ pc["boot"][s] \in BootPCs
          /\ pc["boot"][s] = "rmws" => s \notin inMap
          /\ pc["boot"][s] # "idle" => pc["stop"][s] = "idle"
      BY Known DEF BootOwner, StopOwner
    <3>1. /\ pc["boot"][s] \in {"f_snap", "u_snap", "d_snap", "k_snap"}
          /\ pc'["boot"][s] \in {"f_release", "u_free", "d_free", "k_free"}
          /\ pc'["boot"][s] = Following(pc["boot"][s])
          /\ pc["stop"][s] = "idle" /\ pc'["stop"][s] = "idle"
      BY <2>2, <2>3, <2>4, <3>0 DEF Procs
    <3>2. Owner(s)'
      <4>0. BootOwner(s) /\ StopOwner(s) /\ Unborn(s)
        BY Known
      <4>1. BootOwner(s)'
        BY <2>1, <3>1, <4>0, SMTT(30)
        DEF Following, Order, BootOwner, BootPCs, PreReady
      <4>2. StopOwner(s)'
        BY <2>1, <3>0, <3>1, <4>0 DEF StopOwner, StopPCs, BootPCs, Following, Order
      <4>3. Unborn(s)'
        BY <2>1, <3>1, <4>0 DEF Unborn
      <4> QED
        BY <4>1, <4>2, <4>3 DEF Owner
    <3>3. KeepSlot(s)
      <4>1. pc["boot"][s] \in BootHolding /\ pc'["boot"][s] \in BootHolding
        BY <3>0, <3>1 DEF BootPCs, BootHolding, Following, Order
      <4> QED
        BY <2>1, <4>1 DEF Holds, KeepSlot
    <3> QED
      BY <1>b, <2>1, <2>2, <3>2, <3>3 DEF Order
  <2>5. CASE g = "stop"
    <3>0. /\ pc["stop"][s] \in StopPCs
          /\ pc["stop"][s] # "idle" => pc["boot"][s] = "idle"
          /\ pc["stop"][s] \in {"k_kill", "k_snap", "k_free", "k_stopped"} =>
               sess[s].st = "stopping"
          /\ pc["stop"][s] = "k_drop" => sess[s].st = "stopped"
          /\ pc["stop"][s] \in {"k_delrow", "forget", "rmws"} => s \notin inMap
      BY Known DEF StopOwner
    <3>1. /\ pc["stop"][s] \in {"f_snap", "u_snap", "d_snap", "k_snap"}
          /\ pc'["stop"][s] \in {"f_release", "u_free", "d_free", "k_free"}
          /\ pc'["stop"][s] = Following(pc["stop"][s])
          /\ pc["boot"][s] = "idle" /\ pc'["boot"][s] = "idle"
      BY <2>2, <2>3, <2>5, <3>0 DEF Procs
    <3>2. Owner(s)'
      <4>0. BootOwner(s) /\ StopOwner(s) /\ Unborn(s)
        BY Known
      <4>1. BootOwner(s)'
        BY <2>1, <2>2, <2>5, <3>1, <4>0
        DEF Following, Order, BootOwner, BootPCs, PreReady
      <4>2. StopOwner(s)'
        BY <2>1, <2>2, <2>5, <3>1, <4>0
        DEF Following, Order, StopOwner, StopPCs
      <4>3. Unborn(s)'
        BY <2>1, <2>2, <2>5, <3>1, <4>0 DEF Unborn
      <4> QED
        BY <4>1, <4>2, <4>3 DEF Owner
    <3>3. KeepSlot(s)
      <4>1. pc["stop"][s] \in StopHolding /\ pc'["stop"][s] \in StopHolding
        BY <3>0, <3>1 DEF StopPCs, StopHolding, Following, Order
      <4> QED
        BY <2>1, <4>1 DEF Holds, KeepSlot
    <3> QED
      BY <1>b, <2>1, <2>2, <3>2, <3>3 DEF Order
  <2> QED
    BY <2>4, <2>5 DEF Procs
<1>18. ASSUME NEW g \in Procs, NEW s \in Sids, freeSlot(g, s)
      PROVE  SInv'
  <2>1. /\ UNCHANGED <<created, inMap, sess>>
        /\ usedSlots' = usedSlots \ {sess[s].slot}
    BY <1>18 DEF freeSlot, maps, host, bounds
  <2>2. /\ pc[g][s] \in {"u_free", "d_free", "k_free"}
        /\ Goto(g, s, Following(pc[g][s])) /\ pc'[g][s] = Following(pc[g][s])
        /\ \A h \in Procs : h # g => pc'[h][s] = pc[h][s]
    BY <1>18, <1>c DEF freeSlot, Order
  <2>3. pc'[g][s] \in {"u_drop", "d_stopped", "k_stopped"}
    BY <2>2 DEF Following, Order
  <2>4. CASE g = "boot"
    <3>0. /\ pc["boot"][s] \in BootPCs
          /\ pc["boot"][s] = "rmws" => s \notin inMap
          /\ pc["boot"][s] # "idle" => pc["stop"][s] = "idle"
      BY Known DEF BootOwner, StopOwner
    <3>1. /\ pc["boot"][s] \in {"u_free", "d_free", "k_free"}
          /\ pc'["boot"][s] \in {"u_drop", "d_stopped", "k_stopped"}
          /\ pc'["boot"][s] = Following(pc["boot"][s])
          /\ pc["stop"][s] = "idle" /\ pc'["stop"][s] = "idle"
      BY <2>2, <2>3, <2>4, <3>0 DEF Procs
    <3>2. Owner(s)'
      <4>0. BootOwner(s) /\ StopOwner(s) /\ Unborn(s)
        BY Known
      <4>1. BootOwner(s)'
        BY <2>1, <3>1, <4>0, SMTT(30)
        DEF Following, Order, BootOwner, BootPCs, PreReady
      <4>2. StopOwner(s)'
        BY <2>1, <3>0, <3>1, <4>0 DEF StopOwner, StopPCs, BootPCs, Following, Order
      <4>3. Unborn(s)'
        BY <2>1, <3>1, <4>0 DEF Unborn
      <4> QED
        BY <4>1, <4>2, <4>3 DEF Owner
    <3>3. GiveSlot(s)
      BY <2>1, <3>0, <3>1 DEF Holds, BootHolding, StopHolding, GiveSlot, BootPCs
    <3> QED
      BY <1>b, <2>1, <2>2, <3>2, <3>3 DEF Order
  <2>5. CASE g = "stop"
    <3>0. /\ pc["stop"][s] \in StopPCs
          /\ pc["stop"][s] # "idle" => pc["boot"][s] = "idle"
          /\ pc["stop"][s] \in {"k_kill", "k_snap", "k_free", "k_stopped"} =>
               sess[s].st = "stopping"
          /\ pc["stop"][s] = "k_drop" => sess[s].st = "stopped"
          /\ pc["stop"][s] \in {"k_delrow", "forget", "rmws"} => s \notin inMap
      BY Known DEF StopOwner
    <3>1. /\ pc["stop"][s] \in {"u_free", "d_free", "k_free"}
          /\ pc'["stop"][s] \in {"u_drop", "d_stopped", "k_stopped"}
          /\ pc'["stop"][s] = Following(pc["stop"][s])
          /\ pc["boot"][s] = "idle" /\ pc'["boot"][s] = "idle"
      BY <2>2, <2>3, <2>5, <3>0 DEF Procs
    <3>2. Owner(s)'
      <4>0. BootOwner(s) /\ StopOwner(s) /\ Unborn(s)
        BY Known
      <4>1. BootOwner(s)'
        BY <2>1, <2>2, <2>5, <3>1, <4>0
        DEF Following, Order, BootOwner, BootPCs, PreReady
      <4>2. StopOwner(s)'
        BY <2>1, <2>2, <2>5, <3>1, <4>0
        DEF Following, Order, StopOwner, StopPCs
      <4>3. Unborn(s)'
        BY <2>1, <2>2, <2>5, <3>1, <4>0 DEF Unborn
      <4> QED
        BY <4>1, <4>2, <4>3 DEF Owner
    <3>3. GiveSlot(s)
      BY <2>1, <3>0, <3>1 DEF Holds, BootHolding, StopHolding, GiveSlot, StopPCs
    <3> QED
      BY <1>b, <2>1, <2>2, <3>2, <3>3 DEF Order
  <2> QED
    BY <2>4, <2>5 DEF Procs
<1>19. ASSUME NEW g \in Procs, NEW s \in Sids, DropFromMap(g, s)
      PROVE  SInv'
  <2>1. /\ UNCHANGED <<created, usedSlots, sess>>
        /\ inMap' = inMap \ {s}
    BY <1>19 DEF DropFromMap, maps, host, bounds
  <2>2. /\ pc[g][s] \in {"u_drop", "d_drop", "k_drop"}
        /\ Goto(g, s, Following(pc[g][s])) /\ pc'[g][s] = Following(pc[g][s])
        /\ \A h \in Procs : h # g => pc'[h][s] = pc[h][s]
    BY <1>19, <1>c DEF DropFromMap, Order
  <2>3. pc'[g][s] \in {"rmws", "k_delrow"}
    BY <2>2 DEF Following, Order
  <2>4. CASE g = "boot"
    <3>0. /\ pc["boot"][s] \in BootPCs
          /\ pc["boot"][s] = "rmws" => s \notin inMap
          /\ pc["boot"][s] # "idle" => pc["stop"][s] = "idle"
      BY Known DEF BootOwner, StopOwner
    <3>1. /\ pc["boot"][s] \in {"u_drop", "d_drop", "k_drop"}
          /\ pc'["boot"][s] \in {"rmws", "k_delrow"}
          /\ pc'["boot"][s] = Following(pc["boot"][s])
          /\ pc["stop"][s] = "idle" /\ pc'["stop"][s] = "idle"
      BY <2>2, <2>3, <2>4, <3>0 DEF Procs
    <3>2. Owner(s)'
      <4>0. BootOwner(s) /\ StopOwner(s) /\ Unborn(s)
        BY Known
      <4>1. BootOwner(s)'
        BY <2>1, <3>1, <4>0, SMTT(30)
        DEF Following, Order, BootOwner, BootPCs, PreReady
      <4>2. StopOwner(s)'
        BY <2>1, <3>0, <3>1, <4>0 DEF StopOwner, StopPCs, BootPCs, Following, Order
      <4>3. Unborn(s)'
        BY <2>1, <3>1, <4>0 DEF Unborn
      <4> QED
        BY <4>1, <4>2, <4>3 DEF Owner
    <3>3. KeepSlot(s)
      BY <2>1, <3>0, <3>1 DEF Holds, BootHolding, StopHolding, KeepSlot, BootPCs
    <3> QED
      BY <1>b, <2>1, <2>2, <3>2, <3>3 DEF Order
  <2>5. CASE g = "stop"
    <3>0. /\ pc["stop"][s] \in StopPCs
          /\ pc["stop"][s] # "idle" => pc["boot"][s] = "idle"
          /\ pc["stop"][s] \in {"k_kill", "k_snap", "k_free", "k_stopped"} =>
               sess[s].st = "stopping"
          /\ pc["stop"][s] = "k_drop" => sess[s].st = "stopped"
          /\ pc["stop"][s] \in {"k_delrow", "forget", "rmws"} => s \notin inMap
      BY Known DEF StopOwner
    <3>1. /\ pc["stop"][s] \in {"u_drop", "d_drop", "k_drop"}
          /\ pc'["stop"][s] \in {"rmws", "k_delrow"}
          /\ pc'["stop"][s] = Following(pc["stop"][s])
          /\ pc["boot"][s] = "idle" /\ pc'["boot"][s] = "idle"
      BY <2>2, <2>3, <2>5, <3>0 DEF Procs
    <3>2. Owner(s)'
      <4>0. BootOwner(s) /\ StopOwner(s) /\ Unborn(s)
        BY Known
      <4>1. BootOwner(s)'
        BY <2>1, <2>2, <2>5, <3>1, <4>0
        DEF Following, Order, BootOwner, BootPCs, PreReady
      <4>2. StopOwner(s)'
        BY <2>1, <2>2, <2>5, <3>1, <4>0
        DEF Following, Order, StopOwner, StopPCs
      <4>3. Unborn(s)'
        BY <2>1, <2>2, <2>5, <3>1, <4>0 DEF Unborn
      <4> QED
        BY <4>1, <4>2, <4>3 DEF Owner
    <3>3. KeepSlot(s)
      BY <2>1, <3>0, <3>1 DEF Holds, BootHolding, StopHolding, KeepSlot, StopPCs
    <3> QED
      BY <1>b, <2>1, <2>2, <3>2, <3>3 DEF Order
  <2> QED
    BY <2>4, <2>5 DEF Procs
<1>20. ASSUME NEW g \in Procs, NEW s \in Sids, DeleteRow(g, s)
      PROVE  SInv'
  <2>1. UNCHANGED <<created, inMap, usedSlots, sess>>
    BY <1>20 DEF DeleteRow, maps, host, bounds
  <2>2. /\ pc[g][s] \in {"k_delrow", "forget"}
        /\ Goto(g, s, Following(pc[g][s])) /\ pc'[g][s] = Following(pc[g][s])
        /\ \A h \in Procs : h # g => pc'[h][s] = pc[h][s]
    BY <1>20, <1>c DEF DeleteRow, Order
  <2>3. pc'[g][s] \in {"rmws", "idle"}
    BY <2>2 DEF Following, Order
  <2>4. CASE g = "boot"
    <3>0. /\ pc["boot"][s] \in BootPCs
          /\ pc["boot"][s] = "rmws" => s \notin inMap
          /\ pc["boot"][s] # "idle" => pc["stop"][s] = "idle"
      BY Known DEF BootOwner, StopOwner
    <3>1. /\ pc["boot"][s] \in {"k_delrow", "forget"}
          /\ pc'["boot"][s] \in {"rmws", "idle"}
          /\ pc'["boot"][s] = Following(pc["boot"][s])
          /\ pc["stop"][s] = "idle" /\ pc'["stop"][s] = "idle"
      BY <2>2, <2>3, <2>4, <3>0 DEF Procs
    <3>2. Owner(s)'
      <4>0. BootOwner(s) /\ StopOwner(s) /\ Unborn(s)
        BY Known
      <4>1. BootOwner(s)'
        BY <2>1, <3>1, <4>0, SMTT(30)
        DEF Following, Order, BootOwner, BootPCs, PreReady
      <4>2. StopOwner(s)'
        BY <2>1, <3>0, <3>1, <4>0 DEF StopOwner, StopPCs, BootPCs, Following, Order
      <4>3. Unborn(s)'
        BY <2>1, <3>1, <4>0 DEF Unborn
      <4> QED
        BY <4>1, <4>2, <4>3 DEF Owner
    <3>3. KeepSlot(s)
      BY <2>1, <3>0, <3>1 DEF Holds, BootHolding, StopHolding, KeepSlot, BootPCs
    <3> QED
      BY <1>b, <2>1, <2>2, <3>2, <3>3 DEF Order
  <2>5. CASE g = "stop"
    <3>0. /\ pc["stop"][s] \in StopPCs
          /\ pc["stop"][s] # "idle" => pc["boot"][s] = "idle"
          /\ pc["stop"][s] \in {"k_kill", "k_snap", "k_free", "k_stopped"} =>
               sess[s].st = "stopping"
          /\ pc["stop"][s] = "k_drop" => sess[s].st = "stopped"
          /\ pc["stop"][s] \in {"k_delrow", "forget", "rmws"} => s \notin inMap
      BY Known DEF StopOwner
    <3>1. /\ pc["stop"][s] \in {"k_delrow", "forget"}
          /\ pc'["stop"][s] \in {"rmws", "idle"}
          /\ pc'["stop"][s] = Following(pc["stop"][s])
          /\ pc["boot"][s] = "idle" /\ pc'["boot"][s] = "idle"
      BY <2>2, <2>3, <2>5, <3>0 DEF Procs
    <3>2. Owner(s)'
      <4>0. BootOwner(s) /\ StopOwner(s) /\ Unborn(s)
        BY Known
      <4>1. BootOwner(s)'
        BY <2>1, <2>2, <2>5, <3>1, <4>0
        DEF Following, Order, BootOwner, BootPCs, PreReady
      <4>2. StopOwner(s)'
        BY <2>1, <2>2, <2>5, <3>1, <4>0
        DEF Following, Order, StopOwner, StopPCs
      <4>3. Unborn(s)'
        BY <2>1, <2>2, <2>5, <3>1, <4>0 DEF Unborn
      <4> QED
        BY <4>1, <4>2, <4>3 DEF Owner
    <3>3. KeepSlot(s)
      BY <2>1, <3>0, <3>1 DEF Holds, BootHolding, StopHolding, KeepSlot, StopPCs
    <3> QED
      BY <1>b, <2>1, <2>2, <3>2, <3>3 DEF Order
  <2> QED
    BY <2>4, <2>5 DEF Procs
<1>21. ASSUME NEW g \in Procs, NEW s \in Sids, CleanupWorkspace(g, s)
      PROVE  SInv'
  <2>1. UNCHANGED <<created, inMap, usedSlots, sess>>
    BY <1>21 DEF CleanupWorkspace, maps, host, bounds
  <2>2. /\ pc[g][s] \in {"rmws"}
        /\ Goto(g, s, Following(pc[g][s])) /\ pc'[g][s] = Following(pc[g][s])
        /\ \A h \in Procs : h # g => pc'[h][s] = pc[h][s]
    BY <1>21, <1>c DEF CleanupWorkspace, Order
  <2>3. pc'[g][s] \in {"idle"}
    BY <2>2 DEF Following, Order
  <2>4. CASE g = "boot"
    <3>0. /\ pc["boot"][s] \in BootPCs
          /\ pc["boot"][s] = "rmws" => s \notin inMap
          /\ pc["boot"][s] # "idle" => pc["stop"][s] = "idle"
      BY Known DEF BootOwner, StopOwner
    <3>1. /\ pc["boot"][s] \in {"rmws"}
          /\ pc'["boot"][s] \in {"idle"}
          /\ pc'["boot"][s] = Following(pc["boot"][s])
          /\ pc["stop"][s] = "idle" /\ pc'["stop"][s] = "idle"
      BY <2>2, <2>3, <2>4, <3>0 DEF Procs
    <3>2. Owner(s)'
      <4>0. BootOwner(s) /\ StopOwner(s) /\ Unborn(s)
        BY Known
      <4>1. BootOwner(s)'
        BY <2>1, <3>1, <4>0, SMTT(30)
        DEF Following, Order, BootOwner, BootPCs, PreReady
      <4>2. StopOwner(s)'
        BY <2>1, <3>0, <3>1, <4>0 DEF StopOwner, StopPCs, BootPCs, Following, Order
      <4>3. Unborn(s)'
        BY <2>1, <3>1, <4>0 DEF Unborn
      <4> QED
        BY <4>1, <4>2, <4>3 DEF Owner
    <3>3. KeepSlot(s)
      BY <2>1, <3>0, <3>1 DEF Holds, BootHolding, StopHolding, KeepSlot, BootPCs
    <3> QED
      BY <1>b, <2>1, <2>2, <3>2, <3>3 DEF Order
  <2>5. CASE g = "stop"
    <3>0. /\ pc["stop"][s] \in StopPCs
          /\ pc["stop"][s] # "idle" => pc["boot"][s] = "idle"
          /\ pc["stop"][s] \in {"k_kill", "k_snap", "k_free", "k_stopped"} =>
               sess[s].st = "stopping"
          /\ pc["stop"][s] = "k_drop" => sess[s].st = "stopped"
          /\ pc["stop"][s] \in {"k_delrow", "forget", "rmws"} => s \notin inMap
      BY Known DEF StopOwner
    <3>1. /\ pc["stop"][s] \in {"rmws"}
          /\ pc'["stop"][s] \in {"idle"}
          /\ pc'["stop"][s] = Following(pc["stop"][s])
          /\ pc["boot"][s] = "idle" /\ pc'["boot"][s] = "idle"
      BY <2>2, <2>3, <2>5, <3>0 DEF Procs
    <3>2. Owner(s)'
      <4>0. BootOwner(s) /\ StopOwner(s) /\ Unborn(s)
        BY Known
      <4>1. BootOwner(s)'
        BY <2>1, <2>2, <2>5, <3>1, <4>0
        DEF Following, Order, BootOwner, BootPCs, PreReady
      <4>2. StopOwner(s)'
        BY <2>1, <2>2, <2>5, <3>1, <4>0
        DEF Following, Order, StopOwner, StopPCs
      <4>3. Unborn(s)'
        BY <2>1, <2>2, <2>5, <3>1, <4>0 DEF Unborn
      <4> QED
        BY <4>1, <4>2, <4>3 DEF Owner
    <3>3. KeepSlot(s)
      BY <2>1, <3>0, <3>1 DEF Holds, BootHolding, StopHolding, KeepSlot, StopPCs
    <3> QED
      BY <1>b, <2>1, <2>2, <3>2, <3>3 DEF Order
  <2> QED
    BY <2>4, <2>5 DEF Procs
<1>22. ASSUME NEW g \in Procs, NEW s \in Sids, MarkStopped(g, s)
      PROVE  SInv'
  <2>1. UNCHANGED <<created, inMap, usedSlots>>
    BY <1>22 DEF MarkStopped, maps, host, bounds
  <2>2. /\ pc[g][s] \in {"d_stopped", "k_stopped"}
        /\ Goto(g, s, Following(pc[g][s])) /\ pc'[g][s] = Following(pc[g][s])
        /\ \A h \in Procs : h # g => pc'[h][s] = pc[h][s]
    BY <1>22, <1>c DEF MarkStopped, Order
  <2>3. pc'[g][s] \in {"d_drop", "k_drop"}
    BY <2>2 DEF Following, Order
  <2>4. sess[s].st = "stopping"
    BY <2>2, Known DEF BootOwner, StopOwner, BootPCs, StopPCs, Procs
  <2>5. /\ sess'[s].st = "stopped" /\ sess'[s].slot = sess[s].slot
        /\ \A t \in Sids : t # s => sess'[t] = sess[t]
    <3>1. TryState(sess[s].st, "stopped") = "stopped"
      BY <2>4 DEF TryState, CanTransition, validTransitions
    <3> QED
      BY <1>22, <3>1, Known DEF MarkStopped, Session
  <2>6. CASE g = "boot"
    <3>0. /\ pc["boot"][s] \in BootPCs
          /\ pc["boot"][s] = "rmws" => s \notin inMap
          /\ pc["boot"][s] # "idle" => pc["stop"][s] = "idle"
      BY Known DEF BootOwner, StopOwner
    <3>1. /\ pc["boot"][s] \in {"d_stopped", "k_stopped"}
          /\ pc'["boot"][s] \in {"d_drop", "k_drop"}
          /\ pc'["boot"][s] = Following(pc["boot"][s])
          /\ pc["stop"][s] = "idle" /\ pc'["stop"][s] = "idle"
      BY <2>2, <2>3, <2>6, <3>0 DEF Procs
    <3>2. Owner(s)'
      <4>0. BootOwner(s) /\ StopOwner(s) /\ Unborn(s)
        BY Known
      <4>1. BootOwner(s)'
        BY <2>1, <2>4, <2>5, <3>1, <4>0, SMTT(30)
        DEF Following, Order, BootOwner, BootPCs, PreReady
      <4>2. StopOwner(s)'
        BY <2>1, <2>2, <2>3, <2>4, <2>5, <2>6, <3>1, <4>0
        DEF Following, Order, StopOwner, StopPCs
      <4>3. Unborn(s)'
        BY <2>1, <2>2, <2>3, <2>4, <2>5, <2>6, <3>1, <4>0 DEF Unborn
      <4> QED
        BY <4>1, <4>2, <4>3 DEF Owner
    <3>3. KeepSlot(s)
      BY <2>1, <2>4, <2>5, <3>0, <3>1 DEF Holds, BootHolding, StopHolding, KeepSlot, BootPCs
    <3> QED
      BY <1>b, <2>1, <2>2, <2>5, <3>2, <3>3 DEF Order
  <2>7. CASE g = "stop"
    <3>0. /\ pc["stop"][s] \in StopPCs
          /\ pc["stop"][s] # "idle" => pc["boot"][s] = "idle"
          /\ pc["stop"][s] \in {"k_kill", "k_snap", "k_free", "k_stopped"} =>
               sess[s].st = "stopping"
          /\ pc["stop"][s] = "k_drop" => sess[s].st = "stopped"
          /\ pc["stop"][s] \in {"k_delrow", "forget", "rmws"} => s \notin inMap
      BY Known DEF StopOwner
    <3>1. /\ pc["stop"][s] \in {"d_stopped", "k_stopped"}
          /\ pc'["stop"][s] \in {"d_drop", "k_drop"}
          /\ pc'["stop"][s] = Following(pc["stop"][s])
          /\ pc["boot"][s] = "idle" /\ pc'["boot"][s] = "idle"
      BY <2>2, <2>3, <2>7, <3>0 DEF Procs
    <3>2. Owner(s)'
      <4>0. BootOwner(s) /\ StopOwner(s) /\ Unborn(s)
        BY Known
      <4>1. BootOwner(s)'
        BY <2>1, <2>4, <2>5, <3>1, <4>0, SMTT(30)
        DEF Following, Order, BootOwner, BootPCs, PreReady
      <4>2. StopOwner(s)'
        BY <2>1, <2>2, <2>3, <2>4, <2>5, <2>7, <3>1, <4>0
        DEF Following, Order, StopOwner, StopPCs
      <4>3. Unborn(s)'
        BY <2>1, <2>2, <2>3, <2>4, <2>5, <2>7, <3>1, <4>0 DEF Unborn
      <4> QED
        BY <4>1, <4>2, <4>3 DEF Owner
    <3>3. KeepSlot(s)
      BY <2>1, <2>4, <2>5, <3>0, <3>1 DEF Holds, BootHolding, StopHolding, KeepSlot, StopPCs
    <3> QED
      BY <1>b, <2>1, <2>2, <2>5, <3>2, <3>3 DEF Order
  <2> QED
    BY <2>6, <2>7 DEF Procs
<1>23. CASE UNCHANGED vars
  BY <1>0, <1>23
  DEF vars, maps, host, bounds, SInv, Owner, BootOwner, StopOwner, Unborn, SlotInv, Holds
<1> QED
  BY <1>1, <1>2, <1>3, <1>4, <1>5, <1>6, <1>7, <1>8, <1>9, <1>10, <1>11, <1>12,
     <1>13, <1>14, <1>15, <1>16, <1>17, <1>18, <1>19, <1>20, <1>21, <1>22,
     <1>23
  DEF Serve, BootStep, AgentStep, TeardownStep, Procs

FirstLife == SInv /\ cursor = 0 /\ crashes = 0

\* In one life of the server there is no restart, no crash and no recovery.
LEMMA OneLifeSteps ==
  ASSUME OneLife, FirstLife, Next
  PROVE  Serve
<1>1. cursor = 0 /\ crashes = 0 /\ restarts = 0
  BY ConstantsAssumption DEF OneLife, FirstLife, SInv, TInv, TypeOK
<1>2. ~ \E s \in Sids : Restart(s)
  BY <1>1 DEF OneLife, Restart
<1>3. ~ \E reboot \in BOOLEAN : Crash(reboot)
  BY <1>1 DEF OneLife, Crash
<1>4. ~LoadStep
  BY <1>1, ConstantsAssumption
  DEF LoadStep, LoadNothing, LoadReady, LoadMidway, LoadTerminal, Loading, CleanupOrphans, Sids
<1> QED
  BY <1>2, <1>3, <1>4 DEF Next, Serve

\* A serving server is not recovering and does not crash.
LEMMA ServeBounds ==
  ASSUME [Serve]_vars
  PROVE  UNCHANGED <<cursor, crashes, restarts>>
<1> DEFINE Same == cursor' = cursor /\ crashes' = crashes /\ restarts' = restarts
<1>1. ASSUME NEW role \in Roles, NEW repo \in Repos, Create(role, repo)
      PROVE  Same
  BY <1>1 DEF Create, bounds
<1>2. ASSUME NEW s \in Sids, BootStep(s) \/ AgentStep(s) \/ Stop(s) \/ StopTerminal(s)
      PROVE  Same
  BY <1>2
  DEF BootStep, Upsert, Clone, CreateSnapshot, InjectNetworkConfig, Launch, WaitForSSH, Setup,
      FailRelease, FailTransition, AgentStep, AgentUsageLimit, AgentError, AgentDone, Stop,
      StopTerminal, bounds
<1>3. ASSUME NEW g \in Procs, NEW s \in Sids, TeardownStep(g, s) \/ Upsert(g, s)
      PROVE  Same
  BY <1>3
  DEF TeardownStep, StopVM, DeleteSnapshot, freeSlot, MarkStopped, DropFromMap, DeleteRow,
      CleanupWorkspace, Upsert, bounds
<1>4. ASSUME UNCHANGED vars PROVE Same
  BY <1>4 DEF vars, bounds
<1> HIDE DEF Same
<1>5. Same
  BY <1>1, <1>2, <1>3, <1>4 DEF Serve, Procs
<1> QED
  BY <1>5 DEF Same

LEMMA NextFirstLife ==
  ASSUME OneLife, FirstLife, [Next]_vars
  PROVE  FirstLife' /\ [Serve]_vars
<1>1. [Serve]_vars
  BY OneLifeSteps
<1>2. SInv'
  BY <1>1, ServeSInv DEF OneLife, FirstLife
<1> QED
  BY <1>1, <1>2, ServeBounds DEF FirstLife

LEMMA InitFirstLife == Init => FirstLife
  BY InitSInv DEF FirstLife, Init

\* The account of the slots and the order of boot, from the invariant.
LEMMA SlotsAreAccounted == SInv => SlotsAccounted
<1> SUFFICES ASSUME SInv PROVE SlotsAccounted
  OBVIOUS
<1>1. usedSlots = {sess[s].slot : s \in Holders}
  BY DEF SInv, SlotInv, Holders
<1> QED
  BY <1>1 DEF SInv, SlotInv, SlotsAccounted, Holders

LEMMA BootOwns == SInv => BootOwnsState
  BY DEF SInv, Owner, BootOwner, BootOwnsState, PreReady, CanTransition, validTransitions

\* In one life of the server, whatever fails and however its goroutines
\* interleave: usedSlots holds exactly the slots of the sessions that have yet
\* to free theirs, and no two sessions hold the same.  allocSlot never hands
\* out a slot that is in use, and no path frees a slot twice or forgets it.
THEOREM SlotsSafe == ASSUME OneLife PROVE Spec => []SlotsAccounted
<1>1. FirstLife => SlotsAccounted
  BY SlotsAreAccounted DEF FirstLife
<1>2. FirstLife /\ [Next]_vars => FirstLife'
  BY NextFirstLife
<1> QED
  BY InitFirstLife, <1>1, <1>2, PTL DEF Spec

\* In one life of the server boot is the only one to move a session that is
\* not ready yet: none of the transitions of the boot goroutine is refused.
THEOREM BootUndisturbed == ASSUME OneLife PROVE Spec => []BootOwnsState
<1>1. FirstLife => BootOwnsState
  BY BootOwns DEF FirstLife
<1>2. FirstLife /\ [Next]_vars => FirstLife'
  BY NextFirstLife
<1> QED
  BY InitFirstLife, <1>1, <1>2, PTL DEF Spec

====
