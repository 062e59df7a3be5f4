---- MODULE SnapshotManagerProofs ----
(***************************************************************************)
(* Proofs about SnapshotManager, for every set of callers and sessions and *)
(* every behaviour of the device mapper.                                   *)
(***************************************************************************)
EXTENDS SnapshotManager, TLAPS

\* The places at which a call owns a volume that no device is on yet.
Owned == {"size", "remove", "device"}

\* Ids that calls work on and that the manager has noted were handed out by
\* this process, each to one creating call only.
FreshIds ==
  /\ \A c \in Callers : pc[c] # "idle" => vol[c] \in Nat /\ vol[c] < next
  /\ \A c \in Callers : pc[c] = "write" => vol[c] = next - 1
  /\ \A s \in Owners : known[s] < next
  /\ \A c, d \in Callers :
       c # d /\ pc[c] \in CreatePCs /\ pc[d] # "idle" => vol[c] # vol[d]
  /\ \A c \in Callers, s \in Owners : pc[c] \in CreatePCs => known[s] # vol[c]

\* The base volume is never one of them, and a creating call's volume is its
\* own until its device is made.
OwnVolumes ==
  /\ BaseVol \in pool
  /\ \A c \in Callers : pc[c] \in Owned =>
       vol[c] \in pool /\ \A s \in Owners : dev[s] # vol[c]
  /\ \A c \in Callers : pc[c] \in Owned \cup {"record"} \cup DeletePCs => vol[c] # BaseVol
  /\ \A s \in Owners : known[s] # BaseVol

SnapInv == SnapTypeOK /\ FreshIds /\ OwnVolumes /\ DisksIsolated

\* The first start satisfies the invariant.
LEMMA SnapInitInv == SnapInit => SnapInv
  BY SnapshotAssumption
  DEF SnapInit, SnapInv, SnapTypeOK, FreshIds, OwnVolumes, DisksIsolated, NoVol, Unreadable,
      Owned, CreatePCs, DeletePCs

\* Every step of every caller, and every new process, preserves it.
LEMMA SnapNextInv == SnapInv /\ [SnapNext]_snapVars => SnapInv'
<1> SUFFICES ASSUME SnapInv, [SnapNext]_snapVars PROVE SnapInv'
  OBVIOUS
<1> USE SnapshotAssumption
    DEF SnapInv, SnapTypeOK, FreshIds, OwnVolumes, DisksIsolated, NoVol, Unreadable,
        Owned, CreatePCs, DeletePCs, Goto
<1>1. ASSUME NEW c \in Callers, NEW s \in Owners, CreateSnapshot(c, s) PROVE SnapInv'
  BY <1>1 DEF CreateSnapshot, Unlocked, host
<1>2. ASSUME NEW c \in Callers, NEW s \in Owners, DeleteSnapshot(c, s) PROVE SnapInv'
  BY <1>2 DEF DeleteSnapshot, host
<1>3. ASSUME NEW c \in Callers, PersistNext(c) PROVE SnapInv'
  BY <1>3 DEF PersistNext, host
<1>4. ASSUME NEW c \in Callers, PersistFails(c) PROVE SnapInv'
  BY <1>4 DEF PersistFails, host
<1>5. ASSUME NEW c \in Callers, CreateSnap(c) PROVE SnapInv'
  <2>1. CASE vol[c] \notin pool /\ pool' = pool \cup {vol[c]} /\ Goto(c, "size")
    <3>1. pc[c] = "snap" /\ UNCHANGED <<dev, counter, next, known, sid, vol, starts, lost>>
      BY <1>5 DEF CreateSnap
    <3>2. SnapTypeOK'
      BY <2>1, <3>1
    <3>5. FreshIds'
      BY <2>1, <3>1
    <3>3. OwnVolumes'
      BY <2>1, <3>1
    <3>4. DisksIsolated'
      BY <2>1, <3>1
    <3> QED BY <3>2, <3>3, <3>4, <3>5
  <2>2. CASE pool' = pool /\ Goto(c, "idle")
    BY <1>5, <2>2 DEF CreateSnap
  <2> QED BY <1>5, <2>1, <2>2 DEF CreateSnap
<1>6. ASSUME NEW c \in Callers, BaseSize(c) PROVE SnapInv'
  <2>1. CASE pool' = pool /\ Goto(c, "remove")
    BY <1>6, <2>1 DEF BaseSize
  <2>2. CASE Goto(c, "idle") /\ DeleteVolume(vol[c])
    BY <1>6, <2>2 DEF BaseSize, DeleteVolume
  <2> QED BY <1>6, <2>1, <2>2 DEF BaseSize
<1>7. ASSUME NEW c \in Callers, RemoveStale(c) PROVE SnapInv'
  BY <1>7 DEF RemoveStale
<1>8. ASSUME NEW c \in Callers, CreateDevice(c) PROVE SnapInv'
  <2>1. CASE dev' = [dev EXCEPT ![sid[c]] = vol[c]] /\ Goto(c, "record") /\ pool' = pool
    BY <1>8, <2>1 DEF CreateDevice
  <2>2. CASE Goto(c, "idle") /\ DeleteVolume(vol[c]) /\ dev' = dev
    BY <1>8, <2>2 DEF CreateDevice, DeleteVolume
  <2> QED BY <1>8, <2>1, <2>2 DEF CreateDevice
<1>9. ASSUME NEW c \in Callers, Record(c) PROVE SnapInv'
  BY <1>9 DEF Record, host
<1>10. ASSUME NEW c \in Callers, RemoveDevice(c) PROVE SnapInv'
  BY <1>10 DEF RemoveDevice
<1>11. ASSUME NEW c \in Callers, RemoveVolume(c) PROVE SnapInv'
  BY <1>11 DEF RemoveVolume, DeleteVolume
<1>12. ASSUME NEW c \in Callers, Forget(c) PROVE SnapInv'
  BY <1>12 DEF Forget, host
<1>13. ASSUME NEW reboot \in BOOLEAN, NewSnapshotManager(reboot) PROVE SnapInv'
  <2>1. CASE reboot
    BY <1>13, <2>1 DEF NewSnapshotManager, readCounter
  <2>2. CASE ~reboot
    <3>1. PICK seen \in SUBSET Owners :
            /\ known' = [s \in Owners |-> IF s \in seen THEN dev[s] ELSE NoVol]
            /\ Reconciled(next', seen)
      BY <1>13, <2>2 DEF NewSnapshotManager
    <3>2. UNCHANGED <<pool, dev, sid>> /\ lost' \subseteq lost \cup pool
      BY <1>13, <2>2 DEF NewSnapshotManager
    <3>3. /\ pc' = [c \in Callers |-> "idle"]
          /\ vol' = [c \in Callers |-> NoVol]
          /\ starts' \in 0 .. MaxStarts
      BY <1>13 DEF NewSnapshotManager
    <3> DEFINE behind == {dev[s] + 1 : s \in {x \in seen : dev[x] >= readCounter}}
    <3>c. readCounter \in Nat /\ readCounter >= 2
      BY DEF readCounter
    <3>n. /\ next' \in {readCounter} \cup behind
          /\ \A n \in behind : n <= next'
          /\ counter' \in {counter, Unreadable, next'} \cup behind
      BY <3>1 DEF Reconciled
    <3>b. behind \subseteq Nat /\ \A n \in behind : n > readCounter
      BY <3>c
    <3>u. \A s \in seen : dev[s] < readCounter \/ dev[s] + 1 \in behind
      BY <3>c
    <3>4. next' \in Nat /\ next' >= 2 /\ \A s \in seen : dev[s] < next'
      <4> HIDE DEF behind
      <4>1. next' \in Nat /\ next' >= readCounter
        BY <3>c, <3>n, <3>b
      <4>2. ASSUME NEW s \in seen PROVE dev[s] < next'
        BY <4>1, <3>c, <3>n, <3>b, <3>u
      <4> QED BY <4>1, <4>2, <3>c
    <3>5. counter' \in Nat \cup {Unreadable}
      <4> HIDE DEF behind
      <4> QED BY <3>n, <3>b, <3>4
    <3>6. SnapTypeOK'
      BY <3>1, <3>2, <3>3, <3>4, <3>5
    <3>7. FreshIds'
      BY <3>1, <3>3, <3>4
    <3>8. OwnVolumes' /\ DisksIsolated'
      BY <3>1, <3>2, <3>3
    <3> QED BY <3>6, <3>7, <3>8
  <2> QED BY <2>1, <2>2
<1>14. CASE UNCHANGED snapVars
  BY <1>14 DEF snapVars, host, locals
<1> QED
  BY <1>1, <1>2, <1>3, <1>4, <1>5, <1>6, <1>7, <1>8, <1>9, <1>10, <1>11, <1>12,
     <1>13, <1>14
  DEF SnapNext, CallStep

\* The device mapper may fail in every way modelled and the counter file be
\* emptied by a write: the variables keep their types.
THEOREM TypeCorrect == SnapSpec => []SnapTypeOK
<1>1. SnapInv => SnapTypeOK
  BY DEF SnapInv
<1> QED BY SnapInitInv, SnapNextInv, <1>1, PTL DEF SnapSpec

\* No two sessions ever have a disk in common, and none has the base image
\* under its device, even when ids are handed out again after the counter
\* file was emptied.
THEOREM Isolation == SnapSpec => []DisksIsolated
<1>1. SnapInv => DisksIsolated
  BY DEF SnapInv
<1> QED BY SnapInitInv, SnapNextInv, <1>1, PTL DEF SnapSpec

----------------------------------------------------------------------------
(* The counter and the pool. *)

\* What the process has in memory is above every volume that was not there
\* when the file was found empty, and so is the file unless it is empty again;
\* an id on its way is above the file until it is persisted.
CounterAhead ==
  /\ \A v \in pool \ lost : v < next
  /\ readCounter <= next
  /\ counter # Unreadable => counter >= 2 /\ \A v \in pool \ lost : v < counter
  /\ \A c \in Callers : pc[c] = "write" =>
       vol[c] \notin pool \ lost /\ readCounter <= vol[c]
  /\ \A c \in Callers : pc[c] = "snap" =>
       vol[c] \notin pool \ lost /\ (counter # Unreadable => vol[c] < counter)

\* The counter survives every failure of a command and every new process.
LEMMA NextCounterAhead ==
  ASSUME BaseVol < 2, SnapInv, CounterAhead, [SnapNext]_snapVars
  PROVE  CounterAhead'
<1> USE SnapshotAssumption
    DEF SnapInv, SnapTypeOK, FreshIds, CounterAhead, readCounter, NoVol, Unreadable,
        CreatePCs, DeletePCs, Goto
<1>1. ASSUME NEW c \in Callers, NEW s \in Owners, CreateSnapshot(c, s) PROVE CounterAhead'
  BY <1>1 DEF CreateSnapshot, Unlocked, host
<1>2. ASSUME NEW c \in Callers, NEW s \in Owners, DeleteSnapshot(c, s) PROVE CounterAhead'
  BY <1>2 DEF DeleteSnapshot, host
<1>3. ASSUME NEW c \in Callers, PersistNext(c) PROVE CounterAhead'
  BY <1>3 DEF PersistNext, host
<1>4. ASSUME NEW c \in Callers, PersistFails(c) PROVE CounterAhead'
  BY <1>4 DEF PersistFails, host
<1>5. ASSUME NEW c \in Callers, CreateSnap(c) PROVE CounterAhead'
  <2>1. pc[c] = "snap" /\ UNCHANGED <<dev, counter, next, known, sid, vol, starts, lost>>
    BY <1>5 DEF CreateSnap
  <2>2. \/ pool' = pool \cup {vol[c]} /\ Goto(c, "size")
        \/ pool' = pool /\ Goto(c, "idle")
    BY <1>5 DEF CreateSnap
  <2> QED BY <2>1, <2>2
<1>6. ASSUME NEW c \in Callers, BaseSize(c) \/ RemoveStale(c) \/ CreateDevice(c) \/ Record(c)
      PROVE CounterAhead'
  <2>1. pool' \subseteq pool /\ UNCHANGED <<counter, next, vol, lost>>
    BY <1>6 DEF BaseSize, RemoveStale, CreateDevice, Record, DeleteVolume, host
  <2>2. \E place \in {"idle", "remove", "device", "record"} : Goto(c, place)
    BY <1>6 DEF BaseSize, RemoveStale, CreateDevice, Record
  <2> QED BY <2>1, <2>2
<1>7. ASSUME NEW c \in Callers, RemoveDevice(c) \/ RemoveVolume(c) \/ Forget(c)
      PROVE CounterAhead'
  <2>1. pool' \subseteq pool /\ UNCHANGED <<counter, next, vol, lost>>
    BY <1>7 DEF RemoveDevice, RemoveVolume, Forget, DeleteVolume, host
  <2>2. \E place \in {"idle", "d_volume", "d_forget"} : Goto(c, place)
    BY <1>7 DEF RemoveDevice, RemoveVolume, Forget
  <2> QED BY <2>1, <2>2
<1>8. ASSUME NEW reboot \in BOOLEAN, NewSnapshotManager(reboot) PROVE CounterAhead'
  <2>1. \A c \in Callers : pc'[c] = "idle"
    BY <1>8 DEF NewSnapshotManager
  <2>2. CASE reboot
    BY <1>8, <2>1, <2>2 DEF NewSnapshotManager
  <2>3. CASE ~reboot
    <3>0. PICK seen \in SUBSET Owners : Reconciled(next', seen)
      BY <1>8, <2>3 DEF NewSnapshotManager
    <3>1. pool' = pool /\ next' \in Nat /\ readCounter <= next'
      BY <1>8, <2>3, <3>0 DEF NewSnapshotManager, Reconciled
    <3>2. counter' \in Nat \cup {Unreadable} /\ (counter' # Unreadable => readCounter <= counter')
      BY <3>0, <3>1 DEF Reconciled
    <3>3. counter' # Unreadable => counter' <= next'
      BY <3>0, <3>1 DEF Reconciled
    <3>4. \A v \in pool \ lost' : v < readCounter
      BY <1>8, <2>3 DEF NewSnapshotManager
    <3> QED BY <2>1, <3>1, <3>2, <3>3, <3>4
  <2> QED BY <2>2, <2>3
<1>9. CASE UNCHANGED snapVars
  BY <1>9 DEF snapVars, host, locals
<1> QED BY <1>1, <1>2, <1>3, <1>4, <1>5, <1>6, <1>7, <1>8, <1>9 DEF SnapNext, CallStep

\* With the base image below the first session volume, create_snap is never
\* asked for an id that exists, whatever devices and volumes earlier failures
\* have left behind, unless it was there when a process started on an emptied
\* counter file.
THEOREM CounterSafe == ASSUME BaseVol < 2 PROVE SnapSpec => []NoCollision
<1>1. SnapInit => CounterAhead
  BY SnapshotAssumption DEF SnapInit, CounterAhead, readCounter, Unreadable
<1>2. SnapInv /\ CounterAhead => NoCollision
  BY DEF CounterAhead, NoCollision
<1>3. SnapInv /\ CounterAhead /\ [SnapNext]_snapVars => CounterAhead'
  BY NextCounterAhead
<1> QED BY SnapInitInv, SnapNextInv, <1>1, <1>2, <1>3, PTL DEF SnapSpec

----------------------------------------------------------------------------
(* What the manager has noted. *)

\* A call that creates a session's snapshot is the only call about it; its
\* device is on its volume when it comes to record it; and what is recorded
\* is under the device, or nothing is, unless such a call is about to record.
NotedInUse ==
  /\ \A c, d \in Callers :
       c # d /\ pc[c] \in CreatePCs /\ pc[d] # "idle" => sid[c] # sid[d]
  /\ \A c \in Callers : pc[c] = "record" => dev[sid[c]] = vol[c]
  /\ \A s \in Owners : known[s] # NoVol =>
       \/ dev[s] \in {known[s], NoVol}
       \/ \E c \in Callers : pc[c] = "record" /\ sid[c] = s

\* Every step preserves it: a stale device that cannot be removed keeps the
\* next one from being made, and a failed creation leaves the note alone.
LEMMA NextNotedInUse ==
  ASSUME SnapInv, NotedInUse, [SnapNext]_snapVars
  PROVE  NotedInUse'
<1> USE SnapshotAssumption DEF SnapInv, SnapTypeOK, NotedInUse, NoVol, CreatePCs, DeletePCs, Goto
<1>1. ASSUME NEW c \in Callers, NEW s \in Owners, CreateSnapshot(c, s) PROVE NotedInUse'
  BY <1>1 DEF CreateSnapshot, Creating, Deleting, host
<1>2. ASSUME NEW c \in Callers, NEW s \in Owners, DeleteSnapshot(c, s) PROVE NotedInUse'
  BY <1>2 DEF DeleteSnapshot, Creating, host
<1>3. ASSUME NEW c \in Callers, PersistNext(c) \/ PersistFails(c) PROVE NotedInUse'
  BY <1>3 DEF PersistNext, PersistFails, host
<1>4. ASSUME NEW c \in Callers, CreateSnap(c) \/ BaseSize(c) PROVE NotedInUse'
  <2>1. pc[c] \in {"snap", "size"} /\ UNCHANGED <<dev, known, sid, vol>>
    BY <1>4 DEF CreateSnap, BaseSize
  <2>2. \E place \in {"idle", "size", "remove"} : Goto(c, place)
    BY <1>4 DEF CreateSnap, BaseSize
  <2> QED BY <2>1, <2>2
<1>5. ASSUME NEW c \in Callers, RemoveStale(c) \/ RemoveDevice(c) PROVE NotedInUse'
  <2>1. pc[c] \in {"remove", "d_remove"} /\ UNCHANGED <<known, sid, vol>>
    BY <1>5 DEF RemoveStale, RemoveDevice
  <2>2. dev' = [dev EXCEPT ![sid[c]] = NoVol] \/ dev' = dev
    BY <1>5 DEF RemoveStale, RemoveDevice
  <2>3. \E place \in {"device", "d_volume"} :
          Goto(c, place) /\ (place = "device" <=> pc[c] = "remove")
    BY <1>5 DEF RemoveStale, RemoveDevice
  <2>4. \A d \in Callers : pc'[d] = "record" <=> pc[d] = "record"
    BY <2>1, <2>3
  <2>5. \A d \in Callers : pc[d] = "record" => sid[d] # sid[c]
    BY <2>1
  <2> QED BY <2>1, <2>2, <2>3, <2>4, <2>5
<1>6. ASSUME NEW c \in Callers, CreateDevice(c) PROVE NotedInUse'
  <2>1. pc[c] = "device" /\ UNCHANGED <<known, sid, vol>>
    BY <1>6 DEF CreateDevice
  <2>2. CASE dev' = [dev EXCEPT ![sid[c]] = vol[c]] /\ Goto(c, "record")
    BY <2>1, <2>2
  <2>3. CASE Goto(c, "idle") /\ dev' = dev
    BY <2>1, <2>3
  <2> QED BY <1>6, <2>2, <2>3 DEF CreateDevice
<1>7. ASSUME NEW c \in Callers, Record(c) \/ RemoveVolume(c) \/ Forget(c) PROVE NotedInUse'
  BY <1>7 DEF Record, RemoveVolume, Forget, host
<1>8. ASSUME NEW reboot \in BOOLEAN, NewSnapshotManager(reboot) PROVE NotedInUse'
  BY <1>8 DEF NewSnapshotManager
<1>9. CASE UNCHANGED snapVars
  BY <1>9 DEF snapVars, host, locals
<1> QED BY <1>1, <1>2, <1>3, <1>4, <1>5, <1>6, <1>7, <1>8, <1>9 DEF SnapNext, CallStep

\* Between calls the volume that DeleteSnapshot would remove is the one under
\* the session's device, whatever commands have failed, and after a new
\* process that could not read some of the tables.
THEOREM NotesAreInUse == SnapSpec => []KnownIsInUse
<1>1. SnapInit => NotedInUse
  BY DEF SnapInit, NotedInUse, CreatePCs
<1>2. SnapInv /\ NotedInUse => KnownIsInUse
  BY DEF NotedInUse, KnownIsInUse, Creating, CreatePCs
<1>3. SnapInv /\ NotedInUse /\ [SnapNext]_snapVars => NotedInUse'
  BY NextNotedInUse
<1> QED BY SnapInitInv, SnapNextInv, <1>1, <1>2, <1>3, PTL DEF SnapSpec

====
