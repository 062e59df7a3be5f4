---- MODULE SnapshotManager ----
(***************************************************************************)
(* Per-session thin snapshots: internal/compute/firecracker/snapshot.go.   *)
(*                                                                         *)
(* The manager hands out thin volume ids from a counter it keeps in memory *)
(* and in a file, tells the pool to snapshot the base volume under that    *)
(* id, and maps a device of the session onto it.  Callers are goroutines   *)
(* of the session manager; dmsetup runs outside the manager's lock.  The   *)
(* pool and the device mapper are external: they refuse to create a volume *)
(* or device that exists and to delete a volume that a device uses.        *)
(***************************************************************************)
EXTENDS Integers

CONSTANTS
  Callers,     \* goroutines that use the manager
  Owners,      \* session ids
  BaseVol,     \* volume behind rubbish-base-ro
  MaxVolume,   \* bound: ids are handed out below it
  MaxStarts,   \* bound: starts of the server after the first
  DMFails      \* may dmsetup, blockdev or a write of the counter fail?

ASSUME SnapshotAssumption ==
  /\ BaseVol \in Nat
  /\ MaxVolume \in Nat
  /\ MaxStarts \in Nat
  /\ DMFails \in BOOLEAN

VARIABLES
  pool,    \* thin volumes that exist
  dev,     \* the volume under each session's device
  counter, \* the counter file: a number, or Unreadable
  next,    \* nextVolumeID
  known,   \* SnapshotManager.sessions
  pc, sid, vol,  \* per caller: place, session argument, local volID
  starts,
  lost     \* history: volumes of sessions that were in the pool when a process
           \* started on an emptied counter file

host   == <<pool, dev>>
locals == <<pc, sid, vol>>
snapVars == <<host, counter, next, known, locals, starts, lost>>

NoVol      == -1
Unreadable == -1
Volumes    == Nat
Results    == IF DMFails THEN BOOLEAN ELSE {TRUE}

CreatePCs == {"write", "snap", "size", "remove", "device", "record"}
DeletePCs == {"d_remove", "d_volume", "d_forget"}

----------------------------------------------------------------------------

\* Only the counter's write holds the lock across a blocking call.
Unlocked == \A c \in Callers : pc[c] # "write"

Creating(s) == \E c \in Callers : pc[c] \in CreatePCs /\ sid[c] = s
Deleting(s) == \E c \in Callers : pc[c] \in DeletePCs /\ sid[c] = s

Goto(c, place) == pc' = [pc EXCEPT ![c] = place]

\* The first start after setup-storage.sh.
SnapInit ==
  /\ pool = {BaseVol}
  /\ dev = [s \in Owners |-> NoVol]
  /\ counter = 2
  /\ next = 2
  /\ known = [s \in Owners |-> NoVol]
  /\ pc = [c \in Callers |-> "idle"]
  /\ sid \in [Callers -> Owners]
  /\ vol = [c \in Callers |-> NoVol]
  /\ starts = 0
  /\ lost = {}

\* CreateSnapshot under the lock, up to the write of the file, which empties
\* the file first: a write that fails or is cut off leaves the old content or
\* none.  A boot never creates while its session's snapshot is worked on.
CreateSnapshot(c, s) ==
  /\ pc[c] = "idle" /\ Unlocked
  /\ ~Creating(s) /\ ~Deleting(s)
  /\ next < MaxVolume
  /\ vol' = [vol EXCEPT ![c] = next]
  /\ sid' = [sid EXCEPT ![c] = s]
  /\ next' = next + 1
  /\ counter' \in {counter, Unreadable}
  /\ Goto(c, "write")
  /\ UNCHANGED <<host, known, starts, lost>>

\* Mutant: the id in use is written instead of the next one.
PersistCurrent(c) ==
  /\ pc[c] = "write"
  /\ counter' = vol[c]
  /\ Goto(c, "snap")
  /\ UNCHANGED <<host, next, known, sid, vol, starts, lost>>

PersistNext(c) ==
  /\ pc[c] = "write"
  /\ counter' = next
  /\ Goto(c, "snap")
  /\ UNCHANGED <<host, next, known, sid, vol, starts, lost>>

\* The write failed: the id is taken back in memory.
PersistFails(c) ==
  /\ pc[c] = "write"
  /\ DMFails
  /\ next' = next - 1
  /\ Goto(c, "idle")
  /\ UNCHANGED <<host, counter, known, sid, vol, starts, lost>>

\* dmsetup message create_snap.
CreateSnap(c) ==
  /\ pc[c] = "snap"
  /\ \E ok \in Results :
       IF ok /\ vol[c] \notin pool
         THEN pool' = pool \cup {vol[c]} /\ Goto(c, "size")
         ELSE Goto(c, "idle") /\ UNCHANGED pool
  /\ UNCHANGED <<dev, counter, next, known, sid, vol, starts, lost>>

\* dmsetup message delete: refused while a device uses the volume.
DeleteVolume(v) ==
  \E ok \in Results :
    pool' = IF ok /\ \A s \in Owners : dev[s] # v THEN pool \ {v} ELSE pool

BaseSize(c) ==
  /\ pc[c] = "size"
  /\ \E ok \in Results :
       IF ok THEN Goto(c, "remove") /\ UNCHANGED pool
             ELSE Goto(c, "idle") /\ DeleteVolume(vol[c])
  /\ UNCHANGED <<dev, counter, next, known, sid, vol, starts, lost>>

\* A stale device of the session is removed, its error ignored.
RemoveStale(c) ==
  /\ pc[c] = "remove"
  /\ \E ok \in Results : dev' = IF ok THEN [dev EXCEPT ![sid[c]] = NoVol] ELSE dev
  /\ Goto(c, "device")
  /\ UNCHANGED <<pool, counter, next, known, sid, vol, starts, lost>>

\* Mutant: the counter is read again, outside the lock.
CreateDeviceRereads(c) ==
  /\ pc[c] = "device"
  /\ \E ok \in Results :
       IF ok /\ dev[sid[c]] = NoVol
         THEN /\ dev' = [dev EXCEPT ![sid[c]] = next - 1]
              /\ Goto(c, "record")
              /\ UNCHANGED pool
         ELSE Goto(c, "idle") /\ DeleteVolume(vol[c]) /\ UNCHANGED dev
  /\ UNCHANGED <<counter, next, known, sid, vol, starts, lost>>

CreateDevice(c) ==
  /\ pc[c] = "device"
  /\ \E ok \in Results :
       IF ok /\ dev[sid[c]] = NoVol
         THEN /\ dev' = [dev EXCEPT ![sid[c]] = vol[c]]
              /\ Goto(c, "record")
              /\ UNCHANGED pool
         ELSE Goto(c, "idle") /\ DeleteVolume(vol[c]) /\ UNCHANGED dev
  /\ UNCHANGED <<counter, next, known, sid, vol, starts, lost>>

\* Mutant: the counter is read again for the entry.
RecordRereads(c) ==
  /\ pc[c] = "record" /\ Unlocked
  /\ known' = [known EXCEPT ![sid[c]] = next - 1]
  /\ Goto(c, "idle")
  /\ UNCHANGED <<host, counter, next, sid, vol, starts, lost>>

Record(c) ==
  /\ pc[c] = "record" /\ Unlocked
  /\ known' = [known EXCEPT ![sid[c]] = vol[c]]
  /\ Goto(c, "idle")
  /\ UNCHANGED <<host, counter, next, sid, vol, starts, lost>>

\* DeleteSnapshot looks the volume up (an unknown session is an error and
\* changes nothing).  Two goroutines may delete one snapshot at a time.
DeleteSnapshot(c, s) ==
  /\ pc[c] = "idle" /\ Unlocked
  /\ ~Creating(s)
  /\ known[s] # NoVol
  /\ vol' = [vol EXCEPT ![c] = known[s]]
  /\ sid' = [sid EXCEPT ![c] = s]
  /\ Goto(c, "d_remove")
  /\ UNCHANGED <<host, counter, next, known, starts, lost>>

\* dmsetup remove, then once more with --force.
RemoveDevice(c) ==
  /\ pc[c] = "d_remove"
  /\ \E ok \in Results : dev' = IF ok THEN [dev EXCEPT ![sid[c]] = NoVol] ELSE dev
  /\ Goto(c, "d_volume")
  /\ UNCHANGED <<pool, counter, next, known, sid, vol, starts, lost>>

RemoveVolume(c) ==
  /\ pc[c] = "d_volume"
  /\ DeleteVolume(vol[c])
  /\ Goto(c, "d_forget")
  /\ UNCHANGED <<dev, counter, next, known, sid, vol, starts, lost>>

\* The entry goes even when a command failed.
Forget(c) ==
  /\ pc[c] = "d_forget" /\ Unlocked
  /\ known' = [known EXCEPT ![sid[c]] = NoVol]
  /\ Goto(c, "idle")
  /\ UNCHANGED <<host, counter, next, sid, vol, starts, lost>>

----------------------------------------------------------------------------
(* A new server process. *)

readCounter == IF counter >= 2 THEN counter ELSE 2

\* discoverState raises a counter that fell behind the devices it has seen,
\* one device after the other, and writes it each time.
Reconciled(m, seen) ==
  LET behind == {dev[s] + 1 : s \in {x \in seen : dev[x] >= readCounter}} IN
  /\ m \in {readCounter} \cup behind
  /\ \A n \in behind : n <= m
  /\ counter' \in CASE behind = {} -> {counter}
                     [] DMFails -> {counter, Unreadable} \cup behind
                     [] OTHER -> {m}

\* The server ends with all its calls and newSnapshotManager runs before the
\* next one serves.  A device whose table cannot be read is skipped.  When the
\* host reboots, setup-storage.sh makes the pool anew with the base volume
\* alone and keeps the counter file.
NewSnapshotManager(reboot) ==
  /\ starts < MaxStarts
  /\ starts' = starts + 1
  /\ IF reboot
       THEN /\ pool' = {BaseVol}
            /\ dev' = [s \in Owners |-> NoVol]
            /\ known' = dev'
            /\ next' = readCounter
            /\ lost' = {}
            /\ UNCHANGED counter
       ELSE /\ \E seen \in IF DMFails THEN SUBSET Owners ELSE {Owners} :
                 /\ known' = [s \in Owners |-> IF s \in seen THEN dev[s] ELSE NoVol]
                 /\ \E m \in {readCounter} \cup {dev[s] + 1 : s \in seen} :
                      Reconciled(m, seen) /\ next' = m
            /\ lost' = IF counter = Unreadable THEN lost \cup (pool \ {BaseVol}) ELSE lost
            /\ UNCHANGED <<pool, dev>>
  /\ pc' = [c \in Callers |-> "idle"]
  /\ vol' = [c \in Callers |-> NoVol]
  /\ UNCHANGED sid

CallStep(c) ==
  \/ PersistNext(c) \/ PersistFails(c) \/ CreateSnap(c) \/ BaseSize(c)
  \/ RemoveStale(c) \/ CreateDevice(c) \/ Record(c)
  \/ RemoveDevice(c) \/ RemoveVolume(c) \/ Forget(c)

SnapNext ==
  \/ \E c \in Callers : \/ \E s \in Owners : CreateSnapshot(c, s) \/ DeleteSnapshot(c, s)
                        \/ CallStep(c)
  \/ \E reboot \in BOOLEAN : NewSnapshotManager(reboot)

SnapSpec == SnapInit /\ [][SnapNext]_snapVars

----------------------------------------------------------------------------
(* Properties. *)

\* Every variable has its type: the fields of SnapshotManager, the pool and
\* the devices, and the locals of the calls.
SnapTypeOK ==
  /\ pool \subseteq Nat
  /\ dev \in [Owners -> Nat \cup {NoVol}]
  /\ counter \in Nat \cup {Unreadable}
  /\ next \in Nat
  /\ known \in [Owners -> Nat \cup {NoVol}]
  /\ pc \in [Callers -> {"idle"} \cup CreatePCs \cup DeletePCs]
  /\ sid \in [Callers -> Owners]
  /\ vol \in [Callers -> Nat \cup {NoVol}]
  /\ starts \in 0 .. MaxStarts
  /\ lost \subseteq Nat

\* Each session's device has a volume of its own, and never the base image:
\* no session reads or writes another one's disk.
DisksIsolated ==
  \A s \in Owners : dev[s] # NoVol =>
    /\ dev[s] # BaseVol
    /\ dev[s] \in pool
    /\ \A t \in Owners : t # s => dev[t] # dev[s]

\* An id on its way to create_snap is the id of no volume: the counter is
\* ahead of the pool, whatever has failed or been left behind before.  The one
\* exception is a volume that a process found when it started on an emptied
\* counter file: it knows the devices, not what was left without one.
NoCollision ==
  \A c \in Callers : pc[c] \in {"write", "snap"} => vol[c] \notin pool \ lost

\* Between calls, a session's device is on the volume the manager has noted
\* for it, if it has noted one: DeleteSnapshot removes the disk in use and
\* not an earlier one.
KnownIsInUse ==
  \A s \in Owners : known[s] # NoVol /\ ~Creating(s) /\ ~Deleting(s) =>
    dev[s] \in {known[s], NoVol}

====
