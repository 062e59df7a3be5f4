---- MODULE SessionVMProofs ----
(***************************************************************************)
(* What the sessions have on the host (VMs, TAP devices, snapshots and     *)
(* workspaces) and in the store, for every number of sessions and slots    *)
(* and every interleaving.  The lemmas are about the steps of a server     *)
(* that serves (Serve), the theorems about one life of it (OneLife); the   *)
(* theorems about later lives are in SessionRecoveryProofs.                *)
(*                                                                         *)
(* No checkout fails here (WorkspacesWork): the error path of the          *)
(* workspace leaves the VM and the snapshot behind.                        *)
(***************************************************************************)
EXTENDS SessionManagerProofs

WorkspacesWork == TRUE \in Repos => {"clone", "mount"} \cap Faults = {}

\* Ready, and nobody is at work on it.
AtRest(s) == s \in inMap /\ sess[s].st = "ready" /\ pc["boot"][s] = "idle"

\* By the places of its goroutines: the session has its VM, has its snapshot,
\* is to have its workspace.
RunsVM(s) ==
  \/ pc["boot"][s] \in {"ssh", "setup", "agent", "f_kill", "u_kill", "d_kill"}
  \/ pc["stop"][s] = "k_kill"
  \/ AtRest(s)

HasSnap(s) ==
  \/ RunsVM(s)
  \/ pc["boot"][s] \in {"inject", "launch", "f_snap", "u_snap", "d_snap"}
  \/ pc["stop"][s] = "k_snap"

Mounting == {"snapshot", "inject", "launch", "ssh", "setup"}

NeedsWorkspace(s) == pc["boot"][s] \in Mounting \/ RunsVM(s)

\* What the places say is what is there: one VM, in the session's slot, for
\* which the session has a handle and whose TAP device is up; a snapshot, and
\* none without a reason before the first crash; a workspace, which is not
\* there before boot clones it, and which boot knows of until it has mounted it.
Host(s) ==
  /\ \A k \in Nat : <<s, k>> \in vms <=> RunsVM(s) /\ k = sess[s].slot
  /\ RunsVM(s) => sess[s].v # "none" /\ sess[s].slot \in taps
  /\ HasSnap(s) => s \in snaps
  /\ crashes = 0 /\ s \in snaps => HasSnap(s)
  /\ NeedsWorkspace(s) /\ sess[s].repo => s \in workspaces
  /\ pc["boot"][s] \in Mounting /\ sess[s].repo => sess[s].wsp
  /\ pc["boot"][s] = "clone" \/ s > created => s \notin workspaces
  /\ sess[s].repo \/ s \in workspaces => TRUE \in Repos
  /\ pc["stop"][s] \in {"k_kill", "k_snap", "k_free", "k_stopped", "k_drop"} => s \in inMap

HInv == \A s \in Sids : Host(s)

----------------------------------------------------------------------------
(* What a step leaves alone. *)

SameSession(t) ==
  /\ pc'["boot"][t] = pc["boot"][t] /\ pc'["stop"][t] = pc["stop"][t]
  /\ sess'[t] = sess[t] /\ (t \in inMap' <=> t \in inMap)

SameHost(t) ==
  /\ \A k \in Nat : <<t, k>> \in vms' <=> <<t, k>> \in vms
  /\ t \in snaps' <=> t \in snaps
  /\ t \in workspaces' <=> t \in workspaces
  /\ RunsVM(t) /\ sess[t].slot \in taps => sess[t].slot \in taps'

LEMMA HostFrame ==
  ASSUME NEW t \in Sids, Host(t), SameSession(t), SameHost(t),
         created \in Int, created' \in Int, created <= created', crashes' = crashes
  PROVE  Host(t)'
<1>1. /\ RunsVM(t)' <=> RunsVM(t)
      /\ HasSnap(t)' <=> HasSnap(t)
      /\ NeedsWorkspace(t)' <=> NeedsWorkspace(t)
  BY DEF RunsVM, HasSnap, NeedsWorkspace, AtRest, SameSession
<1>2. t > created' => t > created
  BY DEF Sids
<1> QED
  BY <1>1, <1>2 DEF Host, SameSession, SameHost

\* The step of goroutine g of session s to place c.
LEMMA HostStep ==
  ASSUME SInv, HInv, NEW g \in Procs, NEW s \in Sids, NEW c \in PCs, Goto(g, s, c),
         \A t \in Sids : t # s => sess'[t] = sess[t] /\ (t \in inMap' <=> t \in inMap),
         \A t \in Sids : t # s => SameHost(t),
         created' = created, crashes' = crashes, Host(s)'
  PROVE  HInv'
<1>1. \A h \in Procs, t \in Sids : t # s => pc'[h][t] = pc[h][t]
  BY Known, GotoEffect
<1>2. created \in Int
  BY DEF SInv, TInv, TypeOK
<1>3. ASSUME NEW t \in Sids, t # s PROVE Host(t)'
  <2>1. SameSession(t)
    BY <1>1, <1>3 DEF SameSession, Procs
  <2> QED
    BY <1>2, <1>3, <2>1, HostFrame DEF HInv
<1> QED
  BY <1>3 DEF HInv

LEMMA HostUntouched ==
  ASSUME UNCHANGED host, NEW t \in Sids
  PROVE  SameHost(t)
  BY DEF SameHost, host

\* The fields of a Session object that the host's part depends on.
SameObject(s) ==
  sess'[s].slot = sess[s].slot /\ sess'[s].v = sess[s].v /\ sess'[s].wsp = sess[s].wsp
  /\ sess'[s].repo = sess[s].repo

\* A step that touches nothing on the host, between places that say the same.
LEMMA Moves ==
  ASSUME SInv, HInv, NEW g \in Procs, NEW s \in Sids, NEW c \in PCs, Goto(g, s, c),
         UNCHANGED host, created' = created, crashes' = crashes,
         \A t \in Sids : t # s => sess'[t] = sess[t] /\ (t \in inMap' <=> t \in inMap),
         SameObject(s),
         RunsVM(s)' <=> RunsVM(s), HasSnap(s)' <=> HasSnap(s),
         pc'["boot"][s] \in Mounting => pc["boot"][s] \in Mounting, pc'["boot"][s] # "clone",
         pc'["stop"][s] \in {"k_kill", "k_snap", "k_free", "k_stopped", "k_drop"} => s \in inMap'
  PROVE  HInv'
<1>1. Host(s)'
  <2>1. Host(s) /\ (NeedsWorkspace(s)' => NeedsWorkspace(s))
    BY DEF HInv, NeedsWorkspace
  <2> QED
    BY <2>1 DEF Host, SameObject, host
<1> QED
  BY <1>1, HostUntouched, HostStep

LEMMA InitHInv == Init => HInv
<1> SUFFICES ASSUME Init, NEW s \in Sids PROVE Host(s)
  BY DEF HInv
<1>1. pc["boot"][s] = "idle" /\ pc["stop"][s] = "idle" /\ s \notin inMap /\ ~sess[s].repo
  BY DEF Init, Procs, NoSession
<1>2. ~RunsVM(s) /\ ~HasSnap(s) /\ ~NeedsWorkspace(s)
  BY <1>1 DEF RunsVM, HasSnap, NeedsWorkspace, AtRest, Mounting
<1> QED
  BY <1>1, <1>2 DEF Init, Host, Mounting

\* What a legal Transition keeps.
LEMMA TransitionKeeps ==
  ASSUME SInv, NEW g \in Procs, NEW s \in Sids, NEW to, Transition(g, s, to)
  PROVE  /\ SameObject(s) /\ sess'[s].st = to /\ sess'[s].role = sess[s].role
         /\ sess'[s].res = sess[s].res
         /\ \A t \in Sids : t # s => sess'[t] = sess[t]
<1>1. sess' = [sess EXCEPT ![s] = [sess[s] EXCEPT !.st = to]]
  BY DEF Transition
<1>2. sess[s] \in Session /\ sess \in [Sids -> Session]
  BY Known
<1>3. sess'[s] = [sess[s] EXCEPT !.st = to]
  BY <1>1, <1>2
<1> QED
  BY <1>1, <1>2, <1>3 DEF Session, SameObject

\* What a call of Stop keeps.
LEMMA StopKeeps ==
  ASSUME SInv, NEW s \in Sids, StopAccepted(s)
  PROVE  /\ SameObject(s) /\ sess[s].st = "ready" /\ sess'[s].st = "stopping"
         /\ sess'[s].role = sess[s].role
         /\ \A t \in Sids : t # s => sess'[t] = sess[t]
         /\ s \in inMap /\ pc["stop"][s] = "idle" /\ persistSession("stop", s)
<1>1. sess' = [sess EXCEPT ![s] = [sess[s] EXCEPT !.st = "stopping", !.asked = Asked(s)]]
  BY DEF StopAccepted
<1>2. sess[s] \in Session /\ sess \in [Sids -> Session] /\ pend \in PendType
  BY Known
<1>3. sess'[s] = [sess[s] EXCEPT !.st = "stopping", !.asked = Asked(s)]
  BY <1>1, <1>2
<1>4. sess[s].st = "ready"
  BY <1>2, StopEffect
<1> QED
  BY <1>1, <1>2, <1>3, <1>4 DEF Session, SameObject, StopAccepted, StopCallable

LEMMA StopTerminalKeeps ==
  ASSUME SInv, NEW s \in Sids, StopTerminal(s)
  PROVE  /\ SameObject(s) /\ sess[s].st \in {"stopped", "failed"} /\ sess'[s].st = sess[s].st
         /\ sess'[s].role = sess[s].role
         /\ \A t \in Sids : t # s => sess'[t] = sess[t]
<1>1. sess' = [sess EXCEPT ![s] = [sess[s] EXCEPT !.asked = Asked(s)]]
  BY DEF StopTerminal
<1>2. sess[s] \in Session /\ sess \in [Sids -> Session]
  BY Known
<1>3. sess'[s] = [sess[s] EXCEPT !.asked = Asked(s)]
  BY <1>1, <1>2
<1> QED
  BY <1>1, <1>2, <1>3 DEF Session, SameObject, StopTerminal

\* What is known of a session that boot, or stop, is at work on.
LEMMA BootAtWork ==
  ASSUME SInv, NEW s \in Sids, pc["boot"][s] # "idle"
  PROVE  pc["stop"][s] = "idle" /\ (pc["boot"][s] # "rmws" => s \in inMap)
  BY Known DEF StopOwner, BootOwner

LEMMA Goes ==
  ASSUME SInv, NEW g \in Procs, NEW s \in Sids, NEW c \in PCs, Goto(g, s, c)
  PROVE  /\ g = "boot" => pc'["boot"][s] = c /\ pc'["stop"][s] = pc["stop"][s]
         /\ g = "stop" => pc'["stop"][s] = c /\ pc'["boot"][s] = pc["boot"][s]
  BY Known, GotoEffect DEF Procs

----------------------------------------------------------------------------

LEMMA CreateHost ==
  ASSUME SInv, SInv', HInv, NEW role \in Roles, NEW repo \in Repos, Create(role, repo)
  PROVE  HInv'
<1> USE ConstantsAssumption
<1>1. PICK s \in Sids : s = created + 1
  BY DEF Create, Sids, SInv, TInv, TypeOK
<1>2. /\ created \in Int /\ created' = s /\ UNCHANGED host /\ inMap' = inMap \cup {s}
      /\ crashes' = crashes
  BY <1>1 DEF Create, SInv, TInv, TypeOK, bounds
<1>3. PICK i \in SlotCandidates :
        sess' = [sess EXCEPT ![s] = [NoSession EXCEPT
                   !.slot = i, !.st = "provisioning", !.role = role, !.repo = repo]]
  BY <1>1 DEF Create
<1>4. /\ pc'["boot"][s] = "clone" /\ pc'["stop"][s] = pc["stop"][s]
      /\ \A h \in Procs, t \in Sids : t # s => pc'[h][t] = pc[h][t]
  <2>1. Goto("boot", s, "clone") /\ "clone" \in PCs /\ "boot" \in Procs /\ "stop" \in Procs
    BY <1>1 DEF Create, PCs, Procs
  <2>2. pc \in [Procs -> [Sids -> PCs]]
    BY Known
  <2> QED
    BY <2>1, <2>2, GotoEffect
<1>5. /\ sess'[s].repo = repo
      /\ \A t \in Sids : t # s => sess'[t] = sess[t]
  BY <1>3, Known DEF NoSession
<1>6. pc["boot"][s] = "idle" /\ pc["stop"][s] = "idle" /\ s \notin inMap /\ s > created
  BY <1>1, <1>2, Known DEF Unborn
<1>7. ~RunsVM(s) /\ ~HasSnap(s) /\ s \notin workspaces
  BY <1>6 DEF RunsVM, HasSnap, AtRest, HInv, Host
<1>8. ~RunsVM(s)' /\ ~HasSnap(s)' /\ ~NeedsWorkspace(s)'
  BY <1>4, <1>6 DEF RunsVM, HasSnap, NeedsWorkspace, AtRest, Mounting
<1>9. Host(s)'
  <2>1. sess'[s].repo => TRUE \in Repos
    BY <1>5
  <2> QED
    BY <1>2, <1>4, <1>6, <1>7, <1>8, <2>1 DEF Host, HInv, host, Mounting
<1>10. ASSUME NEW t \in Sids, t # s PROVE Host(t)'
  <2>1. SameSession(t)
    BY <1>2, <1>4, <1>5, <1>10 DEF SameSession, Procs
  <2>2. created' \in Int /\ created <= created'
    BY <1>1, <1>2 DEF Sids
  <2> QED
    BY <1>2, <2>1, <2>2, HostUntouched, HostFrame DEF HInv
<1> QED
  BY <1>9, <1>10 DEF HInv

LEMMA StopHost ==
  ASSUME ~StopMidRun, SInv, HInv, NEW s \in Sids, Stop(s)
  PROVE  HInv'
<1>1. /\ UNCHANGED <<created, inMap, crashes>> /\ UNCHANGED host /\ s \in inMap
      /\ pc["stop"][s] = "idle" /\ Goto("stop", s, "k_kill") /\ StopAccepted(s)
  BY DEF Stop, StopAccepted, StopCallable, maps, bounds
<1>2. sess[s].st = "ready" /\ pc["boot"][s] = "idle"
  <2>1. sess[s].st = "ready"
    BY <1>1, StopKeeps
  <2> QED
    BY <2>1, Known DEF Stop, StopAccepted, StopCallable, AgentAtWork, BootOwner, BootPCs, PreReady
<1>3. pc'["stop"][s] = "k_kill" /\ pc'["boot"][s] = "idle"
  BY <1>1, <1>2, Goes DEF Procs, PCs
<1>4. /\ SameObject(s) /\ sess'[s].st = "stopping"
      /\ \A t \in Sids : t # s => sess'[t] = sess[t]
  BY <1>1, StopKeeps
<1>5. RunsVM(s) /\ RunsVM(s)' /\ HasSnap(s) /\ HasSnap(s)'
  BY <1>1, <1>2, <1>3 DEF RunsVM, HasSnap, AtRest
<1> QED
  BY <1>1, <1>3, <1>4, <1>5, Moves DEF Procs, PCs, Mounting

LEMMA StopTerminalHost ==
  ASSUME ~StopMidRun, SInv, HInv, NEW s \in Sids, StopTerminal(s)
  PROVE  HInv'
<1>1. /\ UNCHANGED <<created, crashes>> /\ UNCHANGED host /\ inMap' = inMap \ {s}
      /\ sess[s].st \in {"stopped", "failed"} /\ pc["stop"][s] = "idle"
      /\ Goto("stop", s, "forget") /\ SameObject(s) /\ sess'[s].st = sess[s].st
      /\ \A t \in Sids : t # s => sess'[t] = sess[t]
  BY StopTerminalKeeps DEF StopTerminal, StopCallable, bounds
<1>2. pc["boot"][s] = "idle"
  BY <1>1, Known DEF StopTerminal, StopCallable, AgentAtWork, BootOwner, BootPCs, PreReady
<1>3. pc'["stop"][s] = "forget" /\ pc'["boot"][s] = "idle"
  BY <1>1, <1>2, Goes DEF Procs, PCs
<1>4. ~RunsVM(s) /\ ~RunsVM(s)' /\ ~HasSnap(s) /\ ~HasSnap(s)'
  BY <1>1, <1>2, <1>3 DEF RunsVM, HasSnap, AtRest
<1> QED
  BY <1>1, <1>3, <1>4, Moves DEF Procs, PCs, Mounting

LEMMA IdleHost ==
  ASSUME SInv, HInv, UNCHANGED <<created, inMap, sess, pc, crashes>>, UNCHANGED host
  PROVE  HInv'
<1>1. created \in Int /\ created' = created
  BY DEF SInv, TInv, TypeOK
<1>2. ASSUME NEW t \in Sids PROVE Host(t)'
  <2>1. SameSession(t) /\ SameHost(t)
    BY HostUntouched DEF SameSession
  <2> QED
    BY <1>1, <2>1, HostFrame DEF HInv
<1> QED
  BY <1>2 DEF HInv

LEMMA UpsertHost ==
  ASSUME SInv, HInv, NEW g \in Procs, NEW s \in Sids, Upsert(g, s)
  PROVE  HInv'
<1>1. UNCHANGED <<created, inMap, sess, pc, crashes>> /\ UNCHANGED host
  BY DEF Upsert, maps, bounds
<1> QED
  BY <1>1, IdleHost

LEMMA CloneHost ==
  ASSUME WorkspacesWork, SInv, HInv, NEW s \in Sids, Clone(s)
  PROVE  HInv'
<1>1. /\ UNCHANGED <<created, inMap, vms, taps, snaps, crashes>> /\ pc["boot"][s] = "clone"
      /\ Goto("boot", s, "snapshot")
  BY DEF Clone, At, maps, bounds
<1>2. pc'["boot"][s] = "snapshot" /\ pc'["stop"][s] = "idle" /\ pc["stop"][s] = "idle"
  BY <1>1, Goes, BootAtWork DEF Procs, PCs
<1>3. Host(s)
  BY DEF HInv
<1>4. s \notin workspaces /\ (sess[s].repo => Tries("clone") = {TRUE})
  BY <1>1, <1>3 DEF Host, WorkspacesWork, Tries
<1>5. \/ /\ sess[s].repo /\ workspaces' = workspaces \cup {s}
         /\ sess' = [sess EXCEPT ![s].wsp = TRUE]
      \/ ~sess[s].repo /\ UNCHANGED <<workspaces, sess>>
  BY <1>4 DEF Clone
<1>6. /\ sess'[s].slot = sess[s].slot /\ sess'[s].v = sess[s].v /\ sess'[s].repo = sess[s].repo
      /\ sess[s].repo => s \in workspaces' /\ sess'[s].wsp
      /\ \A t \in Sids : t # s => sess'[t] = sess[t]
  <2>1. sess[s] \in Session /\ sess \in [Sids -> Session]
    BY Known
  <2>2. CASE sess' = [sess EXCEPT ![s].wsp = TRUE]
    BY <1>4, <1>5, <2>1, <2>2 DEF Session
  <2> QED
    BY <1>5, <2>2
<1>7. ~RunsVM(s) /\ ~RunsVM(s)' /\ ~HasSnap(s) /\ ~HasSnap(s)'
  BY <1>1, <1>2 DEF RunsVM, HasSnap, AtRest
<1>8. ~(s > created)
  BY <1>1, Known DEF Unborn
<1>9. Host(s)'
  <2>1. \A k \in Nat : <<s, k>> \in vms' <=> RunsVM(s)' /\ k = sess'[s].slot
    BY <1>1, <1>3, <1>7 DEF Host
  <2>2. crashes' = 0 => s \notin snaps'
    BY <1>1, <1>3, <1>7 DEF Host
  <2>3. sess'[s].repo \/ s \in workspaces' => TRUE \in Repos
    BY <1>3, <1>4, <1>5, <1>6 DEF Host
  <2> QED
    BY <1>1, <1>2, <1>6, <1>7, <1>8, <2>1, <2>2, <2>3 DEF Host
<1>10. \A t \in Sids : t # s => SameHost(t)
  BY <1>1, <1>5 DEF SameHost
<1> QED
  BY <1>1, <1>6, <1>9, <1>10, HostStep DEF Procs, PCs

LEMMA CreateSnapshotHost ==
  ASSUME SInv, HInv, NEW s \in Sids, CreateSnapshot(s)
  PROVE  HInv'
<1>1. /\ UNCHANGED <<created, inMap, vms, taps, workspaces, sess, crashes>>
      /\ pc["boot"][s] = "snapshot"
      /\ \/ snaps' = snaps \cup {s} /\ Goto("boot", s, "inject")
         \/ snaps' \in {snaps, snaps \ {s}} /\ Goto("boot", s, "f_release")
  BY DEF CreateSnapshot, At, maps, bounds
<1>2. pc["stop"][s] = "idle" /\ Host(s)
  BY <1>1, BootAtWork DEF HInv
<1>3. ~RunsVM(s) /\ ~HasSnap(s) /\ NeedsWorkspace(s)
  BY <1>1, <1>2 DEF RunsVM, HasSnap, NeedsWorkspace, AtRest, Mounting
<1>4. \A t \in Sids : t # s => SameHost(t)
  BY <1>1 DEF SameHost
<1>5. CASE snaps' = snaps \cup {s} /\ Goto("boot", s, "inject")
  <2>1. pc'["boot"][s] = "inject" /\ pc'["stop"][s] = "idle"
    BY <1>2, <1>5, Goes DEF Procs, PCs
  <2>2. ~RunsVM(s)' /\ HasSnap(s)'
    BY <2>1 DEF RunsVM, HasSnap, AtRest
  <2>3. Host(s)'
    BY <1>1, <1>2, <1>3, <1>5, <2>1, <2>2 DEF Host, Mounting
  <2> QED
    BY <1>1, <1>4, <1>5, <2>3, HostStep DEF Procs, PCs
<1>6. CASE snaps' \in {snaps, snaps \ {s}} /\ Goto("boot", s, "f_release")
  <2>1. pc'["boot"][s] = "f_release" /\ pc'["stop"][s] = "idle"
    BY <1>2, <1>6, Goes DEF Procs, PCs
  <2>2. ~RunsVM(s)' /\ ~HasSnap(s)' /\ ~NeedsWorkspace(s)'
    BY <2>1 DEF RunsVM, HasSnap, NeedsWorkspace, AtRest, Mounting
  <2>3. Host(s)'
    BY <1>1, <1>2, <1>3, <1>6, <2>1, <2>2 DEF Host, Mounting
  <2> QED
    BY <1>1, <1>4, <1>6, <2>3, HostStep DEF Procs, PCs
<1> QED
  BY <1>1, <1>5, <1>6

\* A step of boot that touches nothing on the host.
LEMMA BootMoves ==
  ASSUME SInv, HInv, NEW s \in Sids, NEW c \in PCs, pc["boot"][s] # "idle",
         Goto("boot", s, c), c # "clone", UNCHANGED host, UNCHANGED <<created, inMap, crashes>>,
         SameObject(s), \A t \in Sids : t # s => sess'[t] = sess[t],
         LET busy == {"ssh", "setup", "agent", "f_kill", "u_kill", "d_kill"}
             rest == c = "idle" /\ s \in inMap /\ sess'[s].st = "ready"
             snap == busy \cup {"inject", "launch", "f_snap", "u_snap", "d_snap"}
         IN  /\ c \in busy \/ rest <=> pc["boot"][s] \in busy
             /\ c \in snap \/ rest <=> pc["boot"][s] \in snap
             /\ c \in Mounting => pc["boot"][s] \in Mounting
  PROVE  HInv'
<1>1. pc'["boot"][s] = c /\ pc'["stop"][s] = "idle" /\ pc["stop"][s] = "idle"
  BY Goes, BootAtWork DEF Procs
<1>2. /\ RunsVM(s)' <=> RunsVM(s)
      /\ HasSnap(s)' <=> HasSnap(s)
  BY <1>1 DEF RunsVM, HasSnap, AtRest
<1> QED
  BY <1>1, <1>2, Moves DEF Procs

LEMMA InjectHost ==
  ASSUME SInv, HInv, NEW s \in Sids, InjectNetworkConfig(s)
  PROVE  HInv'
<1>1. UNCHANGED <<created, inMap, crashes>> /\ UNCHANGED host /\ pc["boot"][s] = "inject"
  BY DEF InjectNetworkConfig, At, maps, bounds
<1>2. CASE Goto("boot", s, "f_snap") /\ UNCHANGED <<sess, pend>>
  BY <1>1, <1>2, BootMoves DEF SameObject, PCs, Mounting
<1>3. CASE Transition("boot", s, "booting") /\ Goto("boot", s, "launch")
  BY <1>1, <1>3, TransitionKeeps, BootMoves DEF Procs, PCs, Mounting
<1> QED
  BY <1>2, <1>3 DEF InjectNetworkConfig, ThenTransition

\* The slot of another session's VM is not this one's.
LEMMA OwnSlot ==
  ASSUME SInv, NEW s \in Sids, NEW t \in Sids, t # s, Holds(s), RunsVM(t)
  PROVE  sess[t].slot # sess[s].slot
<1>1. Holds(t)
  BY DEF RunsVM, AtRest, Holds, BootHolding, StopHolding
<1> QED
  BY <1>1 DEF SInv, SlotInv

LEMMA LaunchHost ==
  ASSUME SInv, HInv, NEW s \in Sids, Launch(s)
  PROVE  HInv'
<1>1. UNCHANGED <<created, inMap, snaps, workspaces, crashes>> /\ pc["boot"][s] = "launch"
  BY DEF Launch, At, maps, bounds
<1>2. pc["stop"][s] = "idle" /\ Host(s) /\ Holds(s)
  BY <1>1, BootAtWork DEF HInv, Holds, BootHolding
<1>3. ~RunsVM(s) /\ HasSnap(s) /\ NeedsWorkspace(s) /\ pc["boot"][s] \in Mounting
  BY <1>1, <1>2 DEF RunsVM, HasSnap, NeedsWorkspace, AtRest, Mounting
<1>4. sess[s] \in Session /\ sess \in [Sids -> Session]
  BY Known
<1>5. CASE /\ vms' = vms \cup {<<s, sess[s].slot>>} /\ taps' = taps \cup {sess[s].slot}
           /\ sess' = [sess EXCEPT ![s] = [sess[s] EXCEPT !.v = "own", !.st = "waiting_ssh"]]
           /\ Goto("boot", s, "ssh")
  <2>1. /\ sess'[s].slot = sess[s].slot /\ sess'[s].v = "own" /\ sess'[s].repo = sess[s].repo
        /\ sess'[s].wsp = sess[s].wsp
        /\ \A t \in Sids : t # s => sess'[t] = sess[t]
    <3>1. sess'[s] = [sess[s] EXCEPT !.v = "own", !.st = "waiting_ssh"]
      BY <1>4, <1>5
    <3> QED
      BY <1>4, <1>5, <3>1 DEF Session
  <2>2. pc'["boot"][s] = "ssh" /\ pc'["stop"][s] = "idle"
    BY <1>2, <1>5, Goes DEF Procs, PCs
  <2>3. RunsVM(s)' /\ HasSnap(s)' /\ NeedsWorkspace(s)'
    BY <2>2 DEF RunsVM, HasSnap, NeedsWorkspace
  <2>4. \A k \in Nat : <<s, k>> \in vms' <=> k = sess'[s].slot
    BY <1>2, <1>3, <1>5, <2>1 DEF Host
  <2>5. Host(s)'
    <3>1. sess'[s].slot \in taps' /\ s \in snaps'
      BY <1>1, <1>2, <1>3, <1>5, <2>1 DEF Host
    <3>2. sess'[s].repo => s \in workspaces' /\ sess'[s].wsp /\ TRUE \in Repos
      BY <1>1, <1>2, <1>3, <2>1 DEF Host
    <3>3. (s > created' => s \notin workspaces') /\ (s \in workspaces' => TRUE \in Repos)
      BY <1>1, <1>2 DEF Host
    <3> QED
      BY <2>1, <2>2, <2>3, <2>4, <3>1, <3>2, <3>3 DEF Host
  <2>6. \A t \in Sids : t # s => SameHost(t)
    BY <1>1, <1>5 DEF SameHost
  <2> QED
    BY <1>1, <1>5, <2>1, <2>5, <2>6, HostStep DEF Procs, PCs
<1>6. CASE /\ taps' \in {taps, taps \cup {sess[s].slot}, taps \ {sess[s].slot}} /\ UNCHANGED vms
           /\ Goto("boot", s, "f_snap") /\ UNCHANGED sess
  <2>1. pc'["boot"][s] = "f_snap" /\ pc'["stop"][s] = "idle"
    BY <1>2, <1>6, Goes DEF Procs, PCs
  <2>2. ~RunsVM(s)' /\ HasSnap(s)' /\ ~NeedsWorkspace(s)'
    BY <2>1 DEF RunsVM, HasSnap, NeedsWorkspace, AtRest, Mounting
  <2>3. Host(s)'
    BY <1>1, <1>2, <1>3, <1>6, <2>1, <2>2 DEF Host, Mounting
  <2>4. \A t \in Sids : t # s => SameHost(t)
    BY <1>1, <1>2, <1>6, OwnSlot DEF SameHost
  <2> QED
    BY <1>1, <1>6, <2>3, <2>4, HostStep DEF Procs, PCs
<1> QED
  BY <1>5, <1>6 DEF Launch, LaunchVM

LEMMA WaitForSSHHost ==
  ASSUME SInv, HInv, NEW s \in Sids, WaitForSSH(s)
  PROVE  HInv'
<1>1. UNCHANGED <<created, inMap, crashes>> /\ UNCHANGED host /\ pc["boot"][s] = "ssh"
  BY DEF WaitForSSH, At, maps, bounds
<1>2. CASE Goto("boot", s, "f_kill") /\ UNCHANGED <<sess, pend>>
  BY <1>1, <1>2, BootMoves DEF SameObject, PCs, Mounting
<1>3. CASE Transition("boot", s, "configuring") /\ Goto("boot", s, "setup")
  BY <1>1, <1>3, TransitionKeeps, BootMoves DEF Procs, PCs, Mounting
<1> QED
  BY <1>2, <1>3 DEF WaitForSSH, ThenTransition

LEMMA SetupHost ==
  ASSUME WorkspacesWork, SInv, HInv, NEW s \in Sids, Setup(s)
  PROVE  HInv'
<1>1. UNCHANGED <<created, inMap, crashes>> /\ UNCHANGED host /\ pc["boot"][s] = "setup"
  BY DEF Setup, At, maps, bounds
<1>2. pc["boot"][s] \in Mounting /\ Host(s) /\ s \in inMap
  BY <1>1, BootAtWork DEF Mounting, HInv
<1>3. mountWorkspace(s) = {TRUE}
  BY <1>2 DEF Host, mountWorkspace, Tries, WorkspacesWork
<1>4. /\ Transition("boot", s, "ready")
      /\ Goto("boot", s, "idle") \/ Goto("boot", s, "agent")
  BY <1>3 DEF Setup
<1>5. /\ SameObject(s) /\ sess'[s].st = "ready"
      /\ \A t \in Sids : t # s => sess'[t] = sess[t]
  BY <1>4, TransitionKeeps DEF Procs
<1> QED
  BY <1>1, <1>2, <1>4, <1>5, BootMoves DEF PCs, Mounting

LEMMA FailHost ==
  ASSUME SInv, HInv, NEW s \in Sids, FailRelease(s) \/ FailTransition(s)
  PROVE  HInv'
<1>1. CASE FailRelease(s)
  <2>1. /\ UNCHANGED <<created, inMap, crashes>> /\ UNCHANGED host /\ pc["boot"][s] = "f_release"
        /\ Goto("boot", s, "f_failed")
        /\ sess' = [sess EXCEPT ![s] = [sess[s] EXCEPT !.err = "other"]]
    BY <1>1 DEF FailRelease, At, bounds
  <2>2. SameObject(s) /\ \A t \in Sids : t # s => sess'[t] = sess[t]
    <3>1. sess[s] \in Session /\ sess \in [Sids -> Session]
      BY Known
    <3>2. sess'[s] = [sess[s] EXCEPT !.err = "other"]
      BY <2>1, <3>1
    <3> QED
      BY <2>1, <3>1, <3>2 DEF Session, SameObject
  <2> QED
    BY <2>1, <2>2, BootMoves DEF PCs, Mounting
<1>2. CASE FailTransition(s)
  <2>1. /\ UNCHANGED <<created, inMap, crashes>> /\ UNCHANGED host /\ pc["boot"][s] = "f_failed"
        /\ Goto("boot", s, "idle") /\ Transition("boot", s, "failed")
    BY <1>2 DEF FailTransition, At, maps, bounds
  <2> QED
    BY <2>1, TransitionKeeps, BootMoves DEF PCs, Procs, Mounting
<1> QED
  BY <1>1, <1>2

LEMMA AgentHost ==
  ASSUME SInv, HInv, NEW s \in Sids, AgentStep(s)
  PROVE  HInv'
<1>1. UNCHANGED <<created, inMap, crashes>> /\ UNCHANGED host /\ pc["boot"][s] = "agent"
  BY DEF AgentStep, AgentUsageLimit, AgentError, AgentDone, At, maps, bounds
<1>2. sess[s].st = "ready" /\ s \in inMap
  BY <1>1, Known DEF BootOwner
<1>3. sess[s] \in Session /\ sess \in [Sids -> Session]
  BY Known
<1>4. ~CanTransition("ready", "failed") /\ TryState("ready", "failed") = "ready"
  BY DEF TryState, CanTransition, validTransitions
<1>5. /\ SameObject(s) /\ \A t \in Sids : t # s => sess'[t] = sess[t]
      /\ \/ sess'[s].st = "ready" /\ (Goto("boot", s, "u_kill") \/ Goto("boot", s, "idle"))
         \/ Goto("boot", s, "d_kill")
  <2>1. ASSUME NEW e, sess' = [sess EXCEPT ![s] = [sess[s] EXCEPT !.err = e, !.st = "ready"]]
        PROVE  /\ SameObject(s) /\ sess'[s].st = "ready"
               /\ \A t \in Sids : t # s => sess'[t] = sess[t]
    <3>1. sess'[s] = [sess[s] EXCEPT !.err = e, !.st = "ready"]
      BY <1>3, <2>1
    <3> QED
      BY <1>3, <2>1, <3>1 DEF Session, SameObject
  <2>2. CASE AgentUsageLimit(s)
    BY <1>2, <1>4, <2>1, <2>2 DEF AgentUsageLimit
  <2>3. CASE AgentError(s)
    BY <1>2, <1>4, <2>1, <2>3 DEF AgentError
  <2>4. CASE AgentDone(s)
    <3>1. PICK r, st : sess' = [sess EXCEPT ![s] = [sess[s] EXCEPT !.res = r, !.st = st]]
      BY <2>4 DEF AgentDone
    <3>2. sess'[s] = [sess[s] EXCEPT !.res = r, !.st = st]
      BY <1>3, <3>1
    <3> QED
      BY <1>3, <2>4, <3>1, <3>2 DEF AgentDone, Session, SameObject
  <2> QED
    BY <2>2, <2>3, <2>4 DEF AgentStep
<1> QED
  BY <1>1, <1>2, <1>5, BootMoves DEF PCs, Mounting

----------------------------------------------------------------------------
(* Teardown, by boot or by stop. *)

\* A teardown moves the goroutine on, and only boot has the places of boot.
LEMMA TeardownMove ==
  ASSUME SInv, NEW g \in Procs, NEW s \in Sids, NEW places \in SUBSET DOMAIN Order,
         "idle" \notin places, Teardown(g, s, places)
  PROVE  /\ pc[g][s] \in places /\ Goto(g, s, Following(pc[g][s])) /\ Following(pc[g][s]) \in PCs
         /\ \/ /\ g = "boot" /\ pc["boot"][s] \in BootPCs /\ pc["stop"][s] = "idle"
               /\ pc'["stop"][s] = "idle" /\ pc'["boot"][s] = Following(pc["boot"][s])
            \/ /\ g = "stop" /\ pc["stop"][s] \in StopPCs /\ pc["boot"][s] = "idle"
               /\ pc'["boot"][s] = "idle" /\ pc'["stop"][s] = Following(pc["stop"][s])
<1>1. pc[g][s] \in places /\ Goto(g, s, Following(pc[g][s])) /\ Following(pc[g][s]) \in PCs
  BY FollowingType DEF Teardown
<1>2. CASE g = "boot"
  BY <1>1, <1>2, Goes, Known DEF BootOwner, StopOwner
<1>3. CASE g = "stop"
  BY <1>1, <1>3, Goes, Known DEF StopOwner
<1> QED
  BY <1>1, <1>2, <1>3 DEF Procs

LEMMA StopVMHost ==
  ASSUME SInv, HInv, NEW g \in Procs, NEW s \in Sids, StopVM(g, s)
  PROVE  HInv'
<1>1. /\ UNCHANGED <<created, inMap, snaps, workspaces, sess, crashes>>
      /\ vms' = vms \ Victims(s)
      /\ taps' = IF sess[s].v = "none" THEN taps ELSE taps \ {sess[s].slot}
  BY DEF StopVM, maps, bounds
<1>2. /\ pc[g][s] \in {"f_kill", "u_kill", "d_kill", "k_kill"}
      /\ Goto(g, s, Following(pc[g][s])) /\ Following(pc[g][s]) \in PCs
      /\ \/ /\ g = "boot" /\ pc["boot"][s] \in BootPCs /\ pc["stop"][s] = "idle"
            /\ pc'["stop"][s] = "idle" /\ pc'["boot"][s] = Following(pc["boot"][s])
         \/ /\ g = "stop" /\ pc["stop"][s] \in StopPCs /\ pc["boot"][s] = "idle"
            /\ pc'["boot"][s] = "idle" /\ pc'["stop"][s] = Following(pc["stop"][s])
  BY TeardownMove DEF StopVM, Order
<1>3. \/ /\ pc["boot"][s] \in {"f_kill", "u_kill", "d_kill"} /\ pc["stop"][s] = "idle"
         /\ pc'["boot"][s] \in {"f_snap", "u_snap", "d_snap"} /\ pc'["stop"][s] = "idle"
      \/ /\ pc["boot"][s] = "idle" /\ pc["stop"][s] = "k_kill" /\ sess[s].st = "stopping"
         /\ pc'["boot"][s] = "idle" /\ pc'["stop"][s] = "k_snap"
  BY <1>2, Known DEF BootPCs, StopPCs, Following, Order, StopOwner
<1>4. RunsVM(s) /\ HasSnap(s) /\ Holds(s) /\ Host(s)
  BY <1>3 DEF RunsVM, HasSnap, Holds, BootHolding, StopHolding, HInv
<1>5. ~RunsVM(s)' /\ HasSnap(s)' /\ ~NeedsWorkspace(s)'
  BY <1>1, <1>3 DEF RunsVM, HasSnap, NeedsWorkspace, AtRest, Mounting
<1>6. Victims(s) = {<<s, sess[s].slot>>}
  <2>1. sess[s].slot \in Nat /\ sess[s].v \in {"own", "detached"}
    BY <1>4, Known DEF Session, Host
  <2>2. <<s, sess[s].slot>> \in vms
    BY <1>4, <2>1 DEF Host
  <2>3. ASSUME NEW x \in vms, x[2] = sess[s].slot PROVE x = <<s, sess[s].slot>>
    <3>1. PICK t \in Sids, k \in Nat : x = <<t, k>>
      BY DEF SInv, TInv, TypeOK
    <3>2. RunsVM(t) /\ k = sess[t].slot
      BY <3>1 DEF HInv, Host
    <3>3. t = s
      BY <1>4, <2>3, <3>1, <3>2, OwnSlot
    <3> QED
      BY <3>1, <3>2, <3>3
  <2> QED
    BY <2>1, <2>2, <2>3 DEF Victims
<1>7. Host(s)'
  BY <1>1, <1>3, <1>4, <1>5, <1>6 DEF Host, Mounting
<1>8. \A t \in Sids : t # s => SameHost(t)
  BY <1>1, <1>4, <1>6, OwnSlot DEF SameHost
<1> QED
  BY <1>1, <1>2, <1>7, <1>8, HostStep

LEMMA DeleteSnapshotHost ==
  ASSUME SInv, HInv, NEW g \in Procs, NEW s \in Sids, DeleteSnapshot(g, s)
  PROVE  HInv'
<1>1. /\ UNCHANGED <<created, inMap, vms, taps, workspaces, sess, crashes>>
      /\ snaps' = snaps \ {s}
  BY DEF DeleteSnapshot, maps, bounds
<1>2. /\ pc[g][s] \in {"f_snap", "u_snap", "d_snap", "k_snap"}
      /\ Goto(g, s, Following(pc[g][s])) /\ Following(pc[g][s]) \in PCs
      /\ \/ /\ g = "boot" /\ pc["boot"][s] \in BootPCs /\ pc["stop"][s] = "idle"
            /\ pc'["stop"][s] = "idle" /\ pc'["boot"][s] = Following(pc["boot"][s])
         \/ /\ g = "stop" /\ pc["stop"][s] \in StopPCs /\ pc["boot"][s] = "idle"
            /\ pc'["boot"][s] = "idle" /\ pc'["stop"][s] = Following(pc["stop"][s])
  BY TeardownMove DEF DeleteSnapshot, Order
<1>3. \/ /\ pc["boot"][s] \in {"f_snap", "u_snap", "d_snap"} /\ pc["stop"][s] = "idle"
         /\ pc'["boot"][s] \in {"f_release", "u_free", "d_free"} /\ pc'["stop"][s] = "idle"
      \/ /\ pc["boot"][s] = "idle" /\ pc["stop"][s] = "k_snap" /\ sess[s].st = "stopping"
         /\ pc'["boot"][s] = "idle" /\ pc'["stop"][s] = "k_free"
  BY <1>2, Known DEF BootPCs, StopPCs, Following, Order, StopOwner
<1>4. ~RunsVM(s) /\ Host(s)
  BY <1>3 DEF RunsVM, AtRest, HInv
<1>5. ~RunsVM(s)' /\ ~HasSnap(s)' /\ ~NeedsWorkspace(s)'
  BY <1>1, <1>3 DEF RunsVM, HasSnap, NeedsWorkspace, AtRest, Mounting
<1>6. Host(s)'
  BY <1>1, <1>3, <1>4, <1>5 DEF Host, Mounting
<1>7. \A t \in Sids : t # s => SameHost(t)
  BY <1>1 DEF SameHost
<1> QED
  BY <1>1, <1>2, <1>6, <1>7, HostStep

\* The later steps of a teardown: nothing is on the host but the workspace.
LEMMA LateMoves ==
  ASSUME SInv, HInv, NEW g \in Procs, NEW s \in Sids,
         NEW places \in SUBSET {"u_free", "d_free", "k_free", "d_stopped", "k_stopped", "u_drop",
                                "d_drop", "k_drop", "k_delrow", "forget", "rmws"},
         Teardown(g, s, places), UNCHANGED <<created, vms, taps, snaps, crashes>>,
         workspaces' = workspaces \/ (places = {"rmws"} /\ workspaces' = workspaces \ {s}),
         inMap' = inMap \/ (places = {"u_drop", "d_drop", "k_drop"} /\ inMap' = inMap \ {s}),
         \A t \in Sids : t # s => sess'[t] = sess[t],
         SameObject(s), sess'[s].st = sess[s].st \/ sess'[s].st # "ready"
  PROVE  HInv'
<1>1. /\ pc[g][s] \in places
      /\ Goto(g, s, Following(pc[g][s])) /\ Following(pc[g][s]) \in PCs
      /\ \/ /\ g = "boot" /\ pc["boot"][s] \in BootPCs /\ pc["stop"][s] = "idle"
            /\ pc'["stop"][s] = "idle" /\ pc'["boot"][s] = Following(pc["boot"][s])
         \/ /\ g = "stop" /\ pc["stop"][s] \in StopPCs /\ pc["boot"][s] = "idle"
            /\ pc'["boot"][s] = "idle" /\ pc'["stop"][s] = Following(pc["stop"][s])
  <2>1. places \in SUBSET DOMAIN Order /\ "idle" \notin places
    BY DEF Order
  <2> QED
    BY <2>1, TeardownMove
<1>2. \/ /\ pc["boot"][s] \in {"u_free", "d_free", "d_stopped", "u_drop", "d_drop", "rmws"}
         /\ pc["stop"][s] = "idle" /\ pc'["stop"][s] = "idle"
         /\ pc'["boot"][s] \in {"u_drop", "d_stopped", "d_drop", "rmws", "idle"}
         /\ pc'["boot"][s] = "idle" => s \notin inMap
      \/ /\ pc["boot"][s] = "idle" /\ pc'["boot"][s] = "idle"
         /\ pc["stop"][s] \in {"k_free", "k_stopped", "k_drop", "k_delrow", "forget", "rmws"}
         /\ pc'["stop"][s] \in {"k_stopped", "k_drop", "k_delrow", "rmws", "idle"}
         /\ pc'["stop"][s] \in {"k_stopped", "k_drop"} =>
              pc["stop"][s] \in {"k_free", "k_stopped"}
         /\ sess[s].st \in {"stopping", "stopped"} \/ s \notin inMap
  <2>1. CASE g = "boot"
    <3>1. pc["stop"][s] = "idle" /\ pc'["stop"][s] = "idle" /\ pc["boot"][s] \in BootPCs
          /\ pc["boot"][s] \in places /\ pc'["boot"][s] = Following(pc["boot"][s])
      BY <1>1, <2>1
    <3>2. pc["boot"][s] \in {"u_free", "d_free", "d_stopped", "u_drop", "d_drop", "rmws"}
      BY <3>1 DEF BootPCs
    <3>3. /\ pc'["boot"][s] \in {"u_drop", "d_stopped", "d_drop", "rmws", "idle"}
          /\ pc'["boot"][s] = "idle" => pc["boot"][s] = "rmws"
      BY <3>1, <3>2 DEF Following, Order
    <3>4. pc["boot"][s] = "rmws" => s \notin inMap
      BY Known DEF BootOwner
    <3> QED
      BY <3>1, <3>2, <3>3, <3>4
  <2>2. CASE g = "stop"
    <3>1. pc["boot"][s] = "idle" /\ pc'["boot"][s] = "idle" /\ pc["stop"][s] \in StopPCs
          /\ pc["stop"][s] \in places /\ pc'["stop"][s] = Following(pc["stop"][s])
      BY <1>1, <2>2
    <3>2. pc["stop"][s] \in {"k_free", "k_stopped", "k_drop", "k_delrow", "forget", "rmws"}
      BY <3>1 DEF StopPCs
    <3>3. /\ pc'["stop"][s] \in {"k_stopped", "k_drop", "k_delrow", "rmws", "idle"}
          /\ pc'["stop"][s] \in {"k_stopped", "k_drop"} =>
               pc["stop"][s] \in {"k_free", "k_stopped"}
      BY <3>1, <3>2 DEF Following, Order
    <3>4. sess[s].st \in {"stopping", "stopped"} \/ s \notin inMap
      BY <3>2, Known DEF StopOwner
    <3> QED
      BY <3>1, <3>2, <3>3, <3>4
  <2> QED
    BY <1>1, <2>1, <2>2
<1>3. ~RunsVM(s) /\ ~HasSnap(s) /\ Host(s)
  BY <1>2 DEF RunsVM, HasSnap, AtRest, HInv
<1>4. ~RunsVM(s)' /\ ~HasSnap(s)' /\ ~NeedsWorkspace(s)'
  BY <1>2 DEF RunsVM, HasSnap, NeedsWorkspace, AtRest, Mounting
<1>5. pc'["stop"][s] \in {"k_kill", "k_snap", "k_free", "k_stopped", "k_drop"} => s \in inMap'
  BY <1>1, <1>2, <1>3 DEF Host
<1>6. Host(s)'
  BY <1>2, <1>3, <1>4, <1>5 DEF Host, SameObject, Mounting
<1>7. \A t \in Sids : t # s => SameHost(t)
  BY DEF SameHost
<1> QED
  BY <1>1, <1>6, <1>7, HostStep

LEMMA LateHost ==
  ASSUME SInv, HInv, NEW g \in Procs, NEW s \in Sids,
         freeSlot(g, s) \/ MarkStopped(g, s) \/ DropFromMap(g, s) \/ DeleteRow(g, s)
         \/ CleanupWorkspace(g, s)
  PROVE  HInv'
<1>1. CASE freeSlot(g, s)
  BY <1>1, LateMoves DEF freeSlot, host, SameObject, bounds
<1>2. CASE MarkStopped(g, s)
  <2>1. /\ Teardown(g, s, {"d_stopped", "k_stopped"}) /\ UNCHANGED <<created, inMap>>
        /\ UNCHANGED host /\ crashes' = crashes
        /\ sess' = [sess EXCEPT ![s] = [sess[s] EXCEPT !.st = TryState(sess[s].st, "stopped")]]
    BY <1>2 DEF MarkStopped, maps, bounds
  <2>2. sess[s] \in Session /\ sess \in [Sids -> Session]
    BY Known
  <2>3. sess'[s] = [sess[s] EXCEPT !.st = TryState(sess[s].st, "stopped")]
    BY <2>1, <2>2
  <2>4. SameObject(s) /\ (sess'[s].st = sess[s].st \/ sess'[s].st # "ready")
    BY <2>2, <2>3 DEF Session, SameObject, TryState
  <2> QED
    BY <2>1, <2>4, LateMoves DEF host
<1>3. CASE DropFromMap(g, s)
  BY <1>3, LateMoves DEF DropFromMap, host, SameObject, bounds
<1>4. CASE DeleteRow(g, s)
  BY <1>4, LateMoves DEF DeleteRow, maps, host, SameObject, bounds
<1>5. CASE CleanupWorkspace(g, s)
  BY <1>5, LateMoves DEF CleanupWorkspace, maps, SameObject, bounds
<1> QED
  BY <1>1, <1>2, <1>3, <1>4, <1>5

----------------------------------------------------------------------------

LEMMA ServeHInv ==
  ASSUME ~StopMidRun, WorkspacesWork, SInv, HInv, [Serve]_vars
  PROVE  HInv'
<1>0. SInv'
  BY ServeSInv
<1>1. CASE \E role \in Roles, repo \in Repos : Create(role, repo)
  BY <1>0, <1>1, CreateHost
<1>2. ASSUME NEW s \in Sids, Stop(s) \/ StopTerminal(s)
      PROVE  HInv'
  BY <1>2, StopHost, StopTerminalHost
<1>3. ASSUME NEW s \in Sids, BootStep(s) \/ AgentStep(s) \/ Upsert("stop", s)
      PROVE  HInv'
  BY <1>3, UpsertHost, CloneHost, CreateSnapshotHost, InjectHost, LaunchHost, WaitForSSHHost,
     SetupHost, FailHost, AgentHost DEF BootStep, Procs
<1>4. ASSUME NEW g \in Procs, NEW s \in Sids, TeardownStep(g, s)
      PROVE  HInv'
  BY <1>4, StopVMHost, DeleteSnapshotHost, LateHost DEF TeardownStep
<1>5. CASE UNCHANGED vars
  BY <1>5, IdleHost DEF vars, maps, bounds
<1> QED
  BY <1>1, <1>2, <1>3, <1>4, <1>5 DEF Serve, Procs

\* The invariant of the host's part holds in every state of one life.
THEOREM HostAccounted == ASSUME OneLife, WorkspacesWork PROVE Spec => [](FirstLife /\ HInv)
<1>1. FirstLife /\ [Next]_vars => FirstLife'
  BY NextFirstLife
<1>2. FirstLife /\ HInv /\ [Next]_vars => HInv'
  BY NextFirstLife, ServeHInv DEF FirstLife, OneLife
<1> QED
  BY InitFirstLife, InitHInv, <1>1, <1>2, PTL DEF Spec

\* A VM belongs to a session of the map that has its slot to give back, and
\* runs in that slot.
LEMMA VMOwner ==
  ASSUME SInv, HInv, NEW x \in vms
  PROVE  /\ x[1] \in Sids /\ x = <<x[1], sess[x[1]].slot>>
         /\ RunsVM(x[1]) /\ Holds(x[1]) /\ x[1] \in inMap
<1>1. x \in Sids \X Nat
  BY DEF SInv, TInv, TypeOK
<1>2. PICK s \in Sids, k \in Nat : x = <<s, k>>
  BY <1>1
<1>3. RunsVM(s) /\ k = sess[s].slot
  BY <1>2 DEF HInv, Host
<1>4. Holds(s)
  BY <1>3 DEF RunsVM, AtRest, Holds, BootHolding, StopHolding
<1>5. s \in inMap
  BY <1>3, BootAtWork DEF RunsVM, AtRest, HInv, Host
<1> QED
  BY <1>2, <1>3, <1>4, <1>5

\* What the run's properties say, from the invariant.
LEMMA VMsHaveSlots ==
  ASSUME SInv, HInv
  PROVE  OneVMPerSlot
<1> SUFFICES ASSUME NEW x \in vms, NEW y \in vms, x[2] = y[2] PROVE x = y
  BY DEF OneVMPerSlot
<1>1. /\ x[1] \in Sids /\ x = <<x[1], sess[x[1]].slot>> /\ Holds(x[1])
      /\ y[1] \in Sids /\ y = <<y[1], sess[y[1]].slot>> /\ Holds(y[1])
  BY VMOwner
<1>2. x[1] = y[1]
  BY <1>1 DEF SInv, SlotInv
<1> QED
  BY <1>1, <1>2

LEMMA ReadyUsable ==
  ASSUME SInv, HInv
  PROVE  ReadyIsUsable
<1> SUFFICES ASSUME NEW s \in inMap, sess[s].st = "ready", pc["boot"][s] \in {"idle", "agent"}
             PROVE  /\ <<s, sess[s].slot>> \in vms /\ sess[s].slot \in taps /\ s \in snaps
                    /\ sess[s].repo => s \in workspaces
  BY DEF ReadyIsUsable
<1>1. s \in Sids /\ sess[s].slot \in Nat /\ Host(s)
  BY Known DEF SInv, TInv, TypeOK, HInv, Session
<1>2. RunsVM(s) /\ HasSnap(s) /\ NeedsWorkspace(s)
  BY DEF RunsVM, HasSnap, NeedsWorkspace, AtRest
<1> QED
  BY <1>1, <1>2 DEF Host

LEMMA Stoppable ==
  ASSUME SInv, HInv
  PROVE  VMsStoppable
<1> SUFFICES ASSUME NEW x \in vms
             PROVE  x[1] \in inMap /\ Holds(x[1]) /\ sess[x[1]].slot = x[2]
  BY DEF VMsStoppable
<1>1. x = <<x[1], sess[x[1]].slot>> /\ Holds(x[1]) /\ x[1] \in inMap
  BY VMOwner
<1> QED
  BY <1>1

\* No two Firecracker processes share a slot, however boots, agents and stops
\* of the sessions interleave.
THEOREM SlotsHaveOneVM == ASSUME OneLife, WorkspacesWork PROVE Spec => []OneVMPerSlot
<1>1. FirstLife /\ HInv => OneVMPerSlot
  BY VMsHaveSlots DEF FirstLife
<1> QED
  BY <1>1, HostAccounted, PTL

\* A session that has given its slot back has left no VM behind, whichever path
\* of boot, agent or stop it took, and no snapshot but one whose deletion, which
\* every such path asks for, has failed.
THEOREM NothingIsLeft == ASSUME OneLife, WorkspacesWork PROVE Spec => []NothingLeaks
<1>1. FirstLife /\ HInv => NothingLeaks
  <2> SUFFICES ASSUME SInv, crashes = 0, HInv PROVE NothingLeaks
    BY DEF FirstLife
  <2>1. \A x \in vms : Holds(x[1])
    BY VMOwner
  <2>2. ASSUME NEW s \in snaps PROVE Holds(s)
    <3>1. s \in Sids /\ HasSnap(s)
      BY <2>2 DEF SInv, TInv, TypeOK, HInv, Host
    <3> QED
      BY <3>1 DEF HasSnap, RunsVM, AtRest, Holds, BootHolding, StopHolding
  <2> QED
    BY <2>1, <2>2 DEF NothingLeaks
<1> QED
  BY <1>1, HostAccounted, PTL

\* A session shown as ready has its VM in its slot with the network up, its
\* snapshot, and its workspace if it has a repository.
THEOREM ReadyCanBeUsed == ASSUME OneLife, WorkspacesWork PROVE Spec => []ReadyIsUsable
<1>1. FirstLife /\ HInv => ReadyIsUsable
  BY ReadyUsable DEF FirstLife
<1> QED
  BY <1>1, HostAccounted, PTL

\* Every running VM belongs to a session of the map, in that session's slot:
\* somebody can still stop it.
THEOREM VMsCanBeStopped == ASSUME OneLife, WorkspacesWork PROVE Spec => []VMsStoppable
<1>1. FirstLife /\ HInv => VMsStoppable
  BY Stoppable DEF FirstLife
<1> QED
  BY <1>1, HostAccounted, PTL

----------------------------------------------------------------------------
(* The leases of the slots: every step of a server that serves is a step   *)
(* of SlotLease.                                                           *)

\* The leases of the sessions that have a slot to give back.
Held == {<<s, sess[s].slot>> : s \in Holders}

\* What a step that touches session s alone may do to its slot and its VM: the
\* slot is kept, and the VM perhaps started or stopped; it is given back; a free
\* one is taken.
KeepsLease(s) ==
  /\ usedSlots' = usedSlots /\ sess'[s].slot = sess[s].slot
  /\ \/ vms' = vms
     \/ Holds(s) /\ vms' = vms \cup {<<s, sess[s].slot>>}
     \/ vms' = vms \ Victims(s)

GivesLease(s) ==
  /\ Holds(s) /\ usedSlots' = usedSlots \ {sess[s].slot} /\ sess'[s].slot = sess[s].slot
  /\ vms' = vms

TakesLease(s) ==
  /\ sess'[s].slot \in Pool \ usedSlots /\ usedSlots' = usedSlots \cup {sess'[s].slot}
  /\ vms' = vms

LeaseMove(s) ==
  /\ \A t \in Sids : t # s => SameSession(t)
  /\ KeepsLease(s) \/ GivesLease(s) \/ TakesLease(s)

\* The slots in use are at most as many as the sessions, so that the lowest free
\* one is in the pool.
LEMMA AllocInPool ==
  ASSUME SInv, NEW i \in SlotCandidates, allocSlot(i)
  PROVE  i \in Pool
<1> USE ConstantsAssumption
<1>1. IsFiniteSet(usedSlots) /\ Cardinality(usedSlots) \in Nat
  BY FS_CardinalityType DEF SInv, TInv, TypeOK
<1>2. i \in Nat /\ i <= Cardinality(usedSlots)
  BY <1>1 DEF SlotCandidates
<1>3. Cardinality(usedSlots) <= MaxSessions
  <2> DEFINE f == [s \in Holders |-> sess[s].slot]
  <2>1. IsFiniteSet(Sids) /\ Cardinality(Sids) = MaxSessions
    BY FS_Interval DEF Sids
  <2>2. IsFiniteSet(Holders) /\ Cardinality(Holders) <= MaxSessions
    BY <2>1, FS_Subset DEF Holders
  <2>3. Cardinality(Holders) \in Nat
    BY <2>2, FS_CardinalityType
  <2>4. f \in Surjection(Holders, usedSlots)
    BY DEF Surjection, SInv, SlotInv, Holders
  <2>5. Cardinality(usedSlots) <= Cardinality(Holders)
    <3> HIDE DEF f
    <3> QED
      BY <2>2, <2>4, FS_Surjection
  <2> QED
    BY <1>1, <2>2, <2>3, <2>5
<1> QED
  BY <1>2, <1>1, <1>3 DEF Pool, allocSlot

\* The step of goroutine g of session s to place c, seen from the others.
LEMMA Touched ==
  ASSUME SInv, NEW g \in Procs, NEW s \in Sids, NEW c \in PCs, Goto(g, s, c),
         \A t \in Sids : t # s => sess'[t] = sess[t] /\ (t \in inMap' <=> t \in inMap)
  PROVE  \A t \in Sids : t # s => SameSession(t)
<1>1. \A h \in Procs, t \in Sids : t # s => pc'[h][t] = pc[h][t]
  BY Known, GotoEffect
<1> QED
  BY <1>1 DEF SameSession, Procs

\* A write to one Session object that leaves its slot alone.
LEMMA SlotKept ==
  ASSUME SInv, NEW s \in Sids, NEW x, x.slot = sess[s].slot, sess' = [sess EXCEPT ![s] = x]
  PROVE  sess'[s].slot = sess[s].slot /\ \A t \in Sids : t # s => sess'[t] = sess[t]
  BY Known

\* One lemma per request and per kind of step.
LEMMA CreateLease ==
  ASSUME SInv, NEW role \in Roles, NEW repo \in Repos, Create(role, repo)
  PROVE  \E s \in Sids : LeaseMove(s)
<1>1. PICK s \in Sids : s = created + 1
  BY ConstantsAssumption DEF Create, Sids, SInv, TInv, TypeOK
<1>2. PICK i \in SlotCandidates :
        /\ allocSlot(i) /\ usedSlots' = usedSlots \cup {i}
        /\ sess' = [sess EXCEPT ![s] = [NoSession EXCEPT
                      !.slot = i, !.st = "provisioning", !.role = role, !.repo = repo]]
  BY <1>1 DEF Create
<1>3. sess'[s].slot = i /\ \A t \in Sids : t # s => sess'[t] = sess[t]
  BY <1>2, Known DEF NoSession
<1>4. /\ Goto("boot", s, "clone") /\ "clone" \in PCs /\ "boot" \in Procs
      /\ inMap' = inMap \cup {s} /\ vms' = vms
  BY <1>1 DEF Create, PCs, Procs, host
<1>5. \A t \in Sids : t # s => SameSession(t)
  BY <1>3, <1>4, Touched
<1>6. i \in Pool \ usedSlots
  BY <1>2, AllocInPool DEF allocSlot
<1> QED
  BY <1>2, <1>3, <1>4, <1>5, <1>6 DEF LeaseMove, TakesLease

LEMMA RestartLease ==
  ASSUME SInv, NEW s \in Sids, Restart(s)
  PROVE  LeaseMove(s)
<1> DEFINE a == IF Resting(s) THEN "no" ELSE "working"
<1> HIDE DEF a
<1>1. PICK i \in SlotCandidates :
        /\ allocSlot(i) /\ usedSlots' = usedSlots \cup {i}
        /\ sess' = [sess EXCEPT ![s] = [sess[s] EXCEPT
                      !.slot = i, !.v = "none", !.err = "", !.st = "provisioning", !.asked = a]]
  BY DEF Restart, a
<1>2. sess'[s].slot = i /\ \A t \in Sids : t # s => sess'[t] = sess[t]
  <2>1. i \in Nat
    BY Candidates DEF SInv, TInv, TypeOK
  <2>2. sess[s] \in Session /\ sess \in [Sids -> Session]
    BY Known
  <2>3. sess'[s] = [sess[s] EXCEPT !.slot = i, !.v = "none", !.err = "", !.st = "provisioning",
                                   !.asked = a]
    BY <1>1, <2>2
  <2>4. sess'[s].slot = i
    BY <2>2, <2>3 DEF Session
  <2> QED
    BY <1>1, <2>2, <2>4
<1>3. /\ Goto("boot", s, "clone") /\ "clone" \in PCs /\ "boot" \in Procs
      /\ inMap' = inMap /\ vms' = vms
  BY DEF Restart, PCs, Procs, host
<1>4. \A t \in Sids : t # s => SameSession(t)
  BY <1>2, <1>3, Touched
<1>5. i \in Pool \ usedSlots
  BY <1>1, AllocInPool DEF allocSlot
<1> QED
  BY <1>1, <1>2, <1>3, <1>4, <1>5 DEF LeaseMove, TakesLease

\* The steps that leave the slot of the session and all VMs alone.
LEMMA Leaves ==
  ASSUME SInv, NEW g \in Procs, NEW s \in Sids, NEW c \in PCs, Goto(g, s, c),
         \A t \in Sids : t # s => sess'[t] = sess[t] /\ (t \in inMap' <=> t \in inMap),
         sess'[s].slot = sess[s].slot, usedSlots' = usedSlots, vms' = vms
  PROVE  LeaseMove(s)
  BY Touched DEF LeaseMove, KeepsLease

LEMMA StopLease ==
  ASSUME SInv, NEW s \in Sids, Stop(s) \/ StopTerminal(s)
  PROVE  LeaseMove(s)
<1>1. CASE Stop(s)
  <2>1. /\ Goto("stop", s, "k_kill") /\ StopAccepted(s)
        /\ UNCHANGED <<inMap, usedSlots, vms>>
    BY <1>1 DEF Stop, maps, host
  <2> QED
    BY <2>1, StopKeeps, Leaves DEF SameObject, Procs, PCs
<1>2. CASE StopTerminal(s)
  BY <1>2, StopTerminalKeeps, Leaves DEF StopTerminal, SameObject, host, Procs, PCs
<1> QED
  BY <1>1, <1>2

LEMMA LaunchLease ==
  ASSUME SInv, NEW s \in Sids, Launch(s)
  PROVE  LeaseMove(s)
<1>1. UNCHANGED <<inMap, usedSlots>> /\ pc["boot"][s] = "launch"
  BY DEF Launch, At, maps
<1>2. Holds(s)
  BY <1>1 DEF Holds, BootHolding
<1>3. sess[s] \in Session
  BY Known
<1>4. CASE /\ vms' = vms \cup {<<s, sess[s].slot>>} /\ Goto("boot", s, "ssh")
           /\ sess' = [sess EXCEPT ![s] = [sess[s] EXCEPT !.v = "own", !.st = "waiting_ssh"]]
  <2>1. sess'[s].slot = sess[s].slot /\ \A t \in Sids : t # s => sess'[t] = sess[t]
    BY <1>3, <1>4, LaunchedType, SlotKept
  <2> QED
    BY <1>1, <1>2, <1>4, <2>1, Touched DEF LeaseMove, KeepsLease, Procs, PCs
<1>5. CASE UNCHANGED <<vms, sess>> /\ Goto("boot", s, "f_snap")
  BY <1>1, <1>5, Leaves DEF Procs, PCs
<1> QED
  BY <1>4, <1>5 DEF Launch, LaunchVM

LEMMA BootLease ==
  ASSUME SInv, NEW s \in Sids, BootStep(s)
  PROVE  LeaseMove(s)
<1>0. sess[s] \in Session
  BY Known
<1>1. CASE Upsert("boot", s)
  BY <1>1 DEF Upsert, maps, host, LeaseMove, KeepsLease, SameSession
<1>2. CASE Clone(s)
  <2>1. Goto("boot", s, "snapshot") /\ UNCHANGED <<inMap, usedSlots, vms>>
    BY <1>2 DEF Clone, maps
  <2>2. sess' = sess \/ sess' = [sess EXCEPT ![s] = [sess[s] EXCEPT !.wsp = TRUE]]
    BY <1>2 DEF Clone
  <2>3. sess'[s].slot = sess[s].slot /\ \A t \in Sids : t # s => sess'[t] = sess[t]
    BY <1>0, <2>2, ClonedType, SlotKept
  <2> QED
    BY <2>1, <2>3, Leaves DEF Procs, PCs
<1>3. CASE CreateSnapshot(s)
  <2>1. UNCHANGED <<sess, inMap, usedSlots, vms>>
    BY <1>3 DEF CreateSnapshot, maps
  <2>2. Goto("boot", s, "inject") \/ Goto("boot", s, "f_release")
    BY <1>3 DEF CreateSnapshot
  <2> QED
    BY <2>1, <2>2, Leaves DEF Procs, PCs
<1>4. ASSUME NEW to, NEW c \in PCs, UNCHANGED <<inMap, usedSlots, vms>>, Goto("boot", s, c),
             Transition("boot", s, to) \/ UNCHANGED <<sess, pend>>
      PROVE  LeaseMove(s)
  BY <1>4, TransitionKeeps, Leaves DEF SameObject, Procs
<1>5. CASE InjectNetworkConfig(s) \/ WaitForSSH(s) \/ Setup(s) \/ FailTransition(s)
  <2>1. UNCHANGED <<inMap, usedSlots, vms>>
    BY <1>5 DEF InjectNetworkConfig, WaitForSSH, Setup, FailTransition, maps, host
  <2>2. CASE InjectNetworkConfig(s)
    BY <1>4, <2>1, <2>2 DEF InjectNetworkConfig, ThenTransition, PCs
  <2>3. CASE WaitForSSH(s)
    BY <1>4, <2>1, <2>3 DEF WaitForSSH, ThenTransition, PCs
  <2>4. CASE Setup(s)
    BY <1>4, <2>1, <2>4 DEF Setup, PCs
  <2>5. CASE FailTransition(s)
    BY <1>4, <2>1, <2>5 DEF FailTransition, PCs
  <2> QED
    BY <1>5, <2>2, <2>3, <2>4, <2>5
<1>6. CASE Launch(s)
  BY <1>6, LaunchLease
<1>7. CASE FailRelease(s)
  <2>1. /\ pc["boot"][s] = "f_release" /\ Goto("boot", s, "f_failed") /\ UNCHANGED <<inMap, vms>>
        /\ usedSlots' = usedSlots \ {sess[s].slot}
        /\ sess' = [sess EXCEPT ![s] = [sess[s] EXCEPT !.err = "other"]]
    BY <1>7 DEF FailRelease, At, host
  <2>2. sess'[s].slot = sess[s].slot /\ \A t \in Sids : t # s => sess'[t] = sess[t]
    BY <1>0, <2>1, FailedType, SlotKept
  <2>3. Holds(s)
    BY <2>1 DEF Holds, BootHolding
  <2> QED
    BY <2>1, <2>2, <2>3, Touched DEF LeaseMove, GivesLease, Procs, PCs
<1> QED
  BY <1>1, <1>2, <1>3, <1>5, <1>6, <1>7 DEF BootStep

LEMMA AgentLease ==
  ASSUME SInv, NEW s \in Sids, AgentStep(s)
  PROVE  LeaseMove(s)
<1>1. UNCHANGED <<inMap, usedSlots, vms>>
  BY DEF AgentStep, AgentUsageLimit, AgentError, AgentDone, maps, host
<1>2. PICK c \in PCs : Goto("boot", s, c)
  BY DEF AgentStep, AgentUsageLimit, AgentError, AgentDone, PCs
<1>3. sess[s] \in Session
  BY Known
<1>4. \/ \E e, st : sess' = [sess EXCEPT ![s] = [sess[s] EXCEPT !.err = e, !.st = st]]
      \/ \E r, st : sess' = [sess EXCEPT ![s] = [sess[s] EXCEPT !.res = r, !.st = st]]
  BY DEF AgentStep, AgentUsageLimit, AgentError, AgentDone
<1>5. sess'[s].slot = sess[s].slot /\ \A t \in Sids : t # s => sess'[t] = sess[t]
  <2>1. \A e, st : [sess[s] EXCEPT !.err = e, !.st = st].slot = sess[s].slot
    BY <1>3 DEF Session
  <2>2. \A r, st : [sess[s] EXCEPT !.res = r, !.st = st].slot = sess[s].slot
    BY <1>3 DEF Session
  <2>3. ASSUME NEW e, NEW st, sess' = [sess EXCEPT ![s] = [sess[s] EXCEPT !.err = e, !.st = st]]
        PROVE  sess'[s].slot = sess[s].slot /\ \A t \in Sids : t # s => sess'[t] = sess[t]
    BY <2>1, <2>3, SlotKept
  <2>4. ASSUME NEW r, NEW st, sess' = [sess EXCEPT ![s] = [sess[s] EXCEPT !.res = r, !.st = st]]
        PROVE  sess'[s].slot = sess[s].slot /\ \A t \in Sids : t # s => sess'[t] = sess[t]
    BY <2>2, <2>4, SlotKept
  <2> QED
    BY <1>4, <2>3, <2>4
<1> QED
  BY <1>1, <1>2, <1>5, Leaves DEF Procs

LEMMA TeardownLease ==
  ASSUME SInv, NEW g \in Procs, NEW s \in Sids, TeardownStep(g, s)
  PROVE  LeaseMove(s)
<1>1. PICK places \in SUBSET DOMAIN Order : Teardown(g, s, places)
  BY DEF TeardownStep, StopVM, DeleteSnapshot, freeSlot, MarkStopped, DropFromMap, DeleteRow,
         CleanupWorkspace, Order
<1>2. PICK c \in PCs : Goto(g, s, c)
  BY <1>1, FollowingType DEF Teardown
<1>3. CASE StopVM(g, s)
  BY <1>2, <1>3, Touched DEF StopVM, maps, LeaseMove, KeepsLease
<1>4. CASE freeSlot(g, s)
  <2>1. /\ pc[g][s] \in {"u_free", "d_free", "k_free"} /\ UNCHANGED <<sess, inMap, vms>>
        /\ usedSlots' = usedSlots \ {sess[s].slot}
    BY <1>4 DEF freeSlot, Teardown, host
  <2>2. Holds(s)
    BY <2>1, Known DEF Holds, BootHolding, StopHolding, Procs, BootOwner, StopOwner, BootPCs, StopPCs
  <2> QED
    BY <1>2, <2>1, <2>2, Touched DEF LeaseMove, GivesLease
<1>5. CASE MarkStopped(g, s)
  <2>1. /\ UNCHANGED <<inMap, usedSlots, vms>>
        /\ \E st : sess' = [sess EXCEPT ![s] = [sess[s] EXCEPT !.st = st]]
    BY <1>5 DEF MarkStopped, maps, host
  <2>2. \A st : [sess[s] EXCEPT !.st = st].slot = sess[s].slot
    BY Known DEF Session
  <2>3. sess'[s].slot = sess[s].slot /\ \A t \in Sids : t # s => sess'[t] = sess[t]
    BY <2>1, <2>2, SlotKept
  <2> QED
    BY <1>2, <2>1, <2>3, Leaves
<1>6. CASE DropFromMap(g, s)
  BY <1>2, <1>6, Leaves DEF DropFromMap, host
<1>7. CASE DeleteSnapshot(g, s) \/ DeleteRow(g, s) \/ CleanupWorkspace(g, s)
  <2>1. UNCHANGED <<sess, inMap, usedSlots, vms>>
    BY <1>7 DEF DeleteSnapshot, DeleteRow, CleanupWorkspace, maps, host
  <2> QED
    BY <1>2, <2>1, Leaves
<1> QED
  BY <1>3, <1>4, <1>5, <1>6, <1>7 DEF TeardownStep

LEMMA ServeLease ==
  ASSUME SInv, Serve
  PROVE  \E s \in Sids : LeaseMove(s)
<1>1. ASSUME NEW s \in Sids, Upsert("stop", s) PROVE LeaseMove(s)
  BY <1>1 DEF Upsert, maps, host, LeaseMove, KeepsLease, SameSession
<1> QED
  BY <1>1, CreateLease, StopLease, BootLease, AgentLease, TeardownLease DEF Serve, Procs

----------------------------------------------------------------------------
(* From the account of the slots before and after a step: a session keeps   *)
(* the slot it holds, gives back that one, or had none and gets a free one. *)

LEMMA OthersHold ==
  ASSUME NEW s \in Sids, LeaseMove(s)
  PROVE  \A t \in Sids : t # s => (Holds(t)' <=> Holds(t)) /\ sess'[t].slot = sess[t].slot
  BY DEF LeaseMove, SameSession, Holds

LEMMA HeldMember ==
  /\ \A l : l \in Held <=> \E t \in Sids : Holds(t) /\ l = <<t, sess[t].slot>>
  /\ \A l : l \in Held' <=> \E t \in Sids : Holds(t)' /\ l = <<t, sess'[t].slot>>
  BY DEF Held, Holders

LEMMA HeldKept ==
  ASSUME SlotInv, SlotInv', NEW s \in Sids, LeaseMove(s), KeepsLease(s)
  PROVE  Held' = Held
<1>1. Holds(s)' <=> Holds(s)
  BY OthersHold DEF SlotInv, KeepsLease
<1>2. \A l : l \in Held' <=> l \in Held
  BY <1>1, OthersHold, HeldMember DEF KeepsLease
<1> QED
  BY <1>2

LEMMA HeldGiven ==
  ASSUME SlotInv, SlotInv', NEW s \in Sids, LeaseMove(s), GivesLease(s)
  PROVE  Held' = Held \ {<<s, sess[s].slot>>} /\ <<s, sess[s].slot>> \in Held /\ ~Holds(s)'
<1>1. Holds(s) /\ ~Holds(s)'
  BY DEF SlotInv, GivesLease
<1>2. \A l : l \in Held' <=> l \in Held /\ l # <<s, sess[s].slot>>
  BY <1>1, OthersHold, HeldMember
<1> QED
  BY <1>1, <1>2, HeldMember

LEMMA HeldTaken ==
  ASSUME SlotInv, SlotInv', NEW s \in Sids, LeaseMove(s), TakesLease(s)
  PROVE  /\ Held' = Held \cup {<<s, sess'[s].slot>>}
         /\ \A l \in Held : l[1] # s /\ l[2] # sess'[s].slot
<1>1. ~Holds(s)
  <2>1. ASSUME Holds(s) PROVE FALSE
    <3>1. sess[s].slot \in usedSlots' /\ sess[s].slot # sess'[s].slot
      BY <2>1 DEF SlotInv, TakesLease
    <3>2. PICK t \in Sids : Holds(t)' /\ sess'[t].slot = sess[s].slot
      BY <3>1 DEF SlotInv
    <3> QED
      BY <2>1, <3>1, <3>2, OthersHold DEF SlotInv
  <2> QED
    BY <2>1
<1>2. Holds(s)'
  <2>1. PICK t \in Sids : Holds(t)' /\ sess'[t].slot = sess'[s].slot
    BY DEF SlotInv, TakesLease
  <2>2. sess'[s].slot \notin usedSlots
    BY DEF TakesLease
  <2> QED
    BY <2>1, <2>2, OthersHold DEF SlotInv
<1>3. \A l : l \in Held' <=> l \in Held \/ l = <<s, sess'[s].slot>>
  BY <1>1, <1>2, OthersHold, HeldMember
<1>4. \A l \in Held : l[1] # s /\ l[2] # sess'[s].slot
  BY <1>1, HeldMember DEF SlotInv, TakesLease
<1> QED
  BY <1>3, <1>4

\* While the server serves every VM runs in a slot that its session holds.
LEMMA Leased == SInv /\ HInv => Leases = Held
<1> SUFFICES ASSUME SInv, HInv PROVE Leases = Held
  OBVIOUS
<1>1. \A x \in vms : x \in Held
  BY VMOwner, HeldMember
<1> QED
  BY <1>1 DEF Leases, Held

LEMMA LeasedNext == (SInv /\ HInv)' => Leases' = Held'
<1>1. (SInv /\ HInv => Leases = Held)'
  BY Leased, PTL
<1> QED
  BY <1>1

\* Each step of a server that serves is one of SlotLease, or none.
LEMMA ServedLease ==
  ASSUME SInv, SInv', HInv, HInv', cursor = 0, cursor' = 0, NEW s \in Sids, LeaseMove(s)
  PROVE  [Lease!Next]_(Lease!vars)
<1> DEFINE l == <<s, sess[s].slot>>
<1>1. Leases = Held /\ Leases' = Held'
  BY Leased, LeasedNext
<1>2. SlotInv /\ SlotInv'
  BY DEF SInv
<1>3. CASE KeepsLease(s)
  <2>1. Leases' = Leases
    BY <1>1, <1>2, <1>3, HeldKept
  <2>2. CASE vms' = vms
    BY <2>1, <2>2 DEF Lease!vars
  <2>3. CASE Holds(s) /\ vms' = vms \cup {l}
    <3>1. l \in Leases
      BY <1>1, <2>3, HeldMember
    <3>2. Lease!PowerOn(l)
      BY <2>1, <2>3 DEF Lease!PowerOn
    <3> QED
      BY <3>1, <3>2 DEF Lease!Next
  <2>4. CASE vms' = vms \ Victims(s) /\ vms' # vms
    <3>1. PICK x \in vms : x \in Victims(s)
      BY <2>4
    <3>2. \A y \in Victims(s) : y = x
      <4>1. \A y \in Victims(s) : y \in vms /\ y[2] = sess[s].slot
        BY DEF Victims
      <4> QED
        BY <3>1, <4>1, VMsHaveSlots DEF OneVMPerSlot
    <3>3. x \in Leases /\ vms' = vms \ {x}
      BY <2>4, <3>1, <3>2 DEF Leases
    <3>4. Lease!PowerOff(x)
      BY <2>1, <3>3 DEF Lease!PowerOff
    <3> QED
      BY <3>3, <3>4 DEF Lease!Next
  <2> QED
    BY <1>3, <2>2, <2>3, <2>4 DEF KeepsLease
<1>4. CASE GivesLease(s)
  <2>1. Leases' = Leases \ {l} /\ l \in Leases /\ ~Holds(s)' /\ vms' = vms
    BY <1>1, <1>2, <1>4, HeldGiven DEF GivesLease
  <2>2. l \notin vms
    <3>1. \A x \in vms' : x \in Held'
      BY <1>1 DEF Leases
    <3> QED
      BY <2>1, <3>1, HeldMember
  <2>3. Lease!Return(l)
    BY <2>1, <2>2 DEF Lease!Return
  <2> QED
    BY <2>1, <2>3 DEF Lease!Next
<1>5. CASE TakesLease(s)
  <2>1. /\ Leases' = Leases \cup {<<s, sess'[s].slot>>} /\ vms' = vms /\ sess'[s].slot \in Pool
        /\ \A m \in Leases : m[1] # s /\ m[2] # sess'[s].slot
    BY <1>1, <1>2, <1>5, HeldTaken DEF TakesLease
  <2>2. Lease!Grant(s, sess'[s].slot)
    BY <2>1 DEF Lease!Grant
  <2> QED
    BY <2>1, <2>2 DEF Lease!Next
<1> QED
  BY <1>3, <1>4, <1>5 DEF LeaseMove

LEMMA LeasesUnchanged ==
  ASSUME UNCHANGED vars
  PROVE  UNCHANGED Lease!vars
  BY DEF vars, maps, host, bounds, Lease!vars, Leases, Holders, Holds

LEMMA InitLease == Init => Lease!Init
<1> SUFFICES ASSUME Init PROVE Lease!Init
  OBVIOUS
<1>1. Holders = {}
  BY DEF Init, Holders, Holds, BootHolding, StopHolding, Procs
<1> QED
  BY <1>1 DEF Init, Leases, Lease!Init

\* In one life of the server, whatever fails and however goroutines stall, every
\* step is one of SlotLease: Create is granted a free slot of the pool, a VM is
\* launched only by the session that has the slot, and freeSlot or fail() give
\* it back only when the VM is gone.
THEOREM LeasesKept == ASSUME OneLife, WorkspacesWork PROVE Spec => LeasePromise
<1>1. ASSUME FirstLife, HInv, FirstLife', HInv', [Next]_vars PROVE [Lease!Next]_(Lease!vars)
  <2>1. [Serve]_vars
    BY <1>1, NextFirstLife
  <2>2. CASE Serve
    BY <1>1, <2>2, ServeLease, ServedLease DEF FirstLife
  <2>3. CASE UNCHANGED vars
    BY <2>3, LeasesUnchanged
  <2> QED
    BY <2>1, <2>2, <2>3
<1> QED
  BY InitLease, HostAccounted, <1>1, PTL DEF Spec, LeasePromise, Lease!Spec

\* What SlotLease promises: a VM runs on a lease, and no two leases are of one
\* session or of one slot.
Exclusive ==
  /\ vms \subseteq Leases
  /\ \A l, m \in Leases : l[1] = m[1] \/ l[2] = m[2] => l = m

\* Whoever leases slots as SlotLease says never has two sessions in one slot, a
\* session in two, or a VM in a slot that nobody has.
THEOREM LeasesExclude == LeasePromise => []Exclusive
<1>1. Lease!Init => Exclusive
  BY DEF Lease!Init, Exclusive
<1>2. Exclusive /\ [Lease!Next]_(Lease!vars) => Exclusive'
  <2> SUFFICES ASSUME Exclusive, [Lease!Next]_(Lease!vars) PROVE Exclusive'
    OBVIOUS
  <2>1. ASSUME NEW o \in Sids, NEW i \in Pool, Lease!Grant(o, i) PROVE Exclusive'
    BY <2>1 DEF Lease!Grant, Exclusive
  <2>2. ASSUME NEW l \in Leases,
               \/ Lease!PowerOn(l) \/ Lease!PowerOff(l)
               \/ Lease!Return(l) \/ Lease!Evict(l)
        PROVE  Exclusive'
    BY <2>2 DEF Lease!PowerOn, Lease!PowerOff, Lease!Return, Lease!Evict, Exclusive
  <2>3. CASE Lease!Lose \/ Lease!Resume
    <3>1. vms' \subseteq vms /\ Leases' = vms'
      BY <2>3 DEF Lease!Lose, Lease!Resume
    <3> QED
      BY <3>1 DEF Exclusive
  <2>4. CASE UNCHANGED Lease!vars
    BY <2>4 DEF Lease!vars, Exclusive
  <2> QED
    BY <2>1, <2>2, <2>3, <2>4 DEF Lease!Next
<1> QED
  BY <1>1, <1>2, PTL DEF LeasePromise, Lease!Spec

----------------------------------------------------------------------------
(* The rows of the sessions with a VM.  Here a goroutine is not held up     *)
(* between building its row and writing it (~Stall: the run stop_race shows *)
(* what happens otherwise), every row is written (the run stale_row), and   *)
(* no agent hits its usage limit, which takes the session out of the map    *)
(* and leaves its row at "ready".                                           *)

Orderly == ~Stall /\ "usage" \notin Outcomes /\ "store" \notin Faults

\* The states in which a session may have a VM.
Busy == PreReady \cup {"ready", "stopping"}

\* A row that is yet to be written is the current one, of a session that still
\* has its slot or is over; when none is, the row in the store has the state,
\* slot and repository of the session, and its role unless the server has
\* crashed since; a row without a session is about to be deleted, or that of a
\* finished agent; and a session with a VM has a row that leads to it.
Rowed(s) ==
  /\ \A g \in Procs : pend[g][s] # NoRow =>
       /\ s \in inMap /\ pend[g][s] = RowOf(sess[s])
       /\ pc["boot"][s] \notin {"f_failed", "d_stopped"} /\ pc["stop"][s] # "k_stopped"
  /\ s \in inMap /\ (\A g \in Procs : pend[g][s] = NoRow) =>
       /\ rows[s] # NoRow /\ rows[s].st = sess[s].st /\ rows[s].slot = sess[s].slot
       /\ rows[s].repo = sess[s].repo
       /\ pc["boot"][s] # "idle" => rows[s].role = sess[s].role
  /\ s \notin inMap =>
       \/ rows[s] = NoRow
       \/ pc["stop"][s] \in {"k_delrow", "forget"} /\ rows[s].st \in {"stopped", "failed"}
       \/ (rows[s].st = "stopped" /\ rows[s].role # "interactive")
  /\ pc["boot"][s] \in {"agent", "d_kill", "d_snap", "d_free", "d_stopped", "d_drop"} =>
       sess[s].role # "interactive"
  /\ pc["boot"][s] \notin {"u_kill", "u_snap", "u_free", "u_drop"}
  /\ pc["stop"][s] \in {"k_kill", "k_snap", "k_free", "k_stopped", "k_drop"} => s \in inMap
  /\ RunsVM(s) => /\ rows[s] # NoRow /\ rows[s].st \in Busy /\ rows[s].slot = sess[s].slot
                  /\ rows[s].repo = sess[s].repo

RInv == \A s \in Sids : Rowed(s)

\* A step leaves the rows of session t, written and unwritten, alone.
SameRows(t) ==
  /\ rows'[t] = rows[t]
  /\ pend'["boot"][t] = pend["boot"][t] /\ pend'["stop"][t] = pend["stop"][t]

\* A goroutine that builds a row leaves all others alone.
LEMMA PersistEffect ==
  ASSUME SInv, NEW g \in Procs, NEW s \in Sids, persistSession(g, s) \/ pend' = pend
  PROVE  /\ \A h \in Procs, t \in Sids : t # s \/ h # g => pend'[h][t] = pend[h][t]
         /\ persistSession(g, s) => pend'[g][s] = RowOf(sess'[s])
  BY Known DEF persistSession, PendType

\* A session with a VM is in one of these states.
LEMMA RunsBusy ==
  ASSUME SInv, NEW s \in Sids, RunsVM(s)
  PROVE  sess[s].st \in Busy
  BY Known DEF RunsVM, AtRest, BootOwner, StopOwner, Busy, PreReady

LEMMA RowedFrame ==
  ASSUME RInv, NEW s \in Sids, Rowed(s)',
         \A t \in Sids : t # s => SameSession(t) /\ SameRows(t)
  PROVE  RInv'
<1>1. ASSUME NEW t \in Sids, t # s PROVE Rowed(t)'
  <2>1. SameSession(t) /\ SameRows(t) /\ Rowed(t)
    BY <1>1 DEF RInv
  <2>2. RunsVM(t)' <=> RunsVM(t)
    BY <2>1 DEF SameSession, RunsVM, AtRest
  <2> QED
    BY <2>1, <2>2 DEF Rowed, SameSession, SameRows, Procs
<1> QED
  BY <1>1 DEF RInv

LEMMA RowedStep ==
  ASSUME SInv, RInv, NEW g \in Procs, NEW s \in Sids, NEW c \in PCs, Goto(g, s, c),
         \A t \in Sids : t # s => sess'[t] = sess[t] /\ (t \in inMap' <=> t \in inMap),
         persistSession(g, s) \/ pend' = pend,
         \A t \in Sids : t # s => rows'[t] = rows[t],
         Rowed(s)'
  PROVE  RInv'
<1>1. \A h \in Procs, t \in Sids : t # s => pc'[h][t] = pc[h][t]
  BY Known, GotoEffect
<1>2. ASSUME NEW t \in Sids, t # s PROVE SameSession(t) /\ SameRows(t)
  BY <1>1, <1>2, PersistEffect DEF SameSession, SameRows, Procs
<1> QED
  BY <1>2, RowedFrame

\* While a goroutine takes a step of its own, every row of its session is
\* written.
LEMMA AllWritten ==
  ASSUME Orderly, NEW s \in Sids, (\E g \in Procs, c \in PCs : At(g, s, c)) \/ Calm({})
  PROVE  \A g \in Procs : pend[g][s] = NoRow
  BY DEF Orderly, At, Calm

\* The row that persistSession leaves to be written is the current one.
LEMMA PersistedRow ==
  ASSUME SInv, NEW g \in Procs, NEW s \in Sids, persistSession(g, s),
         \A h \in Procs : pend[h][s] = NoRow, sess'[s].st \in States, s \in inMap'
  PROVE  /\ \A h \in Procs : pend'[h][s] # NoRow => s \in inMap' /\ pend'[h][s] = RowOf(sess'[s])
         /\ ~(\A h \in Procs : pend'[h][s] = NoRow)
<1>1. pend'[g][s] = RowOf(sess'[s]) /\ \A h \in Procs : h # g => pend'[h][s] = NoRow
  BY PersistEffect
<1>2. RowOf(sess'[s]) # NoRow
  BY DEF RowOf, NoRow, States
<1> QED
  BY <1>1, <1>2

\* A step of boot from one place to another, which builds a row or does not
\* change the state; slot, role and repository stay.
LEMMA BootRowed ==
  ASSUME SInv, SInv', RInv, NEW s \in Sids, NEW c \in PCs \ {"u_kill", "u_snap", "u_free", "u_drop"},
         Goto("boot", s, c), pc["boot"][s] \notin {"idle", "rmws", "d_drop"},
         \A g \in Procs : pend[g][s] = NoRow,
         inMap' = inMap, rows' = rows,
         \A t \in Sids : t # s => sess'[t] = sess[t],
         sess'[s].role = sess[s].role, sess'[s].slot = sess[s].slot, sess'[s].repo = sess[s].repo,
         \/ persistSession("boot", s) /\ c \notin {"f_failed", "d_stopped"}
         \/ pend' = pend /\ sess'[s].st = sess[s].st,
         c \in {"agent", "d_kill", "d_snap", "d_free", "d_stopped", "d_drop"} =>
           sess[s].role # "interactive"
  PROVE  RInv'
<1>1. s \in inMap /\ Rowed(s) /\ sess'[s].st \in States
  BY BootAtWork DEF RInv, SInv, TInv, Live
<1>2. pc'["boot"][s] = c /\ pc'["stop"][s] = "idle" /\ pc["stop"][s] = "idle"
  BY Goes, BootAtWork DEF Procs
<1>3. sess[s].st \in Busy
  BY Known DEF BootOwner, BootPCs, Busy, PreReady
<1>4. /\ rows'[s] # NoRow /\ rows'[s].st \in Busy /\ rows'[s].slot = sess'[s].slot
      /\ rows'[s].repo = sess'[s].repo
  BY <1>1, <1>3 DEF Rowed
<1>5. CASE persistSession("boot", s) /\ c \notin {"f_failed", "d_stopped"}
  <2>1. /\ \A h \in Procs : pend'[h][s] # NoRow => s \in inMap' /\ pend'[h][s] = RowOf(sess'[s])
        /\ ~(\A h \in Procs : pend'[h][s] = NoRow)
    BY <1>1, <1>5, PersistedRow DEF Procs
  <2>2. Rowed(s)'
    BY <1>1, <1>2, <1>4, <1>5, <2>1 DEF Rowed
  <2> QED
    BY <1>5, <2>2, RowedStep DEF Procs
<1>6. CASE pend' = pend /\ sess'[s].st = sess[s].st
  <2>1. Rowed(s)'
    BY <1>1, <1>2, <1>4, <1>6 DEF Rowed
  <2> QED
    BY <1>6, <2>1, RowedStep DEF Procs
<1> QED
  BY <1>5, <1>6

LEMMA CreateRowed ==
  ASSUME Orderly, SInv, SInv', RInv, NEW role \in Roles, NEW repo \in Repos, Create(role, repo)
  PROVE  RInv'
<1> USE ConstantsAssumption
<1>1. PICK s \in Sids : s = created + 1
  BY DEF Create, Sids, SInv, TInv, TypeOK
<1>2. PICK i \in SlotCandidates :
        sess' = [sess EXCEPT ![s] = [NoSession EXCEPT
                   !.slot = i, !.st = "provisioning", !.role = role, !.repo = repo]]
  BY <1>1 DEF Create
<1>3. \A t \in Sids : t # s => sess'[t] = sess[t]
  BY <1>2, Known
<1>4. /\ Goto("boot", s, "clone") /\ persistSession("boot", s) /\ rows' = rows
      /\ inMap' = inMap \cup {s} /\ Calm({})
  BY <1>1 DEF Create
<1>5. pc'["boot"][s] = "clone" /\ s \in inMap' /\ sess'[s].st \in States
  BY <1>4, Goes DEF Procs, PCs, SInv, TInv, Live
<1>6. Rowed(s)'
  <2>1. pc'["stop"][s] = "idle" /\ ~RunsVM(s)'
    <3>1. StopOwner(s)'
      BY DEF SInv, Owner
    <3> QED
      BY <1>5, <3>1 DEF RunsVM, AtRest, StopOwner
  <2>2. /\ \A h \in Procs : pend'[h][s] # NoRow => s \in inMap' /\ pend'[h][s] = RowOf(sess'[s])
        /\ ~(\A h \in Procs : pend'[h][s] = NoRow)
    BY <1>4, <1>5, AllWritten, PersistedRow DEF Procs
  <2> QED
    BY <1>5, <2>1, <2>2 DEF Rowed
<1> QED
  BY <1>3, <1>4, <1>6, RowedStep DEF Procs, PCs

LEMMA StopRowed ==
  ASSUME ~StopMidRun, Orderly, SInv, SInv', RInv, NEW s \in Sids, Stop(s) \/ StopTerminal(s)
  PROVE  RInv'
<1>1. /\ s \in inMap /\ rows' = rows /\ \A g \in Procs : pend[g][s] = NoRow
      /\ pc["boot"][s] \notin AgentAtWork /\ Rowed(s)
  BY AllWritten DEF Stop, StopAccepted, StopTerminal, StopCallable, RInv
<1>2. CASE Stop(s)
  <2>1. StopAccepted(s) /\ Goto("stop", s, "k_kill") /\ inMap' = inMap
    BY <1>2 DEF Stop, maps
  <2>2. /\ sess'[s].st = "stopping" /\ sess'[s].role = sess[s].role
        /\ sess'[s].slot = sess[s].slot /\ sess'[s].repo = sess[s].repo
        /\ sess[s].st = "ready" /\ persistSession("stop", s)
        /\ \A t \in Sids : t # s => sess'[t] = sess[t]
    BY <2>1, StopKeeps DEF SameObject
  <2>3. pc'["boot"][s] = pc["boot"][s] /\ pc'["stop"][s] = "k_kill"
    BY <2>1, Goes DEF Procs, PCs
  <2>4. Rowed(s)'
    <3>1. sess[s].st = "ready" /\ "ready" \in Busy
      BY <2>2 DEF Busy
    <3>2. pc["boot"][s] = "idle"
      BY <1>1, <3>1, Known DEF AgentAtWork, BootOwner, BootPCs, PreReady
    <3>3. /\ \A h \in Procs : pend'[h][s] # NoRow => s \in inMap' /\ pend'[h][s] = RowOf(sess'[s])
          /\ ~(\A h \in Procs : pend'[h][s] = NoRow)
      BY <1>1, <2>1, <2>2, PersistedRow DEF Procs, States
    <3> QED
      BY <1>1, <2>1, <2>2, <2>3, <3>1, <3>2, <3>3 DEF Rowed
  <2> QED
    BY <1>1, <2>1, <2>2, <2>4, RowedStep DEF Procs, PCs
<1>3. CASE StopTerminal(s)
  <2>1. /\ Goto("stop", s, "forget") /\ inMap' = inMap \ {s} /\ pend' = pend
        /\ SameObject(s) /\ sess'[s].st = sess[s].st
        /\ \A t \in Sids : t # s => sess'[t] = sess[t]
    BY <1>3, StopTerminalKeeps DEF StopTerminal
  <2>2. pc'["boot"][s] = pc["boot"][s] /\ pc'["stop"][s] = "forget"
    BY <2>1, Goes DEF Procs, PCs
  <2>3. Rowed(s)'
    <3>1. pc["boot"][s] = "idle" /\ sess[s].st \in {"stopped", "failed"}
      BY <1>1, <1>3, Known DEF StopTerminal, AgentAtWork, BootOwner, BootPCs, PreReady
    <3>2. ~RunsVM(s)'
      BY <2>1, <2>2, <3>1 DEF RunsVM, AtRest
    <3> QED
      BY <1>1, <2>1, <2>2, <3>1, <3>2 DEF Rowed
  <2> QED
    BY <1>1, <2>1, <2>3, RowedStep DEF Procs, PCs
<1> QED
  BY <1>2, <1>3

LEMMA UpsertRowed ==
  ASSUME Orderly, SInv, RInv, NEW g \in Procs, NEW s \in Sids, Upsert(g, s)
  PROVE  RInv'
<1>1. /\ UNCHANGED <<inMap, sess, pc>> /\ pend[g][s] # NoRow
      /\ Stored(s, pend[g][s])
      /\ pend' = [pend EXCEPT ![g][s] = NoRow]
  BY DEF Upsert, maps
<1>2. rows \in [Sids -> Row \cup {NoRow}] /\ pend \in PendType
  BY DEF SInv, TInv, TypeOK, PendType
<1>3. rows'[s] = pend[g][s] /\ \A t \in Sids : t # s => rows'[t] = rows[t]
  BY <1>1, <1>2, StoredEffect DEF Orderly, PendType
<1>4. /\ pend'[g][s] = NoRow
      /\ \A h \in Procs, t \in Sids : t # s \/ h # g => pend'[h][t] = pend[h][t]
  BY <1>1, <1>2 DEF PendType
<1>5. \A t \in Sids : t # s => SameSession(t) /\ SameRows(t)
  BY <1>1, <1>3, <1>4 DEF SameSession, SameRows, Procs
<1>6. Rowed(s) /\ s \in inMap /\ pend[g][s] = RowOf(sess[s])
  BY <1>1 DEF RInv, Rowed
<1>7. /\ rows'[s].st = sess[s].st /\ rows'[s].slot = sess[s].slot
      /\ rows'[s].role = sess[s].role /\ rows'[s].repo = sess[s].repo /\ rows'[s] # NoRow
  BY <1>1, <1>3, <1>6 DEF RowOf
<1>8. Rowed(s)'
  <2>1. RunsVM(s)' => sess[s].st \in Busy
    BY <1>1, RunsBusy DEF RunsVM, AtRest
  <2> QED
    BY <1>1, <1>4, <1>6, <1>7, <2>1 DEF Rowed
<1> QED
  BY <1>5, <1>8, RowedFrame

LEMMA BootStepRowed ==
  ASSUME Orderly, SInv, SInv', RInv, NEW s \in Sids, BootStep(s)
  PROVE  RInv'
<1> DEFINE b == pc["boot"][s]
           Early == /\ b \in {"clone", "snapshot", "inject", "launch", "ssh", "setup",
                              "f_release", "f_failed"}
                    /\ \A g \in Procs : pend[g][s] = NoRow
                    /\ inMap' = inMap /\ rows' = rows
<1>1. CASE Upsert("boot", s)
  BY <1>1, UpsertRowed DEF Procs
<1>a. sess[s] \in Session /\ sess \in [Sids -> Session]
  BY Known
<1>b. ASSUME NEW c \in {"clone", "snapshot", "inject", "launch", "ssh", "setup",
                        "f_release", "f_failed"},
             At("boot", s, c), inMap' = inMap, rows' = rows
      PROVE  Early
  BY <1>b, AllWritten DEF At, Procs, PCs
<1>c. ASSUME Early PROVE b \notin {"idle", "rmws", "d_drop"}
  BY <1>c
<1>d. Early => /\ \A g \in Procs : pend[g][s] = NoRow
               /\ inMap' = inMap /\ rows' = rows
  OBVIOUS
<1>e. ASSUME NEW c \in {"snapshot", "inject", "launch", "ssh", "setup", "idle",
                        "f_kill", "f_snap", "f_release", "f_failed"}
      PROVE  c \in PCs \ {"u_kill", "u_snap", "u_free", "u_drop"}
             /\ c \notin {"agent", "d_kill", "d_snap", "d_free", "d_stopped", "d_drop"}
  BY DEF PCs
<1> HIDE DEF Early, b
<1>2. ASSUME NEW to, NEW c \in {"launch", "setup", "idle"},
             Early, Transition("boot", s, to), Goto("boot", s, c)
      PROVE  RInv'
  BY <1>2, <1>c, <1>d, <1>e, TransitionKeeps, BootRowed DEF Procs, Transition, b, SameObject
<1>3. ASSUME NEW c \in {"snapshot", "inject", "launch", "ssh", "setup", "idle",
                        "f_kill", "f_snap", "f_release", "f_failed"},
             Early, Goto("boot", s, c), UNCHANGED <<sess, pend>>
      PROVE  RInv'
  BY <1>3, <1>c, <1>d, <1>e, BootRowed DEF b
<1>4. CASE Clone(s)
  <2>1. Early /\ Goto("boot", s, "snapshot") /\ pend' = pend
    BY <1>4, <1>b DEF Clone, maps
  <2>2. sess' = sess \/ sess' = [sess EXCEPT ![s].wsp = TRUE]
    BY <1>4 DEF Clone
  <2>3. /\ sess'[s].st = sess[s].st /\ sess'[s].slot = sess[s].slot /\ sess'[s].role = sess[s].role
        /\ sess'[s].repo = sess[s].repo /\ \A t \in Sids : t # s => sess'[t] = sess[t]
    BY <1>a, <2>1, <2>2 DEF Session
  <2> QED
    BY <1>c, <1>d, <1>e, <2>1, <2>3, BootRowed DEF b
<1>5. CASE CreateSnapshot(s)
  BY <1>5, <1>3, <1>b DEF CreateSnapshot, maps
<1>6. CASE InjectNetworkConfig(s)
  BY <1>6, <1>2, <1>3, <1>b DEF InjectNetworkConfig, ThenTransition, maps
<1>7. CASE Launch(s)
  <2>1. Early
    BY <1>7, <1>b DEF Launch, maps
  <2>2. \/ /\ sess' = [sess EXCEPT ![s] = [sess[s] EXCEPT !.v = "own", !.st = "waiting_ssh"]]
           /\ persistSession("boot", s) /\ Goto("boot", s, "ssh")
        \/ Goto("boot", s, "f_snap") /\ UNCHANGED <<sess, pend>>
    BY <1>7 DEF Launch
  <2>3. CASE /\ sess' = [sess EXCEPT ![s] = [sess[s] EXCEPT !.v = "own", !.st = "waiting_ssh"]]
             /\ persistSession("boot", s) /\ Goto("boot", s, "ssh")
    <3>1. /\ sess'[s].slot = sess[s].slot /\ sess'[s].role = sess[s].role
          /\ sess'[s].repo = sess[s].repo /\ \A t \in Sids : t # s => sess'[t] = sess[t]
      BY <1>a, <2>1, <2>3 DEF Session
    <3> QED
      BY <1>c, <1>d, <1>e, <2>1, <2>3, <3>1, BootRowed DEF b
  <2> QED
    BY <1>3, <2>1, <2>2, <2>3
<1>8. CASE WaitForSSH(s)
  BY <1>8, <1>2, <1>3, <1>b DEF WaitForSSH, ThenTransition, maps
<1>9. CASE Setup(s)
  <2>1. Early
    BY <1>9, <1>b DEF Setup, maps
  <2>2. CASE Goto("boot", s, "f_release") /\ UNCHANGED <<sess, pend>>
    BY <1>3, <2>1, <2>2
  <2>3. CASE /\ Transition("boot", s, "ready")
             /\ Goto("boot", s, IF sess[s].role = "interactive" THEN "idle" ELSE "agent")
    <3>1. CASE sess[s].role = "interactive"
      BY <1>2, <2>1, <2>3, <3>1
    <3>2. CASE sess[s].role # "interactive"
      <4>1. "agent" \in PCs \ {"u_kill", "u_snap", "u_free", "u_drop"}
        BY DEF PCs
      <4> QED
        BY <1>c, <1>d, <2>1, <2>3, <3>2, <4>1, TransitionKeeps, BootRowed
        DEF Procs, Transition, b, SameObject
    <3> QED
      BY <3>1, <3>2
  <2> QED
    BY <1>9, <2>2, <2>3 DEF Setup
<1>10. CASE FailRelease(s)
  <2>1. /\ Early /\ Goto("boot", s, "f_failed") /\ pend' = pend
        /\ sess' = [sess EXCEPT ![s].err = "other"]
    BY <1>10, <1>b DEF FailRelease
  <2>2. /\ sess'[s].st = sess[s].st /\ sess'[s].slot = sess[s].slot /\ sess'[s].role = sess[s].role
        /\ sess'[s].repo = sess[s].repo /\ \A t \in Sids : t # s => sess'[t] = sess[t]
    BY <1>a, <2>1 DEF Session
  <2> QED
    BY <1>c, <1>d, <1>e, <2>1, <2>2, BootRowed DEF b
<1>11. CASE FailTransition(s)
  BY <1>11, <1>2, <1>b DEF FailTransition, maps
<1> QED
  BY <1>1, <1>4, <1>5, <1>6, <1>7, <1>8, <1>9, <1>10, <1>11 DEF BootStep

LEMMA AgentRowed ==
  ASSUME Orderly, SInv, SInv', RInv, NEW s \in Sids, AgentStep(s)
  PROVE  RInv'
<1>1. /\ inMap' = inMap /\ rows' = rows /\ At("boot", s, "agent") /\ pc["boot"][s] = "agent"
  BY DEF AgentStep, AgentUsageLimit, AgentError, AgentDone, At, maps
<1>2. /\ sess[s] \in Session /\ sess \in [Sids -> Session] /\ sess[s].st = "ready"
      /\ sess[s].role # "interactive" /\ \A g \in Procs : pend[g][s] = NoRow
  BY <1>1, Known, AllWritten DEF BootOwner, RInv, Rowed, Procs, PCs
<1>3. ~CanTransition("ready", "failed") /\ TryState("ready", "failed") = "ready"
  BY DEF TryState, CanTransition, validTransitions
<1>4. CASE AgentError(s)
  <2>1. /\ sess' = [sess EXCEPT ![s] = [sess[s] EXCEPT !.err = "other", !.st = "ready"]]
        /\ Goto("boot", s, "idle") /\ pend' = pend
    BY <1>2, <1>3, <1>4 DEF AgentError
  <2>2. /\ sess'[s].st = sess[s].st /\ sess'[s].slot = sess[s].slot /\ sess'[s].role = sess[s].role
        /\ sess'[s].repo = sess[s].repo /\ \A t \in Sids : t # s => sess'[t] = sess[t]
    BY <1>2, <2>1 DEF Session
  <2> QED
    BY <1>1, <1>2, <2>1, <2>2, BootRowed DEF PCs
<1>5. CASE AgentDone(s)
  <2>1. PICK r, st : sess' = [sess EXCEPT ![s] = [sess[s] EXCEPT !.res = r, !.st = st]]
    BY <1>5 DEF AgentDone
  <2>2. /\ sess'[s].slot = sess[s].slot /\ sess'[s].role = sess[s].role
        /\ sess'[s].repo = sess[s].repo /\ \A t \in Sids : t # s => sess'[t] = sess[t]
    BY <1>2, <2>1 DEF Session
  <2>3. Goto("boot", s, "d_kill") /\ persistSession("boot", s)
    BY <1>5 DEF AgentDone
  <2> QED
    BY <1>1, <1>2, <2>2, <2>3, BootRowed DEF PCs
<1>6. ~AgentUsageLimit(s)
  BY DEF Orderly, AgentUsageLimit, Ends
<1> QED
  BY <1>4, <1>5, <1>6 DEF AgentStep

\* Boot's teardown leaves the row of a finished agent, and of nothing else,
\* without a session.
LEMMA BootTeardownRowed ==
  ASSUME Orderly, SInv, SInv', RInv, NEW s \in Sids, TeardownStep("boot", s)
  PROVE  RInv'
<1> DEFINE c == pc["boot"][s]
           d == Following(c)
<1>1. PICK places \in SUBSET DOMAIN Order : Teardown("boot", s, places)
  <2>1. /\ {"f_kill", "u_kill", "d_kill", "k_kill"} \subseteq DOMAIN Order
        /\ {"f_snap", "u_snap", "d_snap", "k_snap"} \subseteq DOMAIN Order
        /\ {"u_free", "d_free", "k_free"} \subseteq DOMAIN Order
        /\ {"d_stopped", "k_stopped"} \subseteq DOMAIN Order
        /\ {"u_drop", "d_drop", "k_drop"} \subseteq DOMAIN Order
        /\ {"k_delrow", "forget"} \subseteq DOMAIN Order
        /\ {"rmws"} \subseteq DOMAIN Order
    BY DEF Order
  <2> QED
    BY <2>1 DEF TeardownStep, StopVM, DeleteSnapshot, freeSlot, MarkStopped, DropFromMap,
                DeleteRow, CleanupWorkspace
<1>2. c \in DOMAIN Order /\ At("boot", s, c) /\ Goto("boot", s, d) /\ d \in PCs /\ c # "idle"
  <2>1. c \in DOMAIN Order /\ At("boot", s, c) /\ Goto("boot", s, d)
    BY <1>1 DEF Teardown
  <2> QED
    BY <2>1, FollowingType DEF Order
<1>3. /\ c \in {"f_kill", "f_snap", "d_kill", "d_snap", "d_free", "d_stopped", "d_drop", "rmws"}
      /\ Rowed(s)
  BY <1>2, Known DEF BootOwner, BootPCs, RInv, Rowed, Order
<1>4. /\ sess[s] \in Session /\ sess \in [Sids -> Session]
      /\ \A g \in Procs : pend[g][s] = NoRow
  <2>1. c \in PCs
    BY Known DEF Procs
  <2> QED
    BY <1>2, <2>1, Known, AllWritten DEF Procs
<1>5. pc'["boot"][s] = d /\ pc'["stop"][s] = "idle" /\ pc["stop"][s] = "idle"
  BY <1>2, Goes, BootAtWork DEF Procs
<1>6. CASE c \in {"f_kill", "f_snap", "d_kill", "d_snap", "d_free", "d_stopped"}
  <2>1. /\ d \in PCs \ {"u_kill", "u_snap", "u_free", "u_drop"}
        /\ d \in {"d_snap", "d_free", "d_stopped", "d_drop"} =>
             c \in {"d_kill", "d_snap", "d_free", "d_stopped"}
        /\ d \notin {"agent", "d_kill"}
    BY <1>2, <1>6 DEF Following, Order
  <2>2. d \in {"agent", "d_kill", "d_snap", "d_free", "d_stopped", "d_drop"} =>
          sess[s].role # "interactive"
    BY <1>3, <2>1 DEF Rowed
  <2>3. CASE MarkStopped("boot", s)
    <3>1. /\ sess' = [sess EXCEPT ![s] = [sess[s] EXCEPT !.st = TryState(sess[s].st, "stopped")]]
          /\ persistSession("boot", s) /\ inMap' = inMap /\ rows' = rows
      BY <2>3 DEF MarkStopped, maps
    <3>2. /\ sess'[s].slot = sess[s].slot /\ sess'[s].role = sess[s].role
          /\ sess'[s].repo = sess[s].repo /\ \A t \in Sids : t # s => sess'[t] = sess[t]
      BY <1>4, <3>1 DEF Session
    <3>3. d = "d_drop"
      BY <1>6, <2>3 DEF MarkStopped, Teardown, Following, Order
    <3> HIDE DEF d
    <3> QED
      BY <1>2, <1>4, <1>6, <2>1, <2>2, <3>1, <3>2, <3>3, BootRowed
  <2>4. CASE ~MarkStopped("boot", s)
    <3>1. inMap' = inMap /\ rows' = rows /\ UNCHANGED <<sess, pend>>
      BY <1>6, <2>4 DEF TeardownStep, StopVM, DeleteSnapshot, freeSlot, DropFromMap, DeleteRow,
                        CleanupWorkspace, Teardown, maps
    <3> HIDE DEF d
    <3> QED
      BY <1>2, <1>4, <1>6, <2>1, <2>2, <3>1, BootRowed
  <2> QED
    BY <2>3, <2>4
<1>7. CASE c = "d_drop"
  <2>1. DropFromMap("boot", s) /\ inMap' = inMap \ {s} /\ UNCHANGED <<sess, pend, rows>>
    BY <1>7 DEF TeardownStep, StopVM, DeleteSnapshot, freeSlot, MarkStopped, DropFromMap, DeleteRow,
                CleanupWorkspace, Teardown
  <2>2. d = "rmws"
    BY <1>7 DEF Following, Order
  <2>3. sess[s].st = "stopped" /\ sess[s].role # "interactive" /\ s \in inMap
    BY <1>3, <1>7, Known DEF BootOwner, Rowed
  <2>4. rows[s].st = "stopped" /\ rows[s].role # "interactive"
    BY <1>3, <1>4, <2>3 DEF Rowed
  <2>5. Rowed(s)'
    <3>1. ~RunsVM(s)'
      BY <1>5, <2>1, <2>2 DEF RunsVM, AtRest
    <3> QED
      BY <1>4, <1>5, <2>1, <2>2, <2>4, <3>1 DEF Rowed
  <2> HIDE DEF d
  <2> QED
    BY <1>2, <2>1, <2>5, RowedStep DEF Procs
<1>8. CASE c = "rmws"
  <2>1. /\ inMap' = inMap /\ UNCHANGED <<sess, pend, rows>>
    BY <1>8 DEF TeardownStep, StopVM, DeleteSnapshot, freeSlot, MarkStopped, DropFromMap, DeleteRow,
                CleanupWorkspace, Teardown, maps
  <2>2. d = "idle"
    BY <1>8 DEF Following, Order
  <2>3. Rowed(s)'
    <3>1. s \notin inMap /\ ~RunsVM(s)'
      BY <1>5, <1>8, <2>1, <2>2, Known DEF RunsVM, AtRest, BootOwner
    <3> QED
      BY <1>3, <1>5, <2>1, <2>2, <3>1 DEF Rowed
  <2> HIDE DEF d
  <2> QED
    BY <1>2, <2>1, <2>3, RowedStep DEF Procs
<1> QED
  BY <1>3, <1>6, <1>7, <1>8

\* Stop's goroutine takes the session out of the map and then deletes its
\* row.
LEMMA StopTeardownRowed ==
  ASSUME Orderly, SInv, SInv', RInv, NEW s \in Sids, TeardownStep("stop", s)
  PROVE  RInv'
<1> DEFINE c == pc["stop"][s]
           d == Following(c)
<1>1. PICK places \in SUBSET DOMAIN Order : Teardown("stop", s, places)
  <2>1. /\ {"f_kill", "u_kill", "d_kill", "k_kill"} \subseteq DOMAIN Order
        /\ {"f_snap", "u_snap", "d_snap", "k_snap"} \subseteq DOMAIN Order
        /\ {"u_free", "d_free", "k_free"} \subseteq DOMAIN Order
        /\ {"d_stopped", "k_stopped"} \subseteq DOMAIN Order
        /\ {"u_drop", "d_drop", "k_drop"} \subseteq DOMAIN Order
        /\ {"k_delrow", "forget"} \subseteq DOMAIN Order
        /\ {"rmws"} \subseteq DOMAIN Order
    BY DEF Order
  <2> QED
    BY <2>1 DEF TeardownStep, StopVM, DeleteSnapshot, freeSlot, MarkStopped, DropFromMap,
                DeleteRow, CleanupWorkspace
<1>2. c \in DOMAIN Order /\ At("stop", s, c) /\ Goto("stop", s, d) /\ d \in PCs /\ c # "idle"
  <2>1. c \in DOMAIN Order /\ At("stop", s, c) /\ Goto("stop", s, d)
    BY <1>1 DEF Teardown
  <2> QED
    BY <2>1, FollowingType DEF Order
<1>3. /\ c \in {"k_kill", "k_snap", "k_free", "k_stopped", "k_drop", "k_delrow", "forget", "rmws"}
      /\ Rowed(s) /\ pc["boot"][s] = "idle"
  BY <1>2, Known DEF StopOwner, StopPCs, RInv
<1>4. /\ sess[s] \in Session /\ sess \in [Sids -> Session]
      /\ rows \in [Sids -> Row \cup {NoRow}]
      /\ \A g \in Procs : pend[g][s] = NoRow
  <2>1. c \in PCs
    BY Known DEF Procs
  <2>2. rows \in [Sids -> Row \cup {NoRow}]
    BY DEF SInv, TInv, TypeOK
  <2> QED
    BY <1>2, <2>1, <2>2, Known, AllWritten DEF Procs
<1>5. pc'["stop"][s] = d /\ pc'["boot"][s] = "idle"
  BY <1>2, <1>3, Goes DEF Procs
<1>a. ~RunsVM(s)'
  <2>1. StopOwner(s) /\ StopOwner(s)' /\ d # "k_kill"
    BY <1>2, Known DEF SInv, Owner, Following, Order
  <2>2. d = "idle" => c \in {"rmws", "forget"}
    BY <1>3 DEF Following, Order
  <2>3. /\ d \in {"k_snap", "k_free", "k_stopped", "k_drop"} => sess'[s].st \in {"stopping", "stopped"}
        /\ d \in {"k_delrow", "forget", "rmws"} => s \notin inMap'
    BY <1>5, <2>1 DEF StopOwner
  <2>4. d = "idle" => s \notin inMap'
    <3>1. inMap' \subseteq inMap
      BY DEF TeardownStep, StopVM, DeleteSnapshot, freeSlot, MarkStopped, DropFromMap, DeleteRow,
             CleanupWorkspace, maps
    <3> QED
      BY <2>1, <2>2, <3>1 DEF StopOwner
  <2>5. d \in StopPCs
    BY <1>5, <2>1 DEF StopOwner
  <2> HIDE DEF c, d
  <2> QED
    BY <1>5, <2>1, <2>3, <2>4, <2>5 DEF RunsVM, AtRest, StopPCs
<1>6. CASE c \in {"k_kill", "k_snap", "k_free", "rmws"}
  <2>1. inMap' = inMap /\ rows' = rows /\ UNCHANGED <<sess, pend>>
    BY <1>6 DEF TeardownStep, StopVM, DeleteSnapshot, freeSlot, MarkStopped, DropFromMap, DeleteRow,
                CleanupWorkspace, Teardown, maps
  <2>2. (d \in {"k_snap", "k_free", "k_stopped"} /\ c # "rmws") \/ d = "idle"
    BY <1>6 DEF Following, Order
  <2>3. Rowed(s)'
    BY <1>3, <1>4, <1>5, <1>6, <1>a, <2>1, <2>2 DEF Rowed
  <2> HIDE DEF d
  <2> QED
    BY <1>2, <2>1, <2>3, RowedStep DEF Procs
<1>7. CASE c = "k_stopped"
  <2>1. /\ MarkStopped("stop", s) /\ inMap' = inMap /\ rows' = rows
    BY <1>7 DEF TeardownStep, StopVM, DeleteSnapshot, freeSlot, MarkStopped, DropFromMap, DeleteRow,
                CleanupWorkspace, Teardown, maps
  <2>2. sess[s].st = "stopping" /\ CanTransition("stopping", "stopped") /\ s \in inMap
    BY <1>3, <1>7, Known DEF StopOwner, CanTransition, validTransitions, Rowed
  <2>3. /\ sess' = [sess EXCEPT ![s] = [sess[s] EXCEPT !.st = TryState(sess[s].st, "stopped")]]
        /\ persistSession("stop", s)
    BY <2>1, <2>2 DEF MarkStopped
  <2>4. sess'[s].st \in States /\ \A t \in Sids : t # s => sess'[t] = sess[t]
    BY <1>4, <2>2, <2>3 DEF Session, TryState, States
  <2>5. d = "k_drop"
    BY <1>7 DEF Following, Order
  <2>6. Rowed(s)'
    <3>1. /\ \A h \in Procs : pend'[h][s] # NoRow => s \in inMap' /\ pend'[h][s] = RowOf(sess'[s])
          /\ ~(\A h \in Procs : pend'[h][s] = NoRow)
      BY <1>4, <2>1, <2>2, <2>3, <2>4, PersistedRow DEF Procs
    <3> QED
      BY <1>5, <1>a, <2>1, <2>2, <2>5, <3>1 DEF Rowed
  <2> HIDE DEF d
  <2> QED
    BY <1>2, <2>1, <2>3, <2>4, <2>6, RowedStep DEF Procs
<1>8. CASE c = "k_drop"
  <2>1. inMap' = inMap \ {s} /\ UNCHANGED <<sess, pend, rows>>
    BY <1>8 DEF TeardownStep, StopVM, DeleteSnapshot, freeSlot, MarkStopped, DropFromMap, DeleteRow,
                CleanupWorkspace, Teardown
  <2>2. d = "k_delrow"
    BY <1>8 DEF Following, Order
  <2>3. Rowed(s)'
    <3>1. sess[s].st = "stopped" /\ s \in inMap
      BY <1>3, <1>8, Known DEF StopOwner, Rowed
    <3>2. rows[s].st = "stopped"
      BY <1>3, <1>4, <3>1 DEF Rowed
    <3> QED
      BY <1>4, <1>5, <1>a, <2>1, <2>2, <3>2 DEF Rowed
  <2> HIDE DEF d
  <2> QED
    BY <1>2, <2>1, <2>3, RowedStep DEF Procs
<1>9. CASE c \in {"k_delrow", "forget"}
  <2>1. inMap' = inMap /\ UNCHANGED <<sess, pend>> /\ Stored(s, NoRow)
    BY <1>9 DEF TeardownStep, StopVM, DeleteSnapshot, freeSlot, MarkStopped, DropFromMap, DeleteRow,
                CleanupWorkspace, Teardown, maps
  <2>2. d \in {"rmws", "idle"} /\ s \notin inMap
    BY <1>9, Known DEF Following, Order, StopOwner
  <2>3. rows'[s] = NoRow /\ \A t \in Sids : t # s => rows'[t] = rows[t]
    BY <1>4, <2>1, StoredEffect DEF Orderly
  <2>4. Rowed(s)'
    BY <1>4, <1>5, <1>a, <2>1, <2>2, <2>3 DEF Rowed
  <2> HIDE DEF d
  <2> QED
    BY <1>2, <2>1, <2>3, <2>4, RowedStep DEF Procs
<1> QED
  BY <1>3, <1>6, <1>7, <1>8, <1>9

LEMMA ServeRInv ==
  ASSUME ~StopMidRun, Orderly, SInv, RInv, [Serve]_vars
  PROVE  RInv'
<1>0. SInv'
  BY ServeSInv
<1>1. CASE \E role \in Roles, repo \in Repos : Create(role, repo)
  BY <1>0, <1>1, CreateRowed
<1>2. ASSUME NEW s \in Sids, Stop(s) \/ StopTerminal(s) PROVE RInv'
  BY <1>0, <1>2, StopRowed
<1>3. ASSUME NEW s \in Sids, BootStep(s) \/ AgentStep(s) \/ Upsert("stop", s) PROVE RInv'
  BY <1>0, <1>3, BootStepRowed, AgentRowed, UpsertRowed DEF Procs
<1>4. ASSUME NEW s \in Sids, TeardownStep("boot", s) \/ TeardownStep("stop", s) PROVE RInv'
  BY <1>0, <1>4, BootTeardownRowed, StopTeardownRowed
<1>5. CASE UNCHANGED vars
  <2>1. ASSUME NEW s \in Sids PROVE Rowed(s)'
    <3>1. Rowed(s) /\ (RunsVM(s)' <=> RunsVM(s))
      BY <1>5 DEF vars, maps, RInv, RunsVM, AtRest
    <3> QED
      BY <1>5, <3>1 DEF vars, maps, Rowed
  <2> QED
    BY <2>1 DEF RInv
<1> QED
  BY <1>1, <1>2, <1>3, <1>4, <1>5 DEF Serve

LEMMA InitRInv == Init => RInv
<1> SUFFICES ASSUME Init, NEW s \in Sids PROVE Rowed(s)
  BY DEF RInv
<1>1. /\ \A g \in Procs : pend[g][s] = NoRow /\ pc[g][s] = "idle"
      /\ s \notin inMap /\ rows[s] = NoRow
  BY DEF Init
<1>2. ~RunsVM(s)
  BY <1>1 DEF RunsVM, AtRest, Procs
<1> QED
  BY <1>1, <1>2 DEF Rowed, Procs
====
