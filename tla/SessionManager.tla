---- MODULE SessionManager ----
(***************************************************************************)
(* The session manager of the poc server: cmd/poc/main.go 186-1098, with   *)
(* the parts of internal/vm it drives.                                     *)
(*                                                                         *)
(* A session is an entry of the in-memory map, a state machine, a slot of  *)
(* the host (TAP device, IP address and socket all derive from its         *)
(* number), a Firecracker process, a dm-thin snapshot, a workspace         *)
(* directory and a row of the persistent store.  Two goroutines work on    *)
(* it: "boot" (started by Create and Restart; for an agent session it also *)
(* runs the agent and tears the session down) and "stop" (a call of Stop   *)
(* and the goroutine that Stop starts).  Each has a program counter, and   *)
(* interleaves with the others at every blocking call and at every write   *)
(* of the store.                                                           *)
(***************************************************************************)
EXTENDS Integers, FiniteSets, SessionState

CONSTANTS
  MaxSessions,  \* bound: sessions created in a behaviour
  MaxSlots,     \* the -slots flag; 0 means unlimited
  MaxRestarts,  \* bound: calls of Restart that start a boot
  MaxCrashes,   \* bound: ends of the server process
  Roles,        \* roles that Create is called with
  Repos,        \* does a session have a repository URL: a subset of BOOLEAN
  Faults,       \* the blocking steps that may fail: those of boot, the
                \* deletion of a snapshot, a write of the store
  Outcomes,     \* how `claude -p` may end in an agent session
  StopMidRun,   \* may Stop be called while an agent is at work?
  Stall         \* may a goroutine be held up between two adjacent statements
                \* for as long as another one's blocking call takes?

ASSUME ConstantsAssumption ==
  /\ MaxSessions \in Nat \ {0}
  /\ MaxSlots \in Nat
  /\ MaxRestarts \in Nat
  /\ MaxCrashes \in Nat
  /\ Roles \subseteq {"interactive", "agent"}
  /\ Repos \subseteq BOOLEAN
  /\ Faults \subseteq {"clone", "snapshot", "inject", "launch", "ssh", "mount", "delete", "store"}
  /\ Outcomes \subseteq {"done", "error", "usage"}
  /\ StopMidRun \in BOOLEAN
  /\ Stall \in BOOLEAN

VARIABLES
  created,    \* how many sessions Create has made; ids are in CreatedAt order
  inMap,      \* SessionManager.sessions: the ids in the map
  sess,       \* the Session objects (a goroutine keeps its pointer after the
              \* id has left the map)
  usedSlots,  \* SessionManager.usedSlots
  vms,        \* running Firecracker processes, as <<session, slot>>
  taps,       \* slots whose TAP device is up
  snaps,      \* sessions that have a snapshot device
  strays,     \* sessions with a snapshot that could not be deleted, and that
              \* the snapshot manager has forgotten
  workspaces, \* sessions that have a workspace directory on the host
  rows,       \* the session store on disk
  pc,         \* where each goroutine is
  pend,       \* the row a goroutine has built and not yet written
  cursor,     \* 0: serving; k: loadFromDB is at the k-th row
  restarts, crashes

maps   == <<created, inMap, usedSlots>>
host   == <<vms, taps, snaps, strays, workspaces>>
bounds == <<cursor, restarts, crashes>>
vars   == <<maps, sess, host, rows, pc, pend, bounds>>

----------------------------------------------------------------------------
(* Types. *)

Sids  == 1 .. MaxSessions
Procs == {"boot", "stop"}

\* boot: clone .. setup, agent; failure f_*; usage limit u_*; agent done d_*.
\* stop: k_* after a legal transition, "forget" for a session already over.
PCs == {"idle", "clone", "snapshot", "inject", "launch", "ssh", "setup", "agent",
        "f_kill", "f_snap", "f_release", "f_failed",
        "u_kill", "u_snap", "u_free", "u_drop",
        "d_kill", "d_snap", "d_free", "d_stopped", "d_drop",
        "k_kill", "k_snap", "k_free", "k_stopped", "k_drop", "k_delrow",
        "forget", "rmws"}

\* Role is "" in a session rebuilt from its row: loadFromDB does not copy it.
AllRoles == {"", "interactive", "agent"}
Errors   == {"", "usage limit", "other"}

Row == [slot: Nat, st: States, role: AllRoles, repo: BOOLEAN, err: Errors, res: BOOLEAN]
NoRow == [st |-> "absent"]

\* History, not a field of the code: was the session asked to stop, and was
\* one of its goroutines at work on it when it was asked to stop or restart?
Asks == {"no", "resting", "working"}

Session == [slot: Nat, st: States \cup {"absent"}, role: AllRoles, repo: BOOLEAN,
            err: Errors, res: BOOLEAN, v: {"none", "own", "detached"}, wsp: BOOLEAN,
            asked: Asks]
NoSession == [slot |-> 0, st |-> "absent", role |-> "", repo |-> FALSE,
              err |-> "", res |-> FALSE, v |-> "none", wsp |-> FALSE, asked |-> "no"]

----------------------------------------------------------------------------
(* Slots. *)

\* Mutant: only the number of slots in use is looked at.
AllocIgnoresUsed(i) == MaxSlots > 0 => Cardinality(usedSlots) < MaxSlots /\ i < MaxSlots

\* allocSlot takes the lowest number that is not in use (which is at most
\* the number of slots in use) and stays below a non-zero maxSlots.
allocSlot(i) ==
  /\ i \notin usedSlots
  /\ \A j \in 0 .. i - 1 : j \in usedSlots
  /\ MaxSlots > 0 => Cardinality(usedSlots) < MaxSlots /\ i < MaxSlots

\* Mutant: the scan starts one too low.
SlotCandidatesFromMinusOne == -1 .. Cardinality(usedSlots)

SlotCandidates == 0 .. Cardinality(usedSlots)

----------------------------------------------------------------------------
(* Control. *)

\* Places a goroutine leaves without a blocking call.
Prompt == {"f_failed", "u_drop", "d_stopped", "d_drop",
           "k_stopped", "k_drop", "k_delrow", "forget"}

\* With Stall = FALSE nobody else moves while a goroutine is between two
\* adjacent statements or about to write the store (a crash still may).
Calm(except) ==
  Stall \/ \A g \in Procs, s \in Sids : <<g, s>> \notin except =>
             pend[g][s] = NoRow /\ pc[g][s] \notin Prompt

At(g, s, c) == pc[g][s] = c /\ pend[g][s] = NoRow /\ Calm({<<g, s>>})

\* Nobody is at work on the session.
Resting(s) == \A g \in Procs : pc[g][s] = "idle" /\ pend[g][s] = NoRow

Goto(g, s, c) == pc' = [pc EXCEPT ![g][s] = c]

\* persistSession, first half: the row is built under the manager's lock
\* and written after the lock is released (action Upsert).
RowOf(x) == [slot |-> x.slot, st |-> x.st, role |-> x.role, repo |-> x.repo,
             err |-> x.err, res |-> x.res]
persistSession(g, s) == pend' = [pend EXCEPT ![g][s] = RowOf(sess'[s])]

\* A legal StateMachine.Transition with the hook of newSM, which persists.
Transition(g, s, to) ==
  /\ CanTransition(sess[s].st, to)
  /\ sess' = [sess EXCEPT ![s].st = to]
  /\ persistSession(g, s)

\* The results a blocking step may have.
Tries(step) == IF step \in Faults THEN BOOLEAN ELSE {TRUE}

\* Upsert and Delete of the store.  No caller does more than log an error:
\* the row stays as it was, or a later save of the JSON store writes it after
\* all, which is taken to happen at once.
Stored(s, row) == \E ok \in Tries("store") : rows' = IF ok THEN [rows EXCEPT ![s] = row] ELSE rows

\* persistSession, second half.
Upsert(g, s) ==
  /\ pend[g][s] # NoRow
  /\ Calm({<<g, s>>})
  /\ Stored(s, pend[g][s])
  /\ pend' = [pend EXCEPT ![g][s] = NoRow]
  /\ UNCHANGED <<maps, sess, host, pc, bounds>>

----------------------------------------------------------------------------
(* Requests. *)

\* Init: a first start on a clean host, with an empty store.
Init ==
  /\ created = 0 /\ inMap = {} /\ usedSlots = {}
  /\ sess = [s \in Sids |-> NoSession]
  /\ vms = {} /\ taps = {} /\ snaps = {} /\ strays = {} /\ workspaces = {}
  /\ rows = [s \in Sids |-> NoRow]
  /\ pc = [g \in Procs |-> [s \in Sids |-> "idle"]]
  /\ pend = [g \in Procs |-> [s \in Sids |-> NoRow]]
  /\ cursor = 0 /\ restarts = 0 /\ crashes = 0

Create(role, repo) ==
  LET s == created + 1 IN
  /\ cursor = 0 /\ Calm({}) /\ created < MaxSessions
  /\ \E i \in SlotCandidates :
       /\ allocSlot(i)
       /\ usedSlots' = usedSlots \cup {i}
       /\ sess' = [sess EXCEPT ![s] = [NoSession EXCEPT
                     !.slot = i, !.st = "provisioning", !.role = role, !.repo = repo]]
  /\ created' = s
  /\ inMap' = inMap \cup {s}
  /\ persistSession("boot", s)
  /\ Goto("boot", s, "clone")
  /\ UNCHANGED <<host, rows, bounds>>

\* Restart puts a stopped session of the map through boot again, in a new
\* slot.  Bound: the previous boot goroutine of the session has ended.
Restart(s) ==
  /\ cursor = 0 /\ Calm({}) /\ restarts < MaxRestarts
  /\ s \in inMap
  /\ sess[s].st = "stopped"
  /\ pc["boot"][s] = "idle" /\ pend["boot"][s] = NoRow
  /\ \E i \in SlotCandidates :
       /\ allocSlot(i)
       /\ usedSlots' = usedSlots \cup {i}
       /\ sess' = [sess EXCEPT ![s] = [@ EXCEPT
                     !.slot = i, !.v = "none", !.err = "", !.st = "provisioning",
                     !.asked = IF Resting(s) THEN "no" ELSE "working"]]
  /\ persistSession("boot", s)
  /\ Goto("boot", s, "clone")
  /\ restarts' = restarts + 1
  /\ UNCHANGED <<created, inMap, host, rows, cursor, crashes>>

\* Bound: one call of Stop per session at a time.  Calls that change nothing
\* (session stopping already, or not yet ready) are not steps.
AgentAtWork == {"agent", "u_kill", "u_snap", "u_free", "u_drop",
                "d_kill", "d_snap", "d_free", "d_stopped", "d_drop", "rmws"}

StopCallable(s) ==
  /\ cursor = 0 /\ Calm({})
  /\ s \in inMap
  /\ pc["stop"][s] = "idle" /\ pend["stop"][s] = NoRow
  /\ StopMidRun \/ pc["boot"][s] \notin AgentAtWork

Asked(s) == IF Resting(s) /\ sess[s].asked # "working" THEN "resting" ELSE "working"

\* Stop of a ready session: a legal transition, with its hook.
StopAccepted(s) ==
  /\ StopCallable(s)
  /\ CanTransition(sess[s].st, "stopping")
  /\ sess' = [sess EXCEPT ![s] = [@ EXCEPT !.st = "stopping", !.asked = Asked(s)]]
  /\ persistSession("stop", s)

\* Mutant: the session leaves the map when the stop is accepted.
StopDropsFirst(s) ==
  /\ StopAccepted(s)
  /\ Goto("stop", s, "k_kill")
  /\ inMap' = inMap \ {s}
  /\ UNCHANGED <<created, usedSlots, host, rows, bounds>>

Stop(s) ==
  /\ StopAccepted(s)
  /\ Goto("stop", s, "k_kill")
  /\ UNCHANGED <<maps, host, rows, bounds>>

\* Stop of a session that is over: out of the map, then out of the store.
StopTerminal(s) ==
  /\ StopCallable(s)
  /\ sess[s].st \in {"stopped", "failed"}
  /\ inMap' = inMap \ {s}
  /\ sess' = [sess EXCEPT ![s].asked = Asked(s)]
  /\ Goto("stop", s, "forget")
  /\ UNCHANGED <<created, usedSlots, host, rows, pend, bounds>>

----------------------------------------------------------------------------
(* The boot goroutine up to "ready". *)

\* EnsureBareRepo and LocalClone: a failure is only logged.  git refuses to
\* clone into a workspace that is still there.
Clone(s) ==
  /\ At("boot", s, "clone")
  /\ IF sess[s].repo
       THEN \E ok \in Tries("clone") :
              IF ok /\ s \notin workspaces
                THEN /\ workspaces' = workspaces \cup {s}
                     /\ sess' = [sess EXCEPT ![s].wsp = TRUE]
                ELSE UNCHANGED <<workspaces, sess>>
       ELSE UNCHANGED <<workspaces, sess>>
  /\ Goto("boot", s, "snapshot")
  /\ UNCHANGED <<maps, vms, taps, snaps, strays, rows, pend, bounds>>

\* A device of that name is removed first: an old one is gone afterwards, or
\* not, when the creation fails.
CreateSnapshot(s) ==
  /\ At("boot", s, "snapshot")
  /\ \E ok \in Tries("snapshot") :
       /\ snaps' \in IF ok THEN {snaps \cup {s}} ELSE {snaps, snaps \ {s}}
       /\ Goto("boot", s, IF ok THEN "inject" ELSE "f_release")
  /\ UNCHANGED <<maps, sess, vms, taps, strays, workspaces, rows, pend, bounds>>

\* A blocking step of boot followed by a transition when it succeeds, and
\* by the clean-up of that step's error path when it does not.
ThenTransition(s, step, to, next, undo) ==
  \E ok \in Tries(step) :
    IF ok THEN Transition("boot", s, to) /\ Goto("boot", s, next)
          ELSE Goto("boot", s, undo) /\ UNCHANGED <<sess, pend>>

\* Mutant: the error path forgets the snapshot.
InjectKeepsSnapshot(s) ==
  /\ At("boot", s, "inject")
  /\ ThenTransition(s, "inject", "booting", "launch", "f_release")
  /\ UNCHANGED <<maps, host, rows, bounds>>

InjectNetworkConfig(s) ==
  /\ At("boot", s, "inject")
  /\ ThenTransition(s, "inject", "booting", "launch", "f_snap")
  /\ UNCHANGED <<maps, host, rows, bounds>>

IsSocketAlive(slot) == \E x \in vms : x[2] = slot

\* vm.Launch: the TAP device, then a Firecracker process that is not tied to
\* the context of the session or of the server.  A failed launch leaves the
\* TAP device up, down or as it was.
LaunchVM(s, ok) ==
  IF ok THEN /\ vms' = vms \cup {<<s, sess[s].slot>>}
             /\ taps' = taps \cup {sess[s].slot}
        ELSE /\ taps' \in {taps, taps \cup {sess[s].slot}, taps \ {sess[s].slot}}
             /\ UNCHANGED vms

\* The host may refuse a second process in a slot (its TAP is busy), but
\* nothing here relies on it.
Launch(s) ==
  /\ At("boot", s, "launch")
  /\ \E ok \in Tries("launch") \cup {~IsSocketAlive(sess[s].slot)} :
       /\ LaunchVM(s, ok)
       /\ IF ok
            THEN /\ CanTransition(sess[s].st, "waiting_ssh")
                 /\ sess' = [sess EXCEPT ![s] = [@ EXCEPT !.v = "own", !.st = "waiting_ssh"]]
                 /\ persistSession("boot", s)
                 /\ Goto("boot", s, "ssh")
            ELSE /\ Goto("boot", s, "f_snap")
                 /\ UNCHANGED <<sess, pend>>
  /\ UNCHANGED <<maps, snaps, strays, workspaces, rows, bounds>>

\* WaitForSSH dials the slot's address: whatever runs there may answer.
Answers(slot) == slot \in taps /\ IsSocketAlive(slot)

WaitForSSH(s) ==
  /\ At("boot", s, "ssh")
  /\ IF Answers(sess[s].slot)
       THEN ThenTransition(s, "ssh", "configuring", "setup", "f_kill")
       ELSE Goto("boot", s, "f_kill") /\ UNCHANGED <<sess, pend>>
  /\ UNCHANGED <<maps, host, rows, bounds>>

\* The workspace of a session with a repository: it must have been cloned, and
\* the NFS mount may fail in the guest.
mountWorkspace(s) ==
  IF ~sess[s].repo THEN {TRUE} ELSE IF ~sess[s].wsp THEN {FALSE} ELSE Tries("mount")

\* Guest configuration.  Only the workspace can fail it (keys, credentials,
\* caches and dev files that do not arrive are logged), and that error path
\* goes to fail() without stopping the VM or deleting the snapshot.
Setup(s) ==
  /\ At("boot", s, "setup")
  /\ \E ok \in mountWorkspace(s) :
       IF ok THEN /\ Transition("boot", s, "ready")
                  /\ Goto("boot", s, IF sess[s].role = "interactive" THEN "idle" ELSE "agent")
             ELSE Goto("boot", s, "f_release") /\ UNCHANGED <<sess, pend>>
  /\ UNCHANGED <<maps, host, rows, bounds>>

\* Mutant: fail() does not give the slot back.
FailKeepsSlot(s) ==
  /\ At("boot", s, "f_release")
  /\ sess' = [sess EXCEPT ![s].err = "other"]
  /\ Goto("boot", s, "f_failed")
  /\ UNCHANGED <<maps, host, rows, pend, bounds>>

\* fail(): the error and the slot under one lock, then the transition.
FailRelease(s) ==
  /\ At("boot", s, "f_release")
  /\ sess' = [sess EXCEPT ![s].err = "other"]
  /\ usedSlots' = usedSlots \ {sess[s].slot}
  /\ Goto("boot", s, "f_failed")
  /\ UNCHANGED <<created, inMap, host, rows, pend, bounds>>

\* Mutant: fail() notes the error and forgets the state machine.
FailWithoutTransition(s) ==
  /\ At("boot", s, "f_failed")
  /\ UNCHANGED sess
  /\ persistSession("boot", s)
  /\ Goto("boot", s, "idle")
  /\ UNCHANGED <<maps, host, rows, bounds>>

FailTransition(s) ==
  /\ At("boot", s, "f_failed")
  /\ Transition("boot", s, "failed")
  /\ Goto("boot", s, "idle")
  /\ UNCHANGED <<maps, host, rows, bounds>>

----------------------------------------------------------------------------
(* The boot goroutine of an agent session after "ready".  The transition   *)
(* hook and the persistSession that follows it are one write here.         *)

\* What a run of `claude -p` leaves: does stdout hold JSON, a result and an
\* error flag, does stderr hold a usage limit message, was there an ssh error
\* or an exit code?  Output comes with any of them.
RunCapture == [json: BOOLEAN, result: BOOLEAN, is_error: BOOLEAN,
               limit: BOOLEAN, err: BOOLEAN]

\* Text that is not JSON is a result as it stands.
parseClaudeJSON(r) == [result |-> r.result, isError |-> r.json /\ r.is_error]

Outcome(r) ==
  LET parsed == parseClaudeJSON(r) IN
  CASE r.limit -> "usage"
    [] ~r.limit /\ (parsed.isError \/ (~parsed.result /\ r.err)) -> "error"
    [] OTHER -> "done"

Ends(outcome) == outcome \in Outcomes /\ \E r \in RunCapture : Outcome(r) = outcome

\* Transition with its error only logged.
TryState(st, to) == IF CanTransition(st, to) THEN to ELSE st

AgentUsageLimit(s) ==
  /\ Ends("usage")
  /\ At("boot", s, "agent")
  /\ sess' = [sess EXCEPT ![s] = [@ EXCEPT
                !.err = "usage limit", !.st = TryState(sess[s].st, "failed")]]
  /\ persistSession("boot", s)
  /\ Goto("boot", s, "u_kill")
  /\ UNCHANGED <<maps, host, rows, bounds>>

\* The clean-up only runs if the transition was legal.
AgentError(s) ==
  /\ Ends("error")
  /\ At("boot", s, "agent")
  /\ sess' = [sess EXCEPT ![s] = [@ EXCEPT !.err = "other", !.st = TryState(sess[s].st, "failed")]]
  /\ IF CanTransition(sess[s].st, "failed")
       THEN persistSession("boot", s) /\ Goto("boot", s, "u_kill")
       ELSE Goto("boot", s, "idle") /\ UNCHANGED pend
  /\ UNCHANGED <<maps, host, rows, bounds>>

\* The result may be empty: an agent that printed nothing and exited with 0.
AgentDone(s) ==
  /\ "done" \in Outcomes
  /\ At("boot", s, "agent")
  /\ \E r \in {x \in RunCapture : Outcome(x) = "done"} :
       sess' = [sess EXCEPT ![s] = [@ EXCEPT
                  !.res = parseClaudeJSON(r).result, !.st = TryState(sess[s].st, "stopping")]]
  /\ persistSession("boot", s)
  /\ Goto("boot", s, "d_kill")
  /\ UNCHANGED <<maps, host, rows, bounds>>

----------------------------------------------------------------------------
(* Teardown: the same calls in the failure path of boot (f_), after a      *)
(* usage limit (u_), after a finished agent (d_) and in Stop's goroutine   *)
(* (k_).  Each reads the Session object afresh.                            *)

Order ==
  [f_kill |-> "f_snap", f_snap |-> "f_release",
   u_kill |-> "u_snap", u_snap |-> "u_free", u_free |-> "u_drop", u_drop |-> "rmws",
   d_kill |-> "d_snap", d_snap |-> "d_free", d_free |-> "d_stopped",
   d_stopped |-> "d_drop", d_drop |-> "rmws",
   k_kill |-> "k_snap", k_snap |-> "k_free", k_free |-> "k_stopped",
   k_stopped |-> "k_drop", k_drop |-> "k_delrow", k_delrow |-> "rmws",
   forget |-> "idle", rmws |-> "idle"]

\* Mutant: the row of a finished agent is deleted, as Stop does.
FollowingDeletesRow(c) == IF c = "d_drop" THEN "k_delrow" ELSE Order[c]

\* Mutant: Stop's goroutine forgets to take the session out of the map.
FollowingKeepsInMap(c) == IF c = "k_stopped" THEN "k_delrow" ELSE Order[c]

\* What a teardown does after each of its steps.
Following(c) == Order[c]

Teardown(g, s, places) ==
  /\ pc[g][s] \in places
  /\ At(g, s, pc[g][s])
  /\ Goto(g, s, Following(pc[g][s]))

\* Mutant: a detached handle never finds its process.
VictimsOwnOnly(s) == {x \in vms : sess[s].v = "own" /\ x = <<s, sess[s].slot>>}

\* The processes that stopping the session's handle kills: a detached
\* handle knows only the slot's socket.
Victims(s) == {x \in vms : \/ sess[s].v = "own" /\ x = <<s, sess[s].slot>>
                           \/ sess[s].v = "detached" /\ x[2] = sess[s].slot}

\* Mutant: the guest is asked to shut down, the process is left alone.
StopVMShutdownOnly(g, s) ==
  /\ Teardown(g, s, {"f_kill", "u_kill", "d_kill", "k_kill"})
  /\ taps' = IF sess[s].v = "none" THEN taps ELSE taps \ {sess[s].slot}
  /\ UNCHANGED <<maps, sess, vms, snaps, strays, workspaces, rows, pend, bounds>>

\* Stop of the VM handle with its TAP, then WaitForVMDead.
StopVM(g, s) ==
  /\ Teardown(g, s, {"f_kill", "u_kill", "d_kill", "k_kill"})
  /\ vms' = vms \ Victims(s)
  /\ taps' = IF sess[s].v = "none" THEN taps ELSE taps \ {sess[s].slot}
  /\ UNCHANGED <<maps, sess, snaps, strays, workspaces, rows, pend, bounds>>

\* Every caller drops the error, and the snapshot manager forgets the session
\* whether or not dmsetup has removed its device and its volume.
DeleteSnapshot(g, s) ==
  /\ Teardown(g, s, {"f_snap", "u_snap", "d_snap", "k_snap"})
  /\ \E ok \in Tries("delete") :
       strays' = IF ok THEN strays ELSE strays \cup ({s} \cap snaps)
  /\ snaps' = snaps \ {s}
  /\ UNCHANGED <<maps, sess, vms, taps, workspaces, rows, pend, bounds>>

freeSlot(g, s) ==
  /\ Teardown(g, s, {"u_free", "d_free", "k_free"})
  /\ usedSlots' = usedSlots \ {sess[s].slot}
  /\ UNCHANGED <<created, inMap, sess, host, rows, pend, bounds>>

\* Transition(stopped), its error ignored.  A finished agent session is
\* persisted in any case, another only by the hook.
MarkStopped(g, s) ==
  /\ Teardown(g, s, {"d_stopped", "k_stopped"})
  /\ sess' = [sess EXCEPT ![s].st = TryState(@, "stopped")]
  /\ IF g = "boot" \/ CanTransition(sess[s].st, "stopped")
       THEN persistSession(g, s)
       ELSE UNCHANGED pend
  /\ UNCHANGED <<maps, host, rows, bounds>>

DropFromMap(g, s) ==
  /\ Teardown(g, s, {"u_drop", "d_drop", "k_drop"})
  /\ inMap' = inMap \ {s}
  /\ UNCHANGED <<created, usedSlots, sess, host, rows, pend, bounds>>

DeleteRow(g, s) ==
  /\ Teardown(g, s, {"k_delrow", "forget"})
  /\ Stored(s, NoRow)
  /\ UNCHANGED <<maps, sess, host, pend, bounds>>

CleanupWorkspace(g, s) ==
  /\ Teardown(g, s, {"rmws"})
  /\ workspaces' = workspaces \ {s}
  /\ UNCHANGED <<maps, sess, vms, taps, snaps, strays, rows, pend, bounds>>

----------------------------------------------------------------------------
(* The end of the server process, and the next start. *)

\* The server process ends (main does not stop the sessions) and with it
\* every goroutine; a reboot of the host ends the VMs and devices as well and
\* starts with an empty pool.  That discoverState lists a stray device again
\* changes nothing here: nobody deletes it before a Restart has replaced it.
Crash(reboot) ==
  /\ crashes < MaxCrashes
  /\ crashes' = crashes + 1
  /\ cursor' = 1
  /\ inMap' = {} /\ usedSlots' = {}
  /\ sess' = [s \in Sids |-> NoSession]
  /\ pc' = [g \in Procs |-> [s \in Sids |-> "idle"]]
  /\ pend' = [g \in Procs |-> [s \in Sids |-> NoRow]]
  /\ IF reboot THEN vms' = {} /\ taps' = {} /\ snaps' = {} /\ strays' = {}
               ELSE UNCHANGED <<vms, taps, snaps, strays>>
  /\ UNCHANGED <<created, workspaces, rows, restarts>>

\* What loadFromDB copies of a row; not the role and not the result.
FromRow(r, st, v, err) ==
  [NoSession EXCEPT !.slot = r.slot, !.repo = r.repo, !.st = st, !.v = v, !.err = err]

LoadAs(s, x) == inMap' = inMap \cup {s} /\ sess' = [sess EXCEPT ![s] = x]

\* Mutant: failed in memory only.
LoadFailedNoUpsert(s) ==
  LoadAs(s, FromRow(rows[s], "failed", "none", "other")) /\ UNCHANGED rows

\* The session is over: in the map and in the store.
LoadFailed(s) ==
  LET x == FromRow(rows[s], "failed", "none", "other") IN
  LoadAs(s, x) /\ Stored(s, RowOf(x))

Loading(s) == cursor = s /\ s \in Sids /\ cursor' = s + 1

LoadNothing(s) ==
  /\ Loading(s)
  /\ rows[s] = NoRow
  /\ UNCHANGED <<maps, sess, host, rows, pc, pend, restarts, crashes>>

\* Mutant: the slot of a recovered session is not marked as used.
LoadReadyNoSlot(s) ==
  /\ Loading(s)
  /\ rows[s].st = "ready"
  /\ IF IsSocketAlive(rows[s].slot)
       THEN LoadAs(s, FromRow(rows[s], "ready", "detached", rows[s].err)) /\ UNCHANGED rows
       ELSE LoadFailed(s)
  /\ UNCHANGED <<created, usedSlots, host, pc, pend, restarts, crashes>>

\* Mutant: the row is believed without a look at the process.
LoadReadyBlind(s) ==
  /\ Loading(s)
  /\ rows[s].st = "ready"
  /\ LoadAs(s, FromRow(rows[s], "ready", "detached", rows[s].err))
  /\ usedSlots' = usedSlots \cup {rows[s].slot}
  /\ UNCHANGED <<created, host, rows, pc, pend, restarts, crashes>>

\* usedSlots is the local liveSlots while loading.
LoadReady(s) ==
  /\ Loading(s)
  /\ rows[s].st = "ready"
  /\ IF IsSocketAlive(rows[s].slot)
       THEN /\ LoadAs(s, FromRow(rows[s], "ready", "detached", rows[s].err))
            /\ usedSlots' = usedSlots \cup {rows[s].slot}
            /\ UNCHANGED rows
       ELSE LoadFailed(s) /\ UNCHANGED usedSlots
  /\ UNCHANGED <<created, host, pc, pend, restarts, crashes>>

Midway == {"provisioning", "booting", "waiting_ssh", "configuring", "stopping"}

\* Caught mid-boot or mid-stop: kill whatever runs in the row's slot.
LoadMidway(s) ==
  /\ Loading(s)
  /\ rows[s].st \in Midway
  /\ vms' = {x \in vms : x[2] # rows[s].slot}
  /\ taps' = IF IsSocketAlive(rows[s].slot) THEN taps \ {rows[s].slot} ELSE taps
  /\ LoadFailed(s)
  /\ UNCHANGED <<created, usedSlots, snaps, strays, workspaces, pc, pend, restarts, crashes>>

\* Mutant: the row is written back as loaded.
LoadTerminalRewrites(s) ==
  LET x == FromRow(rows[s], rows[s].st, "none", rows[s].err) IN
  /\ Loading(s)
  /\ rows[s].st \in {"stopped", "failed"}
  /\ LoadAs(s, x) /\ Stored(s, RowOf(x))
  /\ UNCHANGED <<created, usedSlots, host, pc, pend, restarts, crashes>>

LoadTerminal(s) ==
  /\ Loading(s)
  /\ rows[s].st \in {"stopped", "failed"}
  /\ LoadAs(s, FromRow(rows[s], rows[s].st, "none", rows[s].err))
  /\ UNCHANGED <<created, usedSlots, host, rows, pc, pend, restarts, crashes>>

\* Mutant: the slots of recovered sessions are not excepted.
CleanupAll ==
  /\ cursor = MaxSessions + 1
  /\ vms' = {} /\ taps' = {}
  /\ cursor' = 0
  /\ UNCHANGED <<maps, sess, snaps, strays, workspaces, rows, pc, pend, restarts, crashes>>

\* CleanupOrphansExcept the live slots; then the server accepts requests.
CleanupOrphans ==
  /\ cursor = MaxSessions + 1
  /\ vms' = {x \in vms : x[2] \in usedSlots}
  /\ taps' = {k \in taps : k \in usedSlots \/ ~IsSocketAlive(k)}
  /\ cursor' = 0
  /\ UNCHANGED <<maps, sess, snaps, strays, workspaces, rows, pc, pend, restarts, crashes>>

----------------------------------------------------------------------------

BootStep(s) ==
  \/ Upsert("boot", s)
  \/ Clone(s) \/ CreateSnapshot(s) \/ InjectNetworkConfig(s)
  \/ Launch(s) \/ WaitForSSH(s) \/ Setup(s)
  \/ FailRelease(s) \/ FailTransition(s)

AgentStep(s) == AgentUsageLimit(s) \/ AgentError(s) \/ AgentDone(s)

TeardownStep(g, s) ==
  \/ StopVM(g, s) \/ DeleteSnapshot(g, s) \/ freeSlot(g, s) \/ MarkStopped(g, s)
  \/ DropFromMap(g, s) \/ DeleteRow(g, s) \/ CleanupWorkspace(g, s)

LoadStep ==
  \/ \E s \in Sids : LoadNothing(s) \/ LoadReady(s) \/ LoadMidway(s) \/ LoadTerminal(s)
  \/ CleanupOrphans

Next ==
  \/ \E role \in Roles, repo \in Repos : Create(role, repo)
  \/ \E s \in Sids :
       \/ Restart(s) \/ Stop(s) \/ StopTerminal(s)
       \/ BootStep(s) \/ AgentStep(s)
       \/ TeardownStep("boot", s)
       \/ Upsert("stop", s) \/ TeardownStep("stop", s)
  \/ \E reboot \in BOOLEAN : Crash(reboot)
  \/ LoadStep

Spec == Init /\ [][Next]_vars

\* Boot waits for others: for git, over the network and without a timeout, or
\* for the commands in the guest, over SSH and without a deadline.
Remote(s) ==
  /\ pend["boot"][s] = NoRow
  /\ \/ pc["boot"][s] = "clone" /\ sess[s].repo
     \/ pc["boot"][s] = "setup"

\* Every other step of a goroutine ends: WaitForSSH gives up after 60 s,
\* stopping a VM after 8 s, WaitForVMDead after 5 s.  Nothing bounds how long
\* git, the guest or the agent takes, and nobody has to make requests.
Fairness ==
  /\ \A s \in Sids : /\ WF_vars(BootStep(s) /\ ~Remote(s))
                     /\ WF_vars(TeardownStep("boot", s))
                     /\ WF_vars(TeardownStep("stop", s) \/ Upsert("stop", s))
  /\ WF_vars(LoadStep)

FairSpec == Spec /\ Fairness

----------------------------------------------------------------------------
(* Properties. *)

\* Every variable has its type: the state of newSessionManager and of the
\* Session objects, and the rows persistSession writes.
TypeOK ==
  /\ created \in 0 .. MaxSessions
  /\ inMap \subseteq Sids
  /\ sess \in [Sids -> Session]
  /\ usedSlots \subseteq Nat /\ IsFiniteSet(usedSlots)
  /\ vms \subseteq Sids \X Nat
  /\ taps \subseteq Nat
  /\ snaps \subseteq Sids
  /\ strays \subseteq Sids
  /\ workspaces \subseteq Sids
  /\ rows \in [Sids -> Row \cup {NoRow}]
  /\ pc \in [Procs -> [Sids -> PCs]]
  /\ pend \in [Procs -> [Sids -> Row \cup {NoRow}]]
  /\ cursor \in 0 .. MaxSessions + 1
  /\ restarts \in 0 .. MaxRestarts
  /\ crashes \in 0 .. MaxCrashes

BootHolding == {"clone", "snapshot", "inject", "launch", "ssh", "setup", "agent",
                "f_kill", "f_snap", "f_release", "u_kill", "u_snap", "u_free",
                "d_kill", "d_snap", "d_free"}
StopHolding == {"k_kill", "k_snap", "k_free"}

\* The session has a slot to give back: boot or stop has yet to free it, or
\* it is ready and nobody is at work on it.
Holds(s) ==
  \/ pc["boot"][s] \in BootHolding
  \/ pc["stop"][s] \in StopHolding
  \/ s \in inMap /\ sess[s].st = "ready" /\ pc["boot"][s] = "idle"

Holders == {s \in Sids : Holds(s)}

\* No two Firecracker processes share a slot, hence a TAP device, an address
\* and a socket: what allocSlot and freeSlot are for.
OneVMPerSlot == \A x, y \in vms : x[2] = y[2] => x = y

\* usedSlots holds exactly the slots of the sessions that have one to give
\* back, and no two of them have the same: no slot is freed twice, lost, or
\* handed out while its session still runs.
SlotsAccounted ==
  /\ usedSlots = {sess[s].slot : s \in Holders}
  /\ \A s, t \in Holders : s # t => sess[s].slot # sess[t].slot

\* A session that is shown as ready and is not being torn down has its own
\* VM in its own slot with the network up, its snapshot and its workspace.
ReadyIsUsable ==
  \A s \in inMap :
    sess[s].st = "ready" /\ pc["boot"][s] \in {"idle", "agent"} =>
      /\ <<s, sess[s].slot>> \in vms
      /\ sess[s].slot \in taps
      /\ s \in snaps
      /\ sess[s].repo => s \in workspaces

\* A session that has given its slot back has left no VM behind, and no
\* snapshot but one that it has tried to delete: every error path and every
\* kind of stop undoes, or tries to undo, what boot did.
NothingLeaks ==
  /\ \A x \in vms : Holds(x[1])
  /\ \A s \in snaps \cup strays : Holds(s) \/ (s \in strays /\ s \notin snaps)

\* While the server accepts requests every running VM belongs to a session of
\* the map, in that session's slot: somebody can still stop it.
VMsStoppable ==
  cursor = 0 => \A x \in vms : x[1] \in inMap /\ Holds(x[1]) /\ sess[x[1]].slot = x[2]

\* Boot is the only one to move a session that is not ready yet: none of its
\* transitions is ever refused (the "transition error" returns of boot).
BootOwnsState ==
  \A s \in Sids :
    LET c == pc["boot"][s] IN
    /\ c \in {"clone", "snapshot", "inject"} => sess[s].st = "provisioning"
    /\ c = "launch" => sess[s].st = "booting"
    /\ c = "ssh" => sess[s].st = "waiting_ssh"
    /\ c = "setup" => sess[s].st = "configuring"
    /\ c \in {"f_kill", "f_snap", "f_release", "f_failed"} => CanTransition(sess[s].st, "failed")

\* GET /api/sessions shows the map, the tools of the MCP server the rows.
List == inMap
GetSession(s) == rows[s]
ListSessions == {s \in Sids : rows[s] # NoRow}

isActiveSession(row) == row.st \notin {"stopped", "failed"}

list_sessions(showAll) == {s \in ListSessions : showAll \/ isActiveSession(rows[s])}

\* The row without its prompt, and with or without its result (of which
\* get_session_result shows 4000 bytes, or all of it on request).
slimSession(row, includeResult) == [row EXCEPT !.res = @ /\ includeResult]
get_session(s)        == slimSession(GetSession(s), FALSE)
get_session_result(s) == slimSession(GetSession(s), TRUE)

\* When nobody is at work on a session, the two views of it agree: a session
\* that GET /api/sessions shows has a row with its state and slot, what
\* list_sessions shows as active is in the map and can be stopped, and the
\* only other rows are those of finished agents.  Excepted is a session that
\* was asked to stop or restart while its goroutines were at work: their
\* writes may overtake each other.
RowsMatch ==
  cursor = 0 => \A s \in Sids : Resting(s) /\ sess[s].asked # "working" =>
    /\ s \in List => /\ s \in ListSessions
                     /\ get_session(s).st = sess[s].st /\ get_session(s).slot = sess[s].slot
    /\ s \in list_sessions(FALSE) => s \in List
    /\ s \in list_sessions(TRUE) \ List =>
         get_session(s).st = "stopped" /\ get_session(s).role # "interactive"

\* The store has s as ready, and its VM has survived the end of the server.
Survivor(s) == rows[s].st = "ready" /\ <<s, rows[s].slot>> \in vms

\* A row that was never brought up to date has the slot of s, too.
Contested(s) == \E t \in Sids \ {s} : rows[t].st \in Midway /\ rows[t].slot = rows[s].slot

\* loadFromDB keeps a session as it is in the store, its VM too, and has it
\* ready in the map when requests are accepted again.
Recovered(s) ==
  /\ <<s, rows[s].slot>> \in vms'
  /\ rows'[s] = rows[s]
  /\ cursor' = 0 => s \in inMap' /\ sess'[s].st = "ready"

\* loadFromDB never harms a session that the store has as ready and whose VM
\* has survived, unless the row of another session, caught midway, has the
\* same slot.
RecoveryKeepsReady ==
  [][cursor > 0 /\ crashes' = crashes =>
       \A s \in Sids : Survivor(s) /\ ~Contested(s) => Recovered(s)]_vars

\* What the comment of loadFromDB says, without that exception.
RecoveryReconnects ==
  [][cursor > 0 /\ crashes' = crashes => \A s \in Sids : Survivor(s) => Recovered(s)]_vars

\* What WaitForSession makes of the row it polls.
WaitForSession(s) ==
  CASE rows[s] = NoRow -> "not found"
    [] rows[s].st = "stopped" -> IF rows[s].res THEN "result" ELSE "empty result"
    [] rows[s].st = "failed" ->
         IF rows[s].err = "usage limit" THEN "ErrUsageLimit" ELSE "error"
    [] OTHER -> "polling"

\* Once nobody is at work on an agent that finished, WaitForSession returns
\* its result and get_session_result shows it, although the session has left
\* the map; only Stop, which deletes the row, can withdraw it.
ResultDelivered ==
  \A s \in Sids : Resting(s) /\ sess[s].res =>
    \/ WaitForSession(s) = "result" /\ get_session_result(s).res
    \/ sess[s].asked # "no" /\ rows[s] = NoRow

\* The row of a finished agent, with its result, is never written again, by a
\* recovery either, but by Stop or by a Restart of the session.
ResultKept ==
  [][\A s \in Sids : rows[s] # NoRow /\ rows[s].st = "stopped" /\ rows[s].res =>
       \/ rows'[s] = rows[s]
       \/ pc["stop"][s] # "idle"
       \/ pend["boot"][s] # NoRow /\ pend["boot"][s].st = "provisioning"]_vars

\* An agent that hit its usage limit is a failed session, and WaitForSession
\* reports ErrUsageLimit.
UsageLimitReported ==
  \A s \in Sids : Resting(s) /\ sess[s].err = "usage limit" =>
                    WaitForSession(s) = "ErrUsageLimit"

\* A boot comes to an end, the session becomes ready or failed, unless git or
\* the guest stops answering.
BootSettles ==
  \A s \in Sids : []<>~Remote(s) =>
    (sess[s].st = "provisioning" ~> sess[s].st \in {"ready", "failed", "absent"})

\* Every accepted Stop is carried through: the session leaves the map, and
\* its slot is free for the next one.
StopCompletes ==
  \A s \in Sids : sess[s].st = "stopping" ~> (s \notin inMap /\ ~Holds(s))


\* A session has a slot on lease that it holds, or in which its VM runs.
Leases == {<<s, sess[s].slot>> : s \in Holders} \cup vms

\* The slots that allocSlot may hand out: it takes the lowest free one.
Pool == IF MaxSlots > 0 THEN 0 .. MaxSlots - 1 ELSE 0 .. MaxSessions

Lease == INSTANCE SlotLease WITH Owners <- Sids, Slots <- Pool,
           lease <- Leases, up <- vms, mode <- IF cursor = 0 THEN "serving" ELSE "loading"

\* allocSlot, freeSlot, Launch, the teardowns and loadFromDB together lease the
\* slots as SlotLease says: within the -slots limit, each to one session that
\* has no other, with no VM outside a lease and none left in a slot that is
\* given back; a recovery takes over leases and grants none.
LeasePromise == Lease!Spec
====
