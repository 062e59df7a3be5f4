---- MODULE TerminalServer ----
(***************************************************************************)
(* The terminal server (cmd/terminal/main.go, internal/terminal/bridge.go) *)
(* beside the poc server whose sessions it connects to.                    *)
(*                                                                         *)
(* A browser opens a WebSocket for a session; the handler looks the row of *)
(* the session up, registers the connection with the hub, dials the slot   *)
(* that the row names and relays until the browser leaves.  Each relay has *)
(* two goroutines: the handler reads the WebSocket, the other copies the   *)
(* output of the VM to it.  A third, at shutdown, writes to every          *)
(* WebSocket in the hub.  A WebSocket allows one writer at a time.         *)
(*                                                                         *)
(* The poc server is here as the writer of the rows and the owner of the   *)
(* VMs (SessionManager has it in full): a row says "ready" from when the   *)
(* VM answers until Stop, and the slot goes to another session once the VM *)
(* is gone.  The two processes share only the store, which is the one that *)
(* RowStore promises, a statement at a time.                               *)
(***************************************************************************)
EXTENDS Naturals, FiniteSets

CONSTANTS
  Sessions, Slots,
  Conns,           \* WebSocket connections
  Page,            \* the session whose page opens the connection
  NoVM,
  MaxStops,        \* bound: sessions that are stopped
  MaxStoreFaults   \* bound: writes of the store that fail

ASSUME TerminalAssumption ==
  NoVM \notin Sessions /\ Page \in [Conns -> Sessions] /\ MaxStops \in Nat /\ MaxStoreFaults \in Nat

VARIABLES
  rows,     \* the store: <<status, slot>> of a session, or <<>>
  faults,   \* writes that failed
  phase,    \* of each session, in the poc server
  vm,       \* the session whose VM has the slot's address, or NoVM
  conn,     \* the handler of each connection
  out,      \* the goroutine that copies VM output to the connection
  browser,  \* "reading", "stalled" (its window is full) or "gone" (closed by
            \* either side)
  hub,      \* connHub.conns
  server,   \* "serving", "notifying" (hub locked), "pausing", "exited", "panicked"
  notify,   \* the connections that notifyReconnect has yet to write to
  writing,  \* {the connection it is writing to}, or {}
  told,     \* connections whose browser has been sent "reconnect"
  active    \* history: the hub when notifyReconnect began

pocVars  == <<rows, faults, phase, vm>>
connVars == <<conn, out, browser, hub>>
downVars == <<server, notify, writing, told, active>>
vars     == <<pocVars, connVars, downVars>>

Init ==
  /\ rows = [s \in Sessions |-> <<>>]
  /\ faults = 0
  /\ phase = [s \in Sessions |-> "new"]
  /\ vm = [slot \in Slots |-> NoVM]
  /\ conn = [c \in Conns |-> [pc |-> "idle"]]
  /\ out = [c \in Conns |-> "none"]
  /\ browser = [c \in Conns |-> "reading"]
  /\ hub = {}
  /\ server = "serving" /\ notify = {} /\ writing = {} /\ told = {} /\ active = {}

------------------------------------------------------------------------------
\* The poc server.

\* persistSession and Delete: an error is only logged.
Persist(s, row) ==
  \/ rows' = [rows EXCEPT ![s] = row] /\ UNCHANGED faults
  \/ faults < MaxStoreFaults /\ faults' = faults + 1 /\ UNCHANGED rows

\* A boot reaches "ready": the VM answers on the address of a free slot, and
\* the row is written.
BootDone(s, slot) ==
  /\ phase[s] = "new" /\ vm[slot] = NoVM
  /\ Persist(s, <<"ready", slot>>)
  /\ vm' = [vm EXCEPT ![slot] = s]
  /\ phase' = [phase EXCEPT ![s] = "ready"]
  /\ UNCHANGED <<connVars, downVars>>

\* Mutant: Stop leaves the row alone until it deletes it.
StopUnannounced(s, slot) ==
  /\ phase[s] = "ready" /\ vm[slot] = s
  /\ phase' = [phase EXCEPT ![s] = "stopping"]
  /\ UNCHANGED <<rows, faults, vm, connVars, downVars>>

\* Stop: the row says "stopping" before the VM is touched.
Stop(s, slot) ==
  /\ Cardinality({t \in Sessions : phase[t] \in {"stopping", "halted", "gone"}}) < MaxStops
  /\ phase[s] = "ready" /\ vm[slot] = s
  /\ Persist(s, <<"stopping", slot>>)
  /\ phase' = [phase EXCEPT ![s] = "stopping"]
  /\ UNCHANGED <<vm, connVars, downVars>>

\* The VM is stopped and dead, the slot free.
StopVM(s, slot) ==
  /\ phase[s] = "stopping" /\ vm[slot] = s
  /\ vm' = [vm EXCEPT ![slot] = NoVM]
  /\ phase' = [phase EXCEPT ![s] = "halted"]
  /\ UNCHANGED <<rows, faults, connVars, downVars>>

\* The session leaves the map and the store.
StopDelete(s) ==
  /\ phase[s] = "halted"
  /\ Persist(s, <<>>)
  /\ phase' = [phase EXCEPT ![s] = "gone"]
  /\ UNCHANGED <<vm, connVars, downVars>>

------------------------------------------------------------------------------
\* One connection of the terminal server.

Up == server \notin {"exited", "panicked"}

\* connHub.mu: notifyReconnect holds it while it writes.
HubFree == server # "notifying"

At(c, pc) == Up /\ conn[c].pc = pc
Goes(c, pc) == conn' = [conn EXCEPT ![c].pc = pc]

\* Relay returns: ws.Close.
Closes(c) ==
  /\ conn' = [conn EXCEPT ![c] = [pc |-> "closing"]]
  /\ out' = [out EXCEPT ![c] = "none"]
  /\ browser' = [browser EXCEPT ![c] = "gone"]

\* GET /ws/{id}: the row is looked up, and only a ready session is connected.
\* An error of the store refuses the connection as well.
Connect(c) ==
  LET s == Page[c] IN
  /\ At(c, "idle")
  /\ \/ /\ rows[s] # <<>> /\ rows[s][1] = "ready"
        /\ conn' = [conn EXCEPT ![c] = [pc |-> "upgrading", session |-> s, slot |-> rows[s][2]]]
     \/ conn' = [conn EXCEPT ![c] = [pc |-> "closed"]]
  /\ UNCHANGED <<pocVars, out, browser, hub, downVars>>

\* Upgrade fails, when the browser has gone, or succeeds: the connection is
\* registered with the hub.
Upgrade(c) ==
  /\ At(c, "upgrading")
  /\ \/ browser[c] = "gone" /\ conn' = [conn EXCEPT ![c] = [pc |-> "closed"]] /\ UNCHANGED hub
     \/ HubFree /\ hub' = hub \cup {c} /\ Goes(c, "dialing")
  /\ UNCHANGED <<pocVars, out, browser, downVars>>

\* Does a second goroutine start writing to the connection?  The WebSocket
\* library may panic, in either of the two: a flag that neither locks is looked
\* at before and after the write.  A panic of notifyReconnect or of the copying
\* goroutine ends the process.
Overlaps(c) == out[c] = "writing" \/ conn[c].pc = "reporting" \/ c \in writing
MayPanic(c) == server' = server \/ (Overlaps(c) /\ server' = "panicked")

\* relay up to session.Start.  Whatever has the slot's address now answers.
\* If nothing does, or a step of the set-up fails, the error is written to
\* the browser (a pipe that cannot be had is not reported).  net/http recovers
\* a panic of the handler, whose deferred calls close the connection.
Dial(c) ==
  /\ At(c, "dialing")
  /\ \/ /\ vm[conn[c].slot] # NoVM
        /\ conn' = [conn EXCEPT ![c] =
             [pc |-> "relaying", slot |-> @.slot, vm |-> vm[@.slot]]]
        /\ out' = [out EXCEPT ![c] = "reading"]
        /\ UNCHANGED <<server, browser>>
     \/ Goes(c, "reporting") /\ MayPanic(c) /\ UNCHANGED <<out, browser>>
     \/ (vm[conn[c].slot] # NoVM \/ Overlaps(c)) /\ Closes(c) /\ UNCHANGED server
  /\ UNCHANGED <<pocVars, hub, notify, writing, told, active>>

Reported(c) ==
  /\ At(c, "reporting") /\ browser[c] # "stalled"
  /\ Closes(c)
  /\ UNCHANGED <<pocVars, hub, downVars>>

VMAlive(c) == vm[conn[c].slot] = conn[c].vm

\* The copying goroutine: a chunk of output is read and written.
OutputBegins(c) ==
  /\ Up /\ out[c] = "reading" /\ conn[c].pc = "relaying" /\ VMAlive(c)
  /\ out' = [out EXCEPT ![c] = "writing"]
  /\ MayPanic(c)
  /\ UNCHANGED <<pocVars, conn, browser, hub, notify, writing, told, active>>

\* The write returns: to the next read, or, in an error, to close(done).
OutputEnds(c) ==
  /\ Up /\ out[c] = "writing" /\ browser[c] # "stalled"
  /\ out' = [out EXCEPT ![c] = IF browser[c] = "gone" THEN "done" ELSE "reading"]
  /\ UNCHANGED <<pocVars, conn, browser, hub, downVars>>

\* Mutant: nothing closes the SSH session.
OutputEOFNoClose(c) ==
  /\ Up /\ out[c] = "reading" /\ ~VMAlive(c)
  /\ out' = [out EXCEPT ![c] = "done"]
  /\ UNCHANGED <<pocVars, conn, browser, hub, downVars>>

\* The read ends: the VM has gone or the handler has closed the SSH session.
OutputEOF(c) ==
  /\ Up /\ out[c] = "reading"
  /\ ~VMAlive(c) \/ conn[c].pc = "draining"
  /\ out' = [out EXCEPT ![c] = "done"]
  /\ UNCHANGED <<pocVars, conn, browser, hub, downVars>>

\* The handler's loop ends when the browser has gone, or when what it typed
\* cannot be written to the VM; then session.Close.
LoopEnds(c) ==
  /\ At(c, "relaying")
  /\ browser[c] = "gone" \/ ~VMAlive(c)
  /\ Goes(c, "draining")
  /\ UNCHANGED <<pocVars, out, browser, hub, downVars>>

\* <-done, and relay returns.
Drained(c) ==
  /\ At(c, "draining") /\ out[c] = "done"
  /\ Closes(c)
  /\ UNCHANGED <<pocVars, hub, downVars>>

\* The deferred hub.remove.
Return(c) ==
  /\ At(c, "closing") /\ HubFree
  /\ hub' = hub \ {c}
  /\ Goes(c, "closed")
  /\ UNCHANGED <<pocVars, out, browser, downVars>>

\* The browser stops reading, reads on, or leaves.
BrowserMoves(c) ==
  /\ Up /\ conn[c].pc \notin {"idle", "closed"} /\ browser[c] # "gone"
  /\ \E b \in {"reading", "stalled", "gone"} \ {browser[c]} : browser' = [browser EXCEPT ![c] = b]
  /\ UNCHANGED <<pocVars, conn, out, hub, downVars>>

------------------------------------------------------------------------------
\* Shutdown.

\* SIGTERM: notifyReconnect takes the hub's mutex.
Signal ==
  /\ server = "serving"
  /\ server' = "notifying" /\ notify' = hub /\ active' = hub
  /\ UNCHANGED <<pocVars, connVars, writing, told>>

\* Mutant: a goroutine for each connection.
NotifyBeginsForEach(c) ==
  /\ server = "notifying" /\ c \in notify
  /\ writing' = writing \cup {c}
  /\ MayPanic(c)
  /\ UNCHANGED <<pocVars, connVars, notify, told, active>>

\* The two messages to one connection, as one write.
NotifyBegins(c) ==
  /\ server = "notifying" /\ writing = {} /\ c \in notify
  /\ writing' = {c}
  /\ MayPanic(c)
  /\ UNCHANGED <<pocVars, connVars, notify, told, active>>

NotifyEnds(c) ==
  /\ server = "notifying" /\ writing = {c} /\ browser[c] # "stalled"
  /\ writing' = {} /\ notify' = notify \ {c}
  /\ told' = IF browser[c] = "gone" THEN told ELSE told \cup {c}
  /\ UNCHANGED <<pocVars, connVars, server, active>>

\* Mutant: the mutex is kept until the handlers have returned.
NotifiedWaits ==
  /\ server = "notifying" /\ writing = {} /\ notify = {} /\ hub = {}
  /\ server' = "pausing"
  /\ UNCHANGED <<pocVars, connVars, notify, writing, told, active>>

Notified ==
  /\ server = "notifying" /\ writing = {} /\ notify = {}
  /\ server' = "pausing"
  /\ UNCHANGED <<pocVars, connVars, notify, writing, told, active>>

\* Mutant: main does not wait for notifyReconnect.
ExitAtOnce ==
  /\ server \in {"notifying", "pausing"}
  /\ server' = "exited"
  /\ UNCHANGED <<pocVars, connVars, notify, writing, told, active>>

\* The pause is over: srv.Shutdown makes ListenAndServe return, and main.
Exit ==
  /\ server = "pausing"
  /\ server' = "exited"
  /\ UNCHANGED <<pocVars, connVars, notify, writing, told, active>>

------------------------------------------------------------------------------
\* The poc server goes on for ever; here, as long as the terminal server is
\* there to see it.
PocNext ==
  /\ Up
  /\ \E s \in Sessions :
       \/ \E slot \in Slots : BootDone(s, slot) \/ Stop(s, slot) \/ StopVM(s, slot)
       \/ StopDelete(s)

Next ==
  \/ PocNext
  \/ \E c \in Conns :
       \/ Connect(c) \/ Upgrade(c) \/ Dial(c) \/ Reported(c) \/ OutputBegins(c) \/ OutputEnds(c) \/ OutputEOF(c)
       \/ LoopEnds(c) \/ Drained(c) \/ Return(c) \/ BrowserMoves(c)
       \/ NotifyBegins(c) \/ NotifyEnds(c)
  \/ Signal \/ Notified \/ Exit

\* The next step of each goroutine: a connection's handler, its copying
\* goroutine, and main's with notifyReconnect.
HandlerStep(c) ==
  \/ Upgrade(c) \/ Dial(c) \/ Reported(c) \/ (browser[c] = "gone" /\ LoopEnds(c))
  \/ Drained(c) \/ Return(c)
CopierStep(c) == OutputEnds(c) \/ OutputEOF(c)
ShutdownStep == (\E c \in Conns : NotifyBegins(c) \/ NotifyEnds(c)) \/ Notified \/ Exit

\* Goroutines that can run do run, and a dead connection is noticed.  Nothing
\* is assumed of browsers, of VM output, of the poc server or of the signal.
Fairness ==
  /\ \A c \in Conns : WF_vars(HandlerStep(c)) /\ WF_vars(CopierStep(c))
  /\ WF_vars(ShutdownStep)

Spec == Init /\ [][Next]_vars /\ Fairness

------------------------------------------------------------------------------
\* Types of the state of both servers; notifyReconnect writes to one
\* connection at a time, and only to those open when the signal came.
TypeOK ==
  /\ rows \in [Sessions -> {<<>>} \cup ({"ready", "stopping"} \X Slots)]
  /\ faults \in 0..MaxStoreFaults
  /\ phase \in [Sessions -> {"new", "ready", "stopping", "halted", "gone"}]
  /\ vm \in [Slots -> Sessions \cup {NoVM}]
  /\ \A c \in Conns : conn[c].pc \in {"idle", "upgrading", "dialing", "reporting", "relaying",
                                       "draining", "closing", "closed"}
  /\ out \in [Conns -> {"none", "reading", "writing", "done"}]
  /\ browser \in [Conns -> {"reading", "stalled", "gone"}]
  /\ server \in {"serving", "notifying", "pausing", "exited", "panicked"}
  /\ hub \subseteq Conns /\ told \subseteq active /\ notify \subseteq active
  /\ writing \subseteq notify /\ Cardinality(writing) <= 1

\* A terminal is attached to the VM of its own session.  The slot may be given
\* to another session between the look-up of the row and the dial, but without
\* a fault of the store only if the row no longer says what was looked up.
OwnVM ==
  [][\A c \in Conns :
       (conn[c].pc = "dialing" /\ conn'[c].pc = "relaying" /\ conn'[c].vm # conn[c].session)
       => rows[conn[c].session] # <<"ready", conn[c].slot>> \/ faults > 0]_vars

\* A graceful exit has told every terminal that was open when the signal came
\* to reconnect, except those whose connection was closed in the meantime.
TerminalsTold ==
  server = "exited" => \A c \in active : c \in told \/ browser[c] = "gone"

\* notifyReconnect is in a write to a browser that does not read: it holds the
\* mutex of the hub, and no deadline ends the write.
HeldUp == \E c \in writing : browser[c] = "stalled"

\* The process ends after the signal, unless a browser that does not read
\* holds notifyReconnect up.
ShutdownCompletes == server = "notifying" ~> (~Up \/ HeldUp)

\* When the browser has gone both goroutines of the relay end and the hub
\* forgets the connection, with the same exception.
RelayEnds ==
  \A c \in Conns : (c \in hub /\ browser[c] = "gone") ~> (c \notin hub \/ ~Up \/ HeldUp)
====
