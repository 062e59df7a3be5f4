---- MODULE TerminalServerProofs ----
(***************************************************************************)
(* Proofs about TerminalServer, for every number of sessions, slots and    *)
(* connections: its types, that a graceful exit has told every terminal,   *)
(* and that a terminal is attached to the VM of its own session.           *)
(***************************************************************************)
EXTENDS TerminalServer, FiniteSetTheorems, TLAPS

\* A handler knows the session and the slot of the row it has looked up, and
\* once it relays the slot and the VM that answered there.
Handlers ==
  [pc : {"idle", "closing", "closed"}]
  \cup [pc : {"upgrading", "dialing", "reporting"}, session : Sessions, slot : Slots]
  \cup [pc : {"relaying", "draining"}, slot : Slots, vm : Sessions]

PocTypes ==
  /\ rows \in [Sessions -> {<<>>} \cup ({"ready", "stopping"} \X Slots)]
  /\ faults \in 0..MaxStoreFaults
  /\ phase \in [Sessions -> {"new", "ready", "stopping", "halted", "gone"}]
  /\ vm \in [Slots -> Sessions \cup {NoVM}]

ConnTypes ==
  /\ conn \in [Conns -> Handlers]
  /\ out \in [Conns -> {"none", "reading", "writing", "done"}]
  /\ browser \in [Conns -> {"reading", "stalled", "gone"}]
  /\ hub \subseteq Conns

\* Only an active connection is written to, one at a time, and none before the
\* signal.
DownTypes ==
  /\ server \in {"serving", "notifying", "pausing", "exited", "panicked"}
  /\ told \subseteq active /\ notify \subseteq active /\ active \subseteq Conns
  /\ writing = {} \/ \E c \in notify : writing = {c}
  /\ server = "serving" => active = {} /\ told = {} /\ notify = {} /\ writing = {}

\* Without a fault of the store a row that says "ready" is true: the VM of the
\* session has the address of the slot.
ReadyRowIsTrue ==
  faults = 0 =>
    \A s \in Sessions, slot \in Slots :
      rows[s] = <<"ready", slot>> => phase[s] = "ready" /\ vm[slot] = s

\* From the signal on every active connection is still to be written to, has
\* been told or is closed; none is left once the hub is unlocked.
NoneForgotten ==
  /\ \A c \in active : c \in notify \/ c \in told \/ browser[c] = "gone"
  /\ server \in {"pausing", "exited"} => notify = {}

\* The inductive invariant.
TerminalInv == PocTypes /\ ConnTypes /\ DownTypes /\ ReadyRowIsTrue /\ NoneForgotten

------------------------------------------------------------------------------
LEMMA InitTerminalInv == Init => TerminalInv
<1> SUFFICES ASSUME Init PROVE TerminalInv
  OBVIOUS
<1>1. [pc |-> "idle"] \in Handlers
  BY DEF Handlers
<1>2. PocTypes
  BY TerminalAssumption DEF Init, PocTypes
<1>3. ConnTypes
  BY <1>1 DEF Init, ConnTypes
<1>4. DownTypes /\ NoneForgotten
  BY DEF Init, DownTypes, NoneForgotten
<1>5. ReadyRowIsTrue
  BY DEF Init, ReadyRowIsTrue
<1>6. QED
  BY <1>2, <1>3, <1>4, <1>5 DEF TerminalInv

\* Steps of the poc server: the terminal server sees only the rows.
LEMMA PocKeepsRest ==
  ASSUME TerminalInv, UNCHANGED <<connVars, downVars>>
  PROVE  ConnTypes' /\ DownTypes' /\ NoneForgotten'
BY DEF TerminalInv, ConnTypes, DownTypes, NoneForgotten, connVars, downVars

LEMMA PersistTypes ==
  ASSUME PocTypes, NEW s \in Sessions, NEW row \in {<<>>} \cup ({"ready", "stopping"} \X Slots),
         Persist(s, row)
  PROVE  /\ rows' \in [Sessions -> {<<>>} \cup ({"ready", "stopping"} \X Slots)]
         /\ faults' \in 0..MaxStoreFaults
         /\ faults' = 0 => faults = 0 /\ rows' = [rows EXCEPT ![s] = row]
BY TerminalAssumption DEF PocTypes, Persist

LEMMA BootDoneKeeps ==
  ASSUME TerminalInv, NEW s \in Sessions, NEW slot \in Slots, BootDone(s, slot)
  PROVE  TerminalInv'
<1> USE DEF TerminalInv, BootDone
<1>1. <<"ready", slot>> \in {<<>>} \cup ({"ready", "stopping"} \X Slots)
  OBVIOUS
<1>2. PocTypes'
  BY <1>1, PersistTypes DEF PocTypes
<1>3. ReadyRowIsTrue'
  <2> SUFFICES ASSUME faults' = 0, NEW t \in Sessions, NEW k \in Slots, rows'[t] = <<"ready", k>>
               PROVE  phase'[t] = "ready" /\ vm'[k] = t
    BY DEF ReadyRowIsTrue
  <2>1. faults = 0 /\ rows' = [rows EXCEPT ![s] = <<"ready", slot>>]
    BY <1>1, PersistTypes
  <2>2. CASE t = s
    <3>1. k = slot
      BY <2>1, <2>2 DEF PocTypes
    <3>2. QED
      BY <2>2, <3>1 DEF PocTypes
  <2>3. CASE t # s
    <3>1. phase[t] = "ready" /\ vm[k] = t
      BY <2>1, <2>3 DEF PocTypes, ReadyRowIsTrue
    <3>2. k # slot
      BY <3>1, TerminalAssumption
    <3>3. QED
      BY <2>3, <3>1, <3>2 DEF PocTypes
  <2>4. QED
    BY <2>2, <2>3
<1>4. QED
  BY <1>2, <1>3, PocKeepsRest

LEMMA StopKeeps ==
  ASSUME TerminalInv, NEW s \in Sessions, NEW slot \in Slots, Stop(s, slot)
  PROVE  TerminalInv'
<1> USE DEF TerminalInv, Stop
<1>1. <<"stopping", slot>> \in {<<>>} \cup ({"ready", "stopping"} \X Slots)
  OBVIOUS
<1>2. PocTypes'
  BY <1>1, PersistTypes DEF PocTypes
<1>3. ReadyRowIsTrue'
  <2> SUFFICES ASSUME faults' = 0, NEW t \in Sessions, NEW k \in Slots, rows'[t] = <<"ready", k>>
               PROVE  phase'[t] = "ready" /\ vm'[k] = t
    BY DEF ReadyRowIsTrue
  <2>1. faults = 0 /\ rows' = [rows EXCEPT ![s] = <<"stopping", slot>>]
    BY <1>1, PersistTypes
  <2>2. t # s
    BY <2>1 DEF PocTypes
  <2>3. QED
    BY <2>1, <2>2 DEF PocTypes, ReadyRowIsTrue
<1>4. QED
  BY <1>2, <1>3, PocKeepsRest

LEMMA StopVMKeeps ==
  ASSUME TerminalInv, NEW s \in Sessions, NEW slot \in Slots, StopVM(s, slot)
  PROVE  TerminalInv'
<1> USE DEF TerminalInv, StopVM
<1>1. PocTypes'
  BY DEF PocTypes
<1>2. ReadyRowIsTrue'
  BY DEF PocTypes, ReadyRowIsTrue
<1>3. QED
  BY <1>1, <1>2, PocKeepsRest

LEMMA StopDeleteKeeps ==
  ASSUME TerminalInv, NEW s \in Sessions, StopDelete(s)
  PROVE  TerminalInv'
<1> USE DEF TerminalInv, StopDelete
<1>1. PocTypes'
  BY PersistTypes DEF PocTypes
<1>2. ReadyRowIsTrue'
  <2> SUFFICES ASSUME faults' = 0, NEW t \in Sessions, NEW k \in Slots, rows'[t] = <<"ready", k>>
               PROVE  phase'[t] = "ready" /\ vm'[k] = t
    BY DEF ReadyRowIsTrue
  <2>1. faults = 0 /\ rows' = [rows EXCEPT ![s] = <<>>]
    BY PersistTypes
  <2>2. t # s
    BY <2>1 DEF PocTypes
  <2>3. QED
    BY <2>1, <2>2 DEF PocTypes, ReadyRowIsTrue
<1>3. QED
  BY <1>1, <1>2, PocKeepsRest

------------------------------------------------------------------------------
\* Steps of the terminal server leave the rows alone.
LEMMA ConnKeepsPoc ==
  ASSUME TerminalInv, UNCHANGED pocVars
  PROVE  PocTypes' /\ ReadyRowIsTrue'
BY DEF TerminalInv, PocTypes, ReadyRowIsTrue, pocVars

\* A connection that closes stays closed, and only a panic takes the server
\* out of the shutdown.
LEMMA ConnKeepsDown ==
  ASSUME TerminalInv, UNCHANGED <<notify, writing, told, active>>,
         server' = server \/ server' = "panicked",
         \A c \in Conns : browser[c] = "gone" => browser'[c] = "gone"
  PROVE  DownTypes' /\ NoneForgotten'
<1> USE DEF TerminalInv
<1>1. DownTypes'
  BY DEF DownTypes
<1>2. NoneForgotten'
  BY DEF NoneForgotten, DownTypes
<1>3. QED
  BY <1>1, <1>2

LEMMA HandlerMoves ==
  ASSUME ConnTypes, NEW c \in Conns, NEW h \in Handlers, conn' = [conn EXCEPT ![c] = h]
  PROVE  conn' \in [Conns -> Handlers]
BY DEF ConnTypes

LEMMA ClosesTypes ==
  ASSUME ConnTypes, NEW c \in Conns, Closes(c), hub' = hub
  PROVE  ConnTypes' /\ \A d \in Conns : browser[d] = "gone" => browser'[d] = "gone"
<1>1. [pc |-> "closing"] \in Handlers
  BY DEF Handlers
<1>2. QED
  BY <1>1, HandlerMoves DEF ConnTypes, Closes

LEMMA HandlerSteps ==
  ASSUME TerminalInv, NEW c \in Conns,
         Connect(c) \/ Upgrade(c) \/ Dial(c) \/ Reported(c) \/ LoopEnds(c) \/ Drained(c) \/ Return(c)
  PROVE  ConnTypes' /\ \A d \in Conns : browser[d] = "gone" => browser'[d] = "gone"
<1> USE DEF TerminalInv
<1>1. [pc |-> "closed"] \in Handlers
  BY DEF Handlers
<1>2. CASE Connect(c)
  <2>1. CASE /\ rows[Page[c]] # <<>> /\ rows[Page[c]][1] = "ready"
             /\ conn' = [conn EXCEPT ![c] =
                  [pc |-> "upgrading", session |-> Page[c], slot |-> rows[Page[c]][2]]]
    <3>1. Page[c] \in Sessions /\ rows[Page[c]][2] \in Slots
      BY <2>1, TerminalAssumption DEF PocTypes
    <3>2. [pc |-> "upgrading", session |-> Page[c], slot |-> rows[Page[c]][2]] \in Handlers
      BY <3>1 DEF Handlers
    <3>3. QED
      BY <1>2, <2>1, <3>2, HandlerMoves DEF Connect, ConnTypes
  <2>2. CASE conn' = [conn EXCEPT ![c] = [pc |-> "closed"]]
    BY <1>1, <1>2, <2>2, HandlerMoves DEF Connect, ConnTypes
  <2>3. QED
    BY <1>2, <2>1, <2>2 DEF Connect
<1>3. CASE Upgrade(c)
  <2>1. CASE conn' = [conn EXCEPT ![c] = [pc |-> "closed"]] /\ UNCHANGED hub
    BY <1>1, <1>3, <2>1, HandlerMoves DEF Upgrade, ConnTypes
  <2>2. CASE hub' = hub \cup {c} /\ Goes(c, "dialing")
    <3>1. conn[c] \in [pc : {"upgrading", "dialing", "reporting"}, session : Sessions, slot : Slots]
      BY <1>3 DEF Upgrade, At, ConnTypes, Handlers
    <3>2. [conn[c] EXCEPT !.pc = "dialing"] \in Handlers
      BY <3>1 DEF Handlers
    <3>3. conn' \in [Conns -> Handlers]
      BY <2>2, <3>2, HandlerMoves DEF Goes
    <3>4. QED
      BY <1>3, <2>2, <3>3 DEF Upgrade, ConnTypes
  <2>3. QED
    BY <1>3, <2>1, <2>2 DEF Upgrade
<1>4. CASE Dial(c)
  <2>1. conn[c] \in [pc : {"upgrading", "dialing", "reporting"}, session : Sessions, slot : Slots]
    BY <1>4 DEF Dial, At, ConnTypes, Handlers
  <2>2. CASE /\ vm[conn[c].slot] # NoVM
             /\ conn' = [conn EXCEPT ![c] =
                  [pc |-> "relaying", slot |-> conn[c].slot, vm |-> vm[conn[c].slot]]]
             /\ out' = [out EXCEPT ![c] = "reading"]
             /\ UNCHANGED <<server, browser>>
    <3>1. [pc |-> "relaying", slot |-> conn[c].slot, vm |-> vm[conn[c].slot]] \in Handlers
      BY <2>1, <2>2 DEF Handlers, PocTypes
    <3>2. conn' \in [Conns -> Handlers]
      BY <2>2, <3>1, HandlerMoves
    <3>3. QED
      BY <1>4, <2>2, <3>2 DEF Dial, ConnTypes
  <2>3. CASE Goes(c, "reporting") /\ UNCHANGED <<out, browser>>
    <3>1. [conn[c] EXCEPT !.pc = "reporting"] \in Handlers
      BY <2>1 DEF Handlers
    <3>2. conn' \in [Conns -> Handlers]
      BY <2>3, <3>1, HandlerMoves DEF Goes
    <3>3. QED
      BY <1>4, <2>3, <3>2 DEF Dial, ConnTypes
  <2>4. CASE Closes(c)
    BY <1>4, <2>4, ClosesTypes DEF Dial
  <2>5. QED
    BY <1>4, <2>2, <2>3, <2>4 DEF Dial
<1>5. CASE Reported(c) \/ Drained(c)
  BY <1>5, ClosesTypes DEF Reported, Drained
<1>6. CASE LoopEnds(c)
  <2>1. conn[c] \in [pc : {"relaying", "draining"}, slot : Slots, vm : Sessions]
    BY <1>6 DEF LoopEnds, At, ConnTypes, Handlers
  <2>2. [conn[c] EXCEPT !.pc = "draining"] \in Handlers
    BY <2>1 DEF Handlers
  <2>3. conn' \in [Conns -> Handlers]
    BY <1>6, <2>2, HandlerMoves DEF LoopEnds, Goes
  <2>4. QED
    BY <1>6, <2>3 DEF LoopEnds, ConnTypes
<1>7. CASE Return(c)
  <2>1. conn[c] \in [pc : {"idle", "closing", "closed"}]
    BY <1>7 DEF Return, At, ConnTypes, Handlers
  <2>2. [conn[c] EXCEPT !.pc = "closed"] \in Handlers
    BY <2>1 DEF Handlers
  <2>3. conn' \in [Conns -> Handlers]
    BY <1>7, <2>2, HandlerMoves DEF Return, Goes
  <2>4. QED
    BY <1>7, <2>3 DEF Return, ConnTypes
<1>8. QED
  BY <1>2, <1>3, <1>4, <1>5, <1>6, <1>7

LEMMA OtherSteps ==
  ASSUME TerminalInv, NEW c \in Conns,
         OutputBegins(c) \/ OutputEnds(c) \/ OutputEOF(c) \/ BrowserMoves(c)
  PROVE  ConnTypes' /\ \A d \in Conns : browser[d] = "gone" => browser'[d] = "gone"
<1> USE DEF TerminalInv, ConnTypes
<1>1. CASE OutputBegins(c)
  BY <1>1 DEF OutputBegins
<1>2. CASE OutputEnds(c)
  BY <1>2 DEF OutputEnds
<1>3. CASE OutputEOF(c)
  BY <1>3 DEF OutputEOF
<1>4. CASE BrowserMoves(c)
  BY <1>4 DEF BrowserMoves
<1>5. QED
  BY <1>1, <1>2, <1>3, <1>4

LEMMA ConnKeeps ==
  ASSUME TerminalInv, NEW c \in Conns,
         \/ Connect(c) \/ Upgrade(c) \/ Dial(c) \/ Reported(c) \/ OutputBegins(c) \/ OutputEnds(c)
         \/ OutputEOF(c) \/ LoopEnds(c) \/ Drained(c) \/ Return(c) \/ BrowserMoves(c)
  PROVE  TerminalInv'
<1>1. ConnTypes' /\ \A d \in Conns : browser[d] = "gone" => browser'[d] = "gone"
  BY HandlerSteps, OtherSteps
<1>2. /\ UNCHANGED pocVars /\ UNCHANGED <<notify, writing, told, active>>
      /\ server' = server \/ server' = "panicked"
  BY DEF Connect, Upgrade, Dial, Reported, OutputBegins, OutputEnds, OutputEOF, LoopEnds, Drained,
         Return, BrowserMoves, MayPanic, downVars
<1>3. QED
  BY <1>1, <1>2, ConnKeepsPoc, ConnKeepsDown DEF TerminalInv

LEMMA DownKeeps ==
  ASSUME TerminalInv,
         \/ Signal \/ Notified \/ Exit
         \/ \E c \in Conns : NotifyBegins(c) \/ NotifyEnds(c)
  PROVE  TerminalInv'
<1> USE DEF TerminalInv
<1>1. UNCHANGED pocVars /\ UNCHANGED connVars
  BY DEF Signal, Notified, Exit, NotifyBegins, NotifyEnds
<1>2. ConnTypes'
  BY <1>1 DEF connVars, ConnTypes
<1>3. DownTypes' /\ NoneForgotten'
  <2>1. CASE Signal
    BY <2>1 DEF Signal, DownTypes, NoneForgotten, ConnTypes
  <2>2. CASE Notified
    BY <1>1, <2>2 DEF Notified, DownTypes, NoneForgotten, connVars
  <2>3. CASE Exit
    BY <1>1, <2>3 DEF Exit, DownTypes, NoneForgotten, connVars
  <2>4. ASSUME NEW c \in Conns, NotifyBegins(c)
        PROVE  DownTypes' /\ NoneForgotten'
    BY <1>1, <2>4 DEF NotifyBegins, MayPanic, DownTypes, NoneForgotten, connVars
  <2>5. ASSUME NEW c \in Conns, NotifyEnds(c)
        PROVE  DownTypes' /\ NoneForgotten'
    BY <1>1, <2>5 DEF NotifyEnds, DownTypes, NoneForgotten, connVars
  <2>6. QED
    BY <2>1, <2>2, <2>3, <2>4, <2>5
<1>4. QED
  BY <1>1, <1>2, <1>3, ConnKeepsPoc

LEMMA NextTerminalInv == TerminalInv /\ [Next]_vars => TerminalInv'
<1> SUFFICES ASSUME TerminalInv, [Next]_vars PROVE TerminalInv'
  OBVIOUS
<1>1. CASE PocNext
  BY <1>1, BootDoneKeeps, StopKeeps, StopVMKeeps, StopDeleteKeeps DEF PocNext
<1>2. CASE \/ Signal \/ Notified \/ Exit
           \/ \E c \in Conns : NotifyBegins(c) \/ NotifyEnds(c)
  BY <1>2, DownKeeps
<1>3. ASSUME NEW c \in Conns,
             \/ Connect(c) \/ Upgrade(c) \/ Dial(c) \/ Reported(c) \/ OutputBegins(c)
             \/ OutputEnds(c) \/ OutputEOF(c) \/ LoopEnds(c) \/ Drained(c) \/ Return(c)
             \/ BrowserMoves(c)
      PROVE  TerminalInv'
  BY <1>3, ConnKeeps
<1>4. CASE UNCHANGED vars
  BY <1>4, PocKeepsRest, ConnKeepsPoc DEF vars, TerminalInv
<1>5. QED
  BY <1>1, <1>2, <1>3, <1>4 DEF Next

\* The inductive invariant holds always.
THEOREM TerminalInvHolds == Spec => []TerminalInv
<1>1. Init => TerminalInv
  BY InitTerminalInv
<1>2. TerminalInv /\ [Next]_vars => TerminalInv'
  BY NextTerminalInv
<1>3. QED
  BY <1>1, <1>2, PTL DEF Spec

\* Both servers keep the types of their state, and notifyReconnect writes to
\* one connection at a time and to none that was not open at the signal.
THEOREM TerminalTypes == Spec => []TypeOK
<1>1. TerminalInv => TypeOK
  <2> SUFFICES ASSUME TerminalInv PROVE TypeOK
    OBVIOUS
  <2>1. writing \subseteq notify /\ Cardinality(writing) <= 1
    <3>1. CASE writing = {}
      BY <3>1, FS_EmptySet
    <3>2. ASSUME NEW c \in notify, writing = {c}
          PROVE  writing \subseteq notify /\ Cardinality(writing) <= 1
      BY <3>2, FS_Singleton
    <3>3. QED
      BY <3>1, <3>2 DEF TerminalInv, DownTypes
  <2>2. \A c \in Conns : conn[c].pc \in {"idle", "upgrading", "dialing", "reporting", "relaying",
                                          "draining", "closing", "closed"}
    BY DEF TerminalInv, ConnTypes, Handlers
  <2>3. QED
    BY <2>1, <2>2 DEF TerminalInv, PocTypes, ConnTypes, DownTypes, TypeOK
<1>2. QED
  BY <1>1, TerminalInvHolds, PTL

\* When the process exits without a panic, every terminal that was open at the
\* signal has been told to reconnect or had its connection closed: however many
\* there are, and whichever of them are in a write or on their way out.
THEOREM AllTerminalsTold == Spec => []TerminalsTold
<1>1. TerminalInv => TerminalsTold
  BY DEF TerminalInv, NoneForgotten, TerminalsTold
<1>2. QED
  BY <1>1, TerminalInvHolds, PTL

\* A dial that reaches the VM of another session has had its row taken back
\* since the look-up, or a write of the store has failed.
THEOREM TerminalsReachOwnVM == Spec => OwnVM
<1> DEFINE Own ==
      \A c \in Conns :
        (conn[c].pc = "dialing" /\ conn'[c].pc = "relaying" /\ conn'[c].vm # conn[c].session)
        => rows[conn[c].session] # <<"ready", conn[c].slot>> \/ faults > 0
<1>1. TerminalInv /\ [Next]_vars => [Own]_vars
  <2> SUFFICES ASSUME TerminalInv, Next, NEW c \in Conns, conn[c].pc = "dialing",
                      conn'[c].pc = "relaying", conn'[c].vm # conn[c].session, faults = 0
               PROVE  rows[conn[c].session] # <<"ready", conn[c].slot>>
    BY DEF TerminalInv, PocTypes
  <2>1. Dial(c)
    <3>1. CASE UNCHANGED conn
      BY <3>1
    <3>2. ASSUME NEW d \in Conns, d # c,
                 Connect(d) \/ Upgrade(d) \/ Dial(d) \/ Reported(d) \/ LoopEnds(d) \/ Drained(d)
                 \/ Return(d)
          PROVE  FALSE
      <4>1. conn'[c] = conn[c]
        BY <3>2 DEF TerminalInv, ConnTypes, Connect, Upgrade, Dial, Reported, LoopEnds, Drained,
                    Return, Goes, Closes
      <4>2. QED
        BY <4>1
    <3>3. CASE Connect(c) \/ Upgrade(c) \/ Reported(c) \/ LoopEnds(c) \/ Drained(c) \/ Return(c)
      BY <3>3 DEF Connect, Upgrade, Reported, LoopEnds, Drained, Return, At
    <3>4. CASE \/ PocNext \/ Signal \/ Notified \/ Exit
               \/ \E d \in Conns : OutputBegins(d) \/ OutputEnds(d) \/ OutputEOF(d)
                                   \/ BrowserMoves(d) \/ NotifyBegins(d) \/ NotifyEnds(d)
      BY <3>1, <3>4 DEF PocNext, BootDone, Stop, StopVM, StopDelete, Signal, Notified, Exit,
           OutputBegins, OutputEnds, OutputEOF, BrowserMoves, NotifyBegins, NotifyEnds, connVars
    <3>5. QED
      BY <3>2, <3>3, <3>4 DEF Next
  <2>2. conn[c] \in [pc : {"upgrading", "dialing", "reporting"}, session : Sessions, slot : Slots]
    BY DEF TerminalInv, ConnTypes, Handlers
  <2>3. conn'[c].vm = vm[conn[c].slot]
    BY <2>1, <2>2 DEF Dial, Goes, Closes, TerminalInv, ConnTypes
  <2>4. QED
    BY <2>2, <2>3 DEF TerminalInv, ReadyRowIsTrue
<1>2. QED
  BY <1>1, TerminalInvHolds, PTL DEF Spec, OwnVM
====
