---- MODULE SessionState ----
(***************************************************************************)
(* The lifecycle of a session: internal/session/statemachine.go.           *)
(***************************************************************************)

\* The eight states of the constant block.
States == {"provisioning", "booting", "waiting_ssh", "configuring",
           "ready", "stopping", "stopped", "failed"}

\* Mutant: a session can be stopped while it boots.
StoppableWhileBooting(from) ==
  CASE from = "provisioning" -> {"booting", "failed"}
    [] from = "booting"      -> {"waiting_ssh", "failed", "stopping"}
    [] from = "waiting_ssh"  -> {"configuring", "failed", "stopping"}
    [] from = "configuring"  -> {"ready", "failed"}
    [] from = "ready"        -> {"stopping"}
    [] from = "stopping"     -> {"stopped"}
    [] OTHER                 -> {}

\* The legal targets of each state. "stopped" and "failed" are terminal; a
\* ready session can only be stopped, never failed.
validTransitions(from) ==
  CASE from = "provisioning" -> {"booting", "failed"}
    [] from = "booting"      -> {"waiting_ssh", "failed"}
    [] from = "waiting_ssh"  -> {"configuring", "failed"}
    [] from = "configuring"  -> {"ready", "failed"}
    [] from = "ready"        -> {"stopping"}
    [] from = "stopping"     -> {"stopped"}
    [] OTHER                 -> {}

\* The test at the head of StateMachine.Transition.
CanTransition(from, to) == to \in validTransitions(from)

====
