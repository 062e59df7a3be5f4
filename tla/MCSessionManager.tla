---- MODULE MCSessionManager ----
(* SessionManager for TLC; every instance is given by its .cfg. *)
EXTENDS SessionManager
====
