---- MODULE MCTerminalServer ----
(* An instance of TerminalServer for TLC: a page for each of two sessions,   *)
(* which take the slot one after the other.                                 *)
EXTENDS TerminalServer

CONSTANTS s1, s2, c1

OwnPages == [c \in Conns |-> IF c = c1 THEN s1 ELSE s2]
====
