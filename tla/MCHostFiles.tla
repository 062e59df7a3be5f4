---- MODULE MCHostFiles ----
(***************************************************************************)
(* What the poc server keeps on the disk of the host, for TLC: the session *)
(* store (JSONStore), the tokens and repositories (Profile, RepoCache) and *)
(* the snapshots (SnapshotManager).  The three have no variable in common, *)
(* so that each is explored with the others at rest: part says which of    *)
(* them moves.                                                             *)
(***************************************************************************)
EXTENDS JSONStore, RepoCache, SnapshotManager

CONSTANTS h1, h2

VARIABLE part

\* Two PUTs, each with the token that the other leaves out.
Bodies ==
  [h \in Puts |-> IF h = h1 THEN [claude |-> "c1", github |-> ""]
                            ELSE [claude |-> "", github |-> "g2"]]

\* Repositories of one name, of two owners.
OneName == [u \in URLs |-> "a"]

\* The session of a caller that is idle says nothing: one choice will do.
MCInit ==
  /\ part \in {"store", "cache", "snapshots"}
  /\ StoreInit /\ (part # "store" => readable /\ \A k \in Keys : file[k] = NoRow)
  /\ ProfileInit /\ CacheInit
  /\ SnapInit /\ sid = [c \in Callers |-> CHOOSE s \in Owners : TRUE]

MCNext ==
  /\ \/ part = "store" /\ StoreNext /\ UNCHANGED <<vars, snapVars>>
     \/ part = "cache" /\ CacheNext /\ UNCHANGED <<storeVars, snapVars>>
     \/ part = "snapshots" /\ SnapNext /\ UNCHANGED <<storeVars, vars>>
  /\ UNCHANGED part

MCSpec == MCInit /\ [][MCNext]_<<vars, storeVars, snapVars, part>> /\ CacheFairness

\* The variables of JSONStore, Profile, RepoCache and SnapshotManager have
\* their types; a mutex of the repository cache is held by one boot at most.
MCTypeOK == TypeOK /\ StoreTypeOK /\ SnapTypeOK
====
