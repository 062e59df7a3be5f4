---- MODULE Profile ----
(***************************************************************************)
(* The tokens the poc server keeps on disk: the profile (internal/profile  *)
(* and the PUT handler of /api/profile) and the file of the last GitHub    *)
(* token that came with a request.                                         *)
(*                                                                         *)
(* Each Load and each Save of the profile is atomic, under the mutex of    *)
(* the store and by a rename; the handler's Load, merge, Save is not.      *)
(***************************************************************************)
CONSTANTS
  Tokens,  \* of Claude and of GitHub; "" stands for none
  Puts,    \* calls of PUT /api/profile
  Body     \* the tokens each of them sends, "" for a field that is left out

Fields == {"claude", "github"}
NoTokens == [f \in Fields |-> ""]

ASSUME BodyAssumption == "" \in Tokens /\ Body \in [Puts -> [Fields -> Tokens]]

VARIABLES
  profile,  \* the file profile.json
  cred,     \* the file github-token
  put,      \* each PUT: "idle", "loaded" or "over"
  merged,   \* the Profile it is about to save
  last,     \* history: the last token that a successful PUT sent, per field
  overlap   \* history: a PUT loaded while another had yet to save, or its
            \* Load failed

profVars == <<profile, cred, put, merged, last, overlap>>

ProfileInit ==
  /\ profile = NoTokens
  /\ cred = ""
  /\ put = [h \in Puts |-> "idle"]
  /\ merged = [h \in Puts |-> NoTokens]
  /\ last = NoTokens
  /\ overlap = FALSE

\* Mutant: the body is saved as it came.
MergeNothing(old, new) == new

Merge(old, new) == [f \in Fields |-> IF new[f] # "" THEN new[f] ELSE old[f]]

\* Load and merge.  The error of Load is dropped: what was not loaded counts
\* as empty.
PutLoad(h) ==
  /\ put[h] = "idle"
  /\ put' = [put EXCEPT ![h] = "loaded"]
  /\ \E existing \in {profile, NoTokens} :
       /\ merged' = [merged EXCEPT ![h] = Merge(existing, Body[h])]
       /\ overlap' = (overlap \/ existing # profile \/ \E i \in Puts : put[i] = "loaded")
  /\ UNCHANGED <<profile, cred, last>>

\* Save writes a temporary file and renames it, or fails.
PutSave(h) ==
  /\ put[h] = "loaded"
  /\ put' = [put EXCEPT ![h] = "over"]
  /\ \/ /\ profile' = merged[h]
        /\ last' = [f \in Fields |-> IF Body[h][f] = "" THEN last[f] ELSE Body[h][f]]
     \/ UNCHANGED <<profile, last>>
  /\ UNCHANGED <<cred, merged, overlap>>

\* The handlers end with the process.
PutsCrash ==
  /\ put' = [h \in Puts |-> IF put[h] = "loaded" THEN "over" ELSE put[h]]
  /\ UNCHANGED <<profile, merged, last, overlap>>

\* boot: the token of the request, else the profile's, else the saved one.
\* A profile that cannot be loaded is passed over.
Resolved(req) ==
  IF req # "" THEN {req}
  ELSE {IF profile["github"] # "" THEN profile["github"] ELSE cred, cred}

\* A token that a PUT has stored is in the profile until another PUT replaces
\* it: a PUT that leaves a field out does not wipe it, as long as the PUTs come
\* one after the other and each can read the profile.
TokensKept == ~overlap => \A f \in Fields : profile[f] = last[f]
====
