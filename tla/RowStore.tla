---- MODULE RowStore ----
(***************************************************************************)
(* What sessionstore.Store promises its callers, as the PostgreSQL store   *)
(* keeps it: one row per key (a session or a favourite), every operation a *)
(* single SQL statement that PostgreSQL runs atomically.  JSONStore is     *)
(* shown to implement this module.                                         *)
(*                                                                         *)
(* A statement that returns an error may still take effect, later and      *)
(* unannounced: until the key is written again its row is "in doubt".      *)
(***************************************************************************)
EXTENDS Naturals

CONSTANTS
  Keys,   \* ids of sessions and of favourites
  Rows,   \* what a row may hold
  NoRow   \* the key has no row

VARIABLES
  rows,     \* the tables rubbish.sessions and rubbish.favorites
  running,  \* statements submitted and not yet answered, as <<key, row>>
  doubt,    \* statements answered with an error that may yet take effect
  tried,    \* every statement ever submitted
  faults,   \* queries that could not reach the data
  answer    \* what the last query returned

vars == <<rows, running, doubt, tried, faults, answer>>

Value == Rows \cup {NoRow}

\* The tables as a process finds them after Open and its migrations.
Init ==
  /\ rows \in [Keys -> Value]
  /\ running = {}
  /\ doubt = {}
  /\ tried = {<<k, rows[k]>> : k \in Keys}
  /\ faults = 0
  /\ answer = [k \in {} |-> NoRow]

\* Upsert and UpsertFavorite submit a row, Delete and DeleteFavorite submit
\* NoRow.
Submit(k, v) ==
  /\ running' = running \cup {<<k, v>>}
  /\ tried' = tried \cup {<<k, v>>}
  /\ doubt' \subseteq doubt
  /\ UNCHANGED <<rows, faults, answer>>

\* The statement succeeds: its row is stored, and rows in doubt may surface
\* with it.  There is no doubt about this key any more.
Write(k, v) ==
  /\ <<k, v>> \in running
  /\ running' = running \ {<<k, v>>}
  /\ rows' \in [Keys -> Value]
  /\ rows'[k] = v
  /\ \A j \in Keys \ {k} : rows'[j] = rows[j] \/ <<j, rows'[j]>> \in doubt
  /\ doubt' \subseteq {d \in doubt : d[1] # k}
  /\ UNCHANGED <<tried, faults, answer>>

\* The statement returns an error; the caller cannot tell what became of it.
WriteFails(k, v) ==
  /\ <<k, v>> \in running
  /\ running' = running \ {<<k, v>>}
  /\ doubt' \subseteq doubt \cup {<<k, v>>}
  /\ UNCHANGED <<rows, tried, faults, answer>>

\* A statement whose caller got an error is committed after all.
Surface(k, v) ==
  /\ <<k, v>> \in doubt
  /\ rows' = [rows EXCEPT ![k] = v]
  /\ doubt' \subseteq doubt \ {<<k, v>>}
  /\ UNCHANGED <<running, tried, faults, answer>>

\* Get, List and ListFavorites: the current rows of the keys asked for.  A row
\* in doubt may be shown as if it had been stored.
Read(K) ==
  /\ answer' \in [K -> Value]
  /\ \A k \in K : answer'[k] = rows[k] \/ <<k, answer'[k]>> \in doubt
  /\ doubt' \subseteq doubt
  /\ UNCHANGED <<rows, running, tried, faults>>

\* A query that cannot reach the data.  PostgreSQL returns an error; the JSON
\* store answers without one from what it last knew, so all that is promised
\* is that nobody is shown a row that was never submitted.
BlindRead(K) ==
  /\ answer' \in [K -> Value]
  /\ \A k \in K : <<k, answer'[k]>> \in tried
  /\ faults' = faults + 1
  /\ UNCHANGED <<rows, running, doubt, tried>>

\* The writing process ends with statements under way.
Restart ==
  /\ running' = {}
  /\ doubt' \subseteq doubt \cup running
  /\ UNCHANGED <<rows, tried, faults, answer>>

Next ==
  \/ \E k \in Keys, v \in Value :
       Submit(k, v) \/ Write(k, v) \/ WriteFails(k, v) \/ Surface(k, v)
  \/ \E K \in SUBSET Keys : Read(K) \/ BlindRead(K)
  \/ Restart

Spec == Init /\ [][Next]_vars
====
