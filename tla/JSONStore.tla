---- MODULE JSONStore ----
(***************************************************************************)
(* internal/sessionstore/jsonstore.go: sessions and favourites in one JSON *)
(* file.  Two processes have it open: the poc server, the only writer, and *)
(* the terminal server, which only calls Get.  Each keeps a copy of the    *)
(* file in memory under a mutex; the file itself is shared and is replaced *)
(* as a whole by a rename.                                                 *)
(***************************************************************************)
EXTENDS Naturals

CONSTANTS
  Keys, Rows, NoRow,
  Favorites,      \* the keys that are ids of favourites, not of sessions
  MaxSaveFaults,  \* bound: saves that fail
  MaxReadFaults,  \* bound: reads of the file that fail
  MaxReopens      \* bound: ends of the poc process

ASSUME StoreAssumption ==
  /\ NoRow \notin Rows
  /\ Favorites \subseteq Keys
  /\ MaxSaveFaults \in Nat /\ MaxReadFaults \in Nat /\ MaxReopens \in Nat

VARIABLES
  file,      \* contents of the file; no rows while it is not readable
  readable,  \* the file is there and holds JSON
  mem,       \* JSONStore.data of each process
  saving,    \* the write the poc process is in, as {<<key, row>>}, or {}
  tried,     \* history: every write ever begun
  answer,    \* what the last Get, List or ListFavorites returned
  acked,     \* history: {the row of a key}, if its last write returned nil
  saveFaults, readFaults, reopens

storeVars == <<file, readable, mem, saving, tried, answer, acked,
               saveFaults, readFaults, reopens>>

Procs == {"poc", "terminal"}
SessionKeys == Keys \ Favorites
Value == Rows \cup {NoRow}

\* Open: the copy in memory is what the file holds.  A file that is absent,
\* or holds something else than JSON, counts as an empty store.
StoreInit ==
  /\ readable \in BOOLEAN
  /\ file \in [Keys -> Value]
  /\ ~readable => file = [k \in Keys |-> NoRow]
  /\ mem = [p \in Procs |-> file]
  /\ saving = {}
  /\ tried = {<<k, file[k]>> : k \in Keys}
  /\ answer = [k \in {} |-> NoRow]
  /\ acked = [k \in Keys |-> {file[k]}]
  /\ saveFaults = 0 /\ readFaults = 0 /\ reopens = 0

\* Upsert, UpsertFavorite (v a row), Delete and DeleteFavorite (v = NoRow) up
\* to the call of save: the mutex is taken, the map in memory changed.
Begin(k, v) ==
  /\ saving = {}
  /\ mem' = [mem EXCEPT !["poc"] = [@ EXCEPT ![k] = v]]
  /\ saving' = {<<k, v>>}
  /\ tried' = tried \cup {<<k, v>>}
  /\ acked' = [acked EXCEPT ![k] = {}]
  /\ UNCHANGED <<file, readable, answer, saveFaults, readFaults, reopens>>

\* Every write of a session's row: persistSession, loadFromDB and Stop.
WriteSession(k, v) == k \in SessionKeys /\ Begin(k, v)

\* POST /api/favorites: the id is a new uuid.
PostFavorite(k, v) ==
  /\ k \in Favorites /\ v \in Rows
  /\ \A w \in Rows : <<k, w>> \notin tried
  /\ Begin(k, v)

\* POST /api/sessions/{id}/favorite: a new favourite with the repository and
\* branch of a session, which are all that a row says here.
FavoriteSession(s, k) == s \in SessionKeys /\ PostFavorite(k, mem["poc"][s])

\* DELETE /api/favorites/{id}, whether or not there is such a favourite.
DeleteFavorite(k) == k \in Favorites /\ Begin(k, NoRow)

\* save renames the temporary file over the store: the whole of the map is
\* what the file holds now.
SaveDone(k, v) ==
  /\ saving = {<<k, v>>}
  /\ file' = mem["poc"]
  /\ readable' = TRUE
  /\ saving' = {}
  /\ acked' = [acked EXCEPT ![k] = {v}]
  /\ UNCHANGED <<mem, tried, answer, saveFaults, readFaults, reopens>>

\* save fails at the temporary file or at the rename: the file is as it was,
\* the map keeps the change and the caller gets an error.
SaveFails(k, v) ==
  /\ saveFaults < MaxSaveFaults
  /\ saving = {<<k, v>>}
  /\ saving' = {}
  /\ saveFaults' = saveFaults + 1
  /\ UNCHANGED <<file, readable, mem, tried, answer, acked, readFaults, reopens>>

\* Mutant: what is in memory is taken to be current.
reloadNothing(p) == mem' = mem

\* reload: the map becomes what the file holds, unless it cannot be read.
reload(p) == mem' = IF readable THEN [mem EXCEPT ![p] = file] ELSE mem

\* Get (K a session), List (K the sessions) and ListFavorites (K the
\* favourites) of process p.
Read(p, K) ==
  /\ p = "poc" => saving = {}
  /\ reload(p)
  /\ answer' = [k \in K |-> mem'[p][k]]
  /\ UNCHANGED <<file, readable, saving, tried, acked, saveFaults, readFaults, reopens>>

\* The same call when reading the file fails: reload returns silently and the
\* call answers from the map.
BlindRead(p, K) ==
  /\ readFaults < MaxReadFaults
  /\ p = "poc" => saving = {}
  /\ answer' = [k \in K |-> mem[p][k]]
  /\ readFaults' = readFaults + 1
  /\ UNCHANGED <<file, readable, mem, saving, tried, acked, saveFaults, reopens>>

\* GET /api/favorites.
GetFavorites == Read("poc", Favorites) \/ BlindRead("poc", Favorites)

\* WaitForSession, the MCP tools and the terminal server ask for one session,
\* loadFromDB and list_sessions for all of them.
Queries(p) == {{k} : k \in SessionKeys} \cup (IF p = "poc" THEN {SessionKeys} ELSE {})

\* Mutant: the store starts empty although the file is there.
ReopenEmpty ==
  /\ reopens < MaxReopens
  /\ mem' = [mem EXCEPT !["poc"] = [k \in Keys |-> NoRow]]
  /\ saving' = {}
  /\ reopens' = reopens + 1
  /\ UNCHANGED <<file, readable, tried, answer, acked, saveFaults, readFaults>>

\* The poc process ends, in the middle of a save or not, and opens the store
\* again.
Reopen ==
  /\ reopens < MaxReopens
  /\ mem' = [mem EXCEPT !["poc"] = file]
  /\ saving' = {}
  /\ reopens' = reopens + 1
  /\ UNCHANGED <<file, readable, tried, answer, acked, saveFaults, readFaults>>

StoreNext ==
  \/ \E k \in Keys, v \in Value :
       WriteSession(k, v) \/ PostFavorite(k, v) \/ SaveDone(k, v) \/ SaveFails(k, v)
  \/ \E k \in Keys : DeleteFavorite(k) \/ \E s \in Keys : FavoriteSession(s, k)
  \/ \E p \in Procs : \E K \in Queries(p) : Read(p, K) \/ BlindRead(p, K)
  \/ GetFavorites
  \/ Reopen

StoreSpec == StoreInit /\ [][StoreNext]_storeVars

------------------------------------------------------------------------------
Answers == UNION {[K -> Value] : K \in SUBSET Keys}

\* Types of the file, the copies of it in memory and the write under way.
StoreTypeOK ==
  /\ readable \in BOOLEAN
  /\ file \in [Keys -> Value]
  /\ mem \in [Procs -> [Keys -> Value]]
  /\ saving \in SUBSET (Keys \X Value)
  /\ tried \in SUBSET (Keys \X Value)
  /\ answer \in Answers
  /\ acked \in [Keys -> SUBSET Value]
  /\ saveFaults \in 0..MaxSaveFaults
  /\ readFaults \in 0..MaxReadFaults
  /\ reopens \in 0..MaxReopens

\* A write that Upsert or Delete has acknowledged stays in the file until the
\* same key is written again: no failed save, reload, re-opening or write of
\* another key takes it back.
AckedIsStored == \A k \in Keys : acked[k] \subseteq {file[k]}

\* The rows that a failed save has left in memory only.
InDoubt == {<<k, mem["poc"][k]>> : k \in {j \in Keys : mem["poc"][j] # file[j]}} \ saving

Promise == INSTANCE RowStore WITH rows <- file, running <- saving, doubt <- InDoubt, faults <- readFaults

\* The file and the copy of it in memory together behave as the table of
\* RowStore: a write takes effect at its rename or not at all, and a read that
\* reaches the file sees the current rows in both processes.
StorePromise == Promise!Spec
====
