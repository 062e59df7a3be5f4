---- MODULE HostFilesProofs ----
(***************************************************************************)
(* Proofs about the files of the host, for every set of keys, rows, PUTs,  *)
(* sessions and repositories and every number of faults and crashes.       *)
(*                                                                         *)
(* JSONStore: its types, that an acknowledged write stays, and that the    *)
(* file with the copy in memory implements the table of RowStore.          *)
(* Profile and RepoCache: mutual exclusion of the cache's mutexes, that no *)
(* stored token is lost, and that no workspace comes from a half-made      *)
(* clone.  The last section takes all of it with SnapshotManager, as       *)
(* MCHostFiles does.                                                       *)
(***************************************************************************)
EXTENDS MCHostFiles, SnapshotManagerProofs, TLAPS

\* The poc process is in one write at a time, and memory has it already.
SavingIsInMemory ==
  \A k \in Keys, v \in Value : <<k, v>> \in saving => saving = {<<k, v>>} /\ mem["poc"][k] = v

\* Nothing is kept that was never written.
KeptWasTried ==
  \A k \in Keys : <<k, file[k]>> \in tried /\ \A p \in Procs : <<k, mem[p][k]>> \in tried

\* Memory is behind no acknowledged write: without this the next save would
\* take the write back.
AckedIsInMemory == \A k \in Keys : acked[k] \subseteq {mem["poc"][k]}

\* As long as there is no file to read the terminal server knows of no row.
UnreadIsEmpty == ~readable => mem["terminal"] = file

\* The inductive invariant.
StoreInv ==
  /\ StoreTypeOK /\ SavingIsInMemory /\ KeptWasTried
  /\ AckedIsInMemory /\ AckedIsStored /\ UnreadIsEmpty

LEMMA AnswerType ==
  ASSUME NEW K \in SUBSET Keys, NEW f \in [K -> Value]
  PROVE  f \in Answers
BY DEF Answers

LEMMA InitStoreInv == StoreInit => StoreInv
<1> SUFFICES ASSUME StoreInit PROVE StoreInv
  OBVIOUS
<1>1. /\ file \in [Keys -> Value] /\ mem = [p \in Procs |-> file] /\ saving = {}
      /\ tried = {<<k, file[k]>> : k \in Keys} /\ acked = [k \in Keys |-> {file[k]}]
  BY DEF StoreInit
<1>2. StoreTypeOK
  <2>1. answer \in Answers
    <3>1. answer \in [{} -> Value]
      BY DEF StoreInit
    <3>2. QED
      BY <3>1, AnswerType
  <2>2. QED
    BY <1>1, <2>1, StoreAssumption DEF StoreTypeOK, StoreInit
<1>3. SavingIsInMemory /\ KeptWasTried /\ AckedIsInMemory /\ AckedIsStored /\ UnreadIsEmpty
  BY <1>1 DEF SavingIsInMemory, KeptWasTried, AckedIsInMemory, AckedIsStored, UnreadIsEmpty, Procs
<1>4. QED
  BY <1>2, <1>3 DEF StoreInv

LEMMA BeginKeeps ==
  ASSUME StoreInv, NEW k \in Keys, NEW v \in Value, Begin(k, v)
  PROVE  StoreInv'
<1> USE DEF StoreInv, Begin
<1>1. mem' = [p \in Procs |-> IF p = "poc" THEN [mem["poc"] EXCEPT ![k] = v] ELSE mem[p]]
  BY DEF StoreTypeOK, Procs
<1>2. StoreTypeOK'
  BY <1>1 DEF StoreTypeOK, Procs
<1>3. SavingIsInMemory'
  BY <1>1 DEF SavingIsInMemory, StoreTypeOK, Procs
<1>4. KeptWasTried'
  BY <1>1 DEF KeptWasTried, StoreTypeOK, Procs
<1>5. AckedIsInMemory' /\ AckedIsStored' /\ UnreadIsEmpty'
  BY <1>1 DEF AckedIsInMemory, AckedIsStored, UnreadIsEmpty, StoreTypeOK, Procs
<1>6. QED
  BY <1>2, <1>3, <1>4, <1>5

LEMMA SaveDoneKeeps ==
  ASSUME StoreInv, NEW k \in Keys, NEW v \in Value, SaveDone(k, v)
  PROVE  StoreInv'
<1> USE DEF StoreInv, SaveDone
<1>1. mem["poc"][k] = v /\ mem["poc"] \in [Keys -> Value]
  BY DEF SavingIsInMemory, StoreTypeOK, Procs
<1>2. StoreTypeOK'
  BY <1>1 DEF StoreTypeOK
<1>3. SavingIsInMemory' /\ KeptWasTried'
  BY DEF SavingIsInMemory, KeptWasTried, Procs
<1>4. AckedIsInMemory' /\ AckedIsStored' /\ UnreadIsEmpty'
  BY <1>1 DEF AckedIsInMemory, AckedIsStored, UnreadIsEmpty, StoreTypeOK
<1>5. QED
  BY <1>2, <1>3, <1>4

LEMMA SaveFailsKeeps ==
  ASSUME StoreInv, NEW k \in Keys, NEW v \in Value, SaveFails(k, v)
  PROVE  StoreInv'
<1> USE DEF StoreInv, SaveFails
<1>1. StoreTypeOK'
  BY StoreAssumption DEF StoreTypeOK
<1>2. SavingIsInMemory' /\ KeptWasTried' /\ AckedIsInMemory' /\ AckedIsStored' /\ UnreadIsEmpty'
  BY DEF SavingIsInMemory, KeptWasTried, AckedIsInMemory, AckedIsStored, UnreadIsEmpty
<1>3. QED
  BY <1>1, <1>2

LEMMA ReadKeeps ==
  ASSUME StoreInv, NEW p \in Procs, NEW K \in SUBSET Keys, Read(p, K)
  PROVE  StoreInv'
<1> USE DEF StoreInv, Read
<1>1. mem' = mem \/ mem' = [mem EXCEPT ![p] = file]
  BY DEF reload
<1>2. mem' \in [Procs -> [Keys -> Value]]
  BY <1>1 DEF StoreTypeOK
<1>3. \A q \in Procs : mem'[q] = mem[q] \/ mem'[q] = file
  BY <1>1 DEF StoreTypeOK
<1>4. answer' \in [K -> Value]
  BY <1>2
<1>5. StoreTypeOK'
  BY <1>2, <1>4, AnswerType DEF StoreTypeOK
<1>6. SavingIsInMemory'
  <2>1. CASE p = "poc"
    BY <2>1 DEF SavingIsInMemory
  <2>2. CASE p = "terminal"
    BY <2>2, <1>1 DEF SavingIsInMemory, StoreTypeOK, Procs
  <2>3. QED
    BY <2>1, <2>2 DEF Procs
<1>7. KeptWasTried'
  BY <1>3 DEF KeptWasTried
<1>8. AckedIsInMemory' /\ AckedIsStored' /\ UnreadIsEmpty'
  BY <1>3 DEF AckedIsInMemory, AckedIsStored, UnreadIsEmpty, Procs
<1>9. QED
  BY <1>5, <1>6, <1>7, <1>8

LEMMA BlindReadKeeps ==
  ASSUME StoreInv, NEW p \in Procs, NEW K \in SUBSET Keys, BlindRead(p, K)
  PROVE  StoreInv'
<1> USE DEF StoreInv, BlindRead
<1>1. answer' \in Answers
  <2>1. answer' \in [K -> Value]
    BY DEF StoreTypeOK
  <2>2. QED
    BY <2>1, AnswerType
<1>2. StoreTypeOK'
  <2>1. readFaults' \in 0..MaxReadFaults
    BY StoreAssumption DEF StoreTypeOK
  <2>2. QED
    BY <1>1, <2>1 DEF StoreTypeOK
<1>3. SavingIsInMemory' /\ KeptWasTried' /\ AckedIsInMemory' /\ AckedIsStored' /\ UnreadIsEmpty'
  BY DEF SavingIsInMemory, KeptWasTried, AckedIsInMemory, AckedIsStored, UnreadIsEmpty
<1>4. QED
  BY <1>2, <1>3

LEMMA ReopenKeeps ==
  ASSUME StoreInv, Reopen
  PROVE  StoreInv'
<1> USE DEF StoreInv, Reopen
<1>1. StoreTypeOK'
  <2>1. reopens' \in 0..MaxReopens
    BY StoreAssumption DEF StoreTypeOK
  <2>2. mem' \in [Procs -> [Keys -> Value]] /\ saving' \in SUBSET (Keys \X Value)
    BY DEF StoreTypeOK
  <2>3. QED
    BY <2>1, <2>2 DEF StoreTypeOK
<1>2. \A q \in Procs : mem'[q] = mem[q] \/ mem'[q] = file
  BY DEF StoreTypeOK
<1>3. mem'["poc"] = file
  BY DEF StoreTypeOK, Procs
<1>4. SavingIsInMemory' /\ KeptWasTried'
  BY <1>2 DEF SavingIsInMemory, KeptWasTried
<1>5. AckedIsInMemory' /\ AckedIsStored' /\ UnreadIsEmpty'
  BY <1>2, <1>3 DEF AckedIsInMemory, AckedIsStored, UnreadIsEmpty, Procs
<1>6. QED
  BY <1>1, <1>4, <1>5

\* Every handler that writes is a Begin, every handler that reads a Read or a
\* BlindRead of some keys.
LEMMA HandlerCases ==
  ASSUME StoreInv, StoreNext
  PROVE  \/ \E k \in Keys, v \in Value : Begin(k, v) \/ SaveDone(k, v) \/ SaveFails(k, v)
         \/ \E p \in Procs, K \in SUBSET Keys : Read(p, K) \/ BlindRead(p, K)
         \/ Reopen
<1>1. ASSUME NEW k \in Keys, NEW v \in Value,
             WriteSession(k, v) \/ PostFavorite(k, v) \/ SaveDone(k, v) \/ SaveFails(k, v)
      PROVE  Begin(k, v) \/ SaveDone(k, v) \/ SaveFails(k, v)
  BY <1>1 DEF WriteSession, PostFavorite
<1>2. ASSUME NEW k \in Keys, DeleteFavorite(k) \/ \E s \in Keys : FavoriteSession(s, k)
      PROVE  \E v \in Value : Begin(k, v)
  <2>1. CASE DeleteFavorite(k)
    BY <2>1 DEF DeleteFavorite, Value
  <2>2. ASSUME NEW s \in Keys, FavoriteSession(s, k) PROVE \E v \in Value : Begin(k, v)
    BY <2>2 DEF FavoriteSession, PostFavorite, Value
  <2>3. QED
    BY <1>2, <2>1, <2>2
<1>3. ASSUME NEW p \in Procs, NEW K \in Queries(p) PROVE K \in SUBSET Keys
  BY <1>3 DEF Queries, SessionKeys
<1>4. CASE GetFavorites
  BY <1>4, StoreAssumption DEF GetFavorites, Procs
<1>5. QED
  BY <1>1, <1>2, <1>3, <1>4 DEF StoreNext

LEMMA NextStoreInv == StoreInv /\ [StoreNext]_storeVars => StoreInv'
<1> SUFFICES ASSUME StoreInv, [StoreNext]_storeVars PROVE StoreInv'
  OBVIOUS
<1>1. CASE \E k \in Keys, v \in Value : Begin(k, v) \/ SaveDone(k, v) \/ SaveFails(k, v)
  BY <1>1, BeginKeeps, SaveDoneKeeps, SaveFailsKeeps
<1>2. CASE \E p \in Procs, K \in SUBSET Keys : Read(p, K) \/ BlindRead(p, K)
  BY <1>2, ReadKeeps, BlindReadKeeps
<1>3. CASE Reopen
  BY <1>3, ReopenKeeps
<1>4. CASE UNCHANGED storeVars
  BY <1>4 DEF storeVars, StoreInv, StoreTypeOK, SavingIsInMemory, KeptWasTried,
              AckedIsInMemory, AckedIsStored, UnreadIsEmpty
<1>5. QED
  BY <1>1, <1>2, <1>3, <1>4, HandlerCases

\* The inductive invariant holds throughout.
THEOREM StoreInvariant == StoreSpec => []StoreInv
<1>1. QED
  BY InitStoreInv, NextStoreInv, PTL DEF StoreSpec

\* JSONStore: whatever fails and whenever the process ends, a write that was
\* acknowledged is in the file until its key is written again.
THEOREM AckedStays == StoreSpec => [](StoreTypeOK /\ AckedIsStored)
<1>1. StoreInv => StoreTypeOK /\ AckedIsStored
  BY DEF StoreInv
<1>2. QED
  BY StoreInvariant, <1>1, PTL

------------------------------------------------------------------------------
\* The refinement.

LEMMA InDoubtMember ==
  \A d : d \in InDoubt <=>
    \E k \in Keys : d = <<k, mem["poc"][k]>> /\ mem["poc"][k] # file[k] /\ d \notin saving
BY DEF InDoubt

LEMMA InDoubtMemberNext ==
  \A d : d \in InDoubt' <=>
    \E k \in Keys : d = <<k, mem'["poc"][k]>> /\ mem'["poc"][k] # file'[k] /\ d \notin saving'
BY DEF InDoubt

LEMMA InitRefines == StoreInit => Promise!Init
<1> SUFFICES ASSUME StoreInit PROVE Promise!Init
  OBVIOUS
<1>1. InDoubt = {}
  BY InDoubtMember DEF StoreInit, Procs
<1>2. QED
  BY <1>1 DEF StoreInit, Promise!Init, Promise!Value, Value

LEMMA BeginRefines ==
  ASSUME StoreInv, NEW k \in Keys, NEW v \in Value, Begin(k, v)
  PROVE  Promise!Submit(k, v)
<1>1. /\ \A j \in Keys : j # k => mem'["poc"][j] = mem["poc"][j]
      /\ mem'["poc"][k] = v
  BY DEF Begin, StoreInv, StoreTypeOK, Procs
<1>2. InDoubt' \subseteq InDoubt
  <2> SUFFICES ASSUME NEW d \in InDoubt' PROVE d \in InDoubt
    OBVIOUS
  <2>1. PICK j \in Keys : d = <<j, mem'["poc"][j]>> /\ mem'["poc"][j] # file'[j] /\ d \notin saving'
    BY InDoubtMemberNext
  <2>2. j # k
    BY <2>1, <1>1 DEF Begin
  <2>3. d = <<j, mem["poc"][j]>> /\ mem["poc"][j] # file[j] /\ d \notin saving
    BY <2>1, <2>2, <1>1 DEF Begin
  <2>4. QED
    BY <2>3, InDoubtMember
<1>3. saving' = saving \cup {<<k, v>>}
  BY DEF Begin
<1>4. QED
  BY <1>2, <1>3 DEF Begin, Promise!Submit

LEMMA SaveDoneRefines ==
  ASSUME StoreInv, NEW k \in Keys, NEW v \in Value, SaveDone(k, v)
  PROVE  Promise!Write(k, v)
<1>1. mem["poc"][k] = v /\ mem["poc"] \in [Keys -> Value]
  BY DEF SaveDone, StoreInv, SavingIsInMemory, StoreTypeOK, Procs
<1>2. InDoubt' = {}
  BY InDoubtMemberNext DEF SaveDone
<1>3. \A j \in Keys \ {k} : file'[j] = file[j] \/ <<j, file'[j]>> \in InDoubt
  BY InDoubtMember DEF SaveDone
<1>4. QED
  BY <1>1, <1>2, <1>3 DEF SaveDone, Promise!Write, Promise!Value, Value

LEMMA SaveFailsRefines ==
  ASSUME StoreInv, NEW k \in Keys, NEW v \in Value, SaveFails(k, v)
  PROVE  Promise!WriteFails(k, v)
<1>1. InDoubt' \subseteq InDoubt \cup {<<k, v>>}
  BY InDoubtMember, InDoubtMemberNext DEF SaveFails
<1>2. QED
  BY <1>1 DEF SaveFails, Promise!WriteFails

LEMMA ReadRefines ==
  ASSUME StoreInv, NEW p \in Procs, NEW K \in SUBSET Keys, Read(p, K)
  PROVE  Promise!Read(K)
<1>1. mem \in [Procs -> [Keys -> Value]] /\ file \in [Keys -> Value]
  BY DEF StoreInv, StoreTypeOK
<1>2. CASE readable
  <2>1. mem' = [mem EXCEPT ![p] = file]
    BY <1>2 DEF Read, reload
  <2>2. answer' = [k \in K |-> file[k]]
    BY <2>1, <1>1 DEF Read
  <2>3. mem'["poc"] = mem["poc"] \/ mem'["poc"] = file
    BY <2>1, <1>1 DEF Procs
  <2>4. InDoubt' \subseteq InDoubt
    BY <2>3, InDoubtMember, InDoubtMemberNext DEF Read
  <2>5. answer' \in [K -> Value] /\ \A k \in K : answer'[k] = file[k]
    BY <2>2, <1>1
  <2>6. QED
    BY <2>4, <2>5 DEF Read, Promise!Read, Promise!Value, Value
<1>3. CASE ~readable
  <2>1. mem' = mem
    BY <1>3 DEF Read, reload
  <2>2. answer' = [k \in K |-> mem[p][k]]
    BY <2>1 DEF Read
  <2>3. InDoubt' = InDoubt
    BY <2>1 DEF Read, InDoubt
  <2>4. ASSUME NEW k \in K
        PROVE  answer'[k] = file[k] \/ <<k, answer'[k]>> \in InDoubt
    <3>1. CASE p = "poc"
      BY <3>1, <2>2, InDoubtMember DEF Read
    <3>2. CASE p = "terminal"
      BY <3>2, <2>2, <1>3 DEF StoreInv, UnreadIsEmpty
    <3>3. QED
      BY <3>1, <3>2 DEF Procs
  <2>5. answer' \in [K -> Value]
    BY <2>2, <1>1
  <2>6. QED
    BY <2>3, <2>4, <2>5 DEF Read, Promise!Read, Promise!Value, Value
<1>4. QED
  BY <1>2, <1>3

LEMMA BlindReadRefines ==
  ASSUME StoreInv, NEW p \in Procs, NEW K \in SUBSET Keys, BlindRead(p, K)
  PROVE  Promise!BlindRead(K)
<1>1. answer' \in [K -> Value]
  BY DEF BlindRead, StoreInv, StoreTypeOK
<1>2. \A k \in K : <<k, answer'[k]>> \in tried
  BY DEF BlindRead, StoreInv, KeptWasTried
<1>3. InDoubt' = InDoubt
  BY DEF BlindRead, InDoubt
<1>4. QED
  BY <1>1, <1>2, <1>3 DEF BlindRead, Promise!BlindRead, Promise!Value, Value

LEMMA ReopenRefines ==
  ASSUME StoreInv, Reopen
  PROVE  Promise!Restart
<1>1. mem'["poc"] = file
  BY DEF Reopen, StoreInv, StoreTypeOK, Procs
<1>2. InDoubt' = {}
  BY <1>1, InDoubtMemberNext DEF Reopen
<1>3. QED
  BY <1>2 DEF Reopen, Promise!Restart

LEMMA NextRefines == StoreInv /\ [StoreNext]_storeVars => [Promise!Next]_(Promise!vars)
<1> SUFFICES ASSUME StoreInv, [StoreNext]_storeVars PROVE [Promise!Next]_(Promise!vars)
  OBVIOUS
<1>1. ASSUME NEW k \in Keys, NEW v \in Value, Begin(k, v) \/ SaveDone(k, v) \/ SaveFails(k, v)
      PROVE  Promise!Next
  <2>1. Promise!Submit(k, v) \/ Promise!Write(k, v) \/ Promise!WriteFails(k, v)
    BY <1>1, BeginRefines, SaveDoneRefines, SaveFailsRefines
  <2>2. QED
    BY <2>1 DEF Promise!Next, Promise!Value, Value
<1>2. ASSUME NEW p \in Procs, NEW K \in SUBSET Keys, Read(p, K) \/ BlindRead(p, K)
      PROVE  Promise!Next
  <2>1. Promise!Read(K) \/ Promise!BlindRead(K)
    BY <1>2, ReadRefines, BlindReadRefines
  <2>2. QED
    BY <2>1 DEF Promise!Next
<1>3. CASE Reopen
  BY <1>3, ReopenRefines DEF Promise!Next
<1>4. CASE UNCHANGED storeVars
  BY <1>4 DEF storeVars, Promise!vars, InDoubt
<1>5. QED
  BY <1>1, <1>2, <1>3, <1>4, HandlerCases

\* JSONStore implements RowStore: to its callers in both processes the file
\* behaves like the PostgreSQL tables.
THEOREM StoreRefines == StoreSpec => StorePromise
<1>1. QED
  BY StoreInvariant, InitRefines, NextRefines, PTL DEF StoreSpec, StorePromise, Promise!Spec

------------------------------------------------------------------------------
\* Profile and RepoCache.

Working == {"ensure", "cloning", "fetching", "local", "booted", "saving"}
Closed  == {"ready", "failed", "stopped", "dead"}

\* A boot has its URL from its start on, and its tokens until it ends.
Boots ==
  [pc : {"new"}]
  \cup [pc : Working, url : URLs, req : ReqTokens, token : Tokens]
  \cup [pc : Closed, url : URLs]
  \cup [pc : {"orphan"}, git : InGit, url : URLs, token : Tokens]

\* Types of all the variables.
ProfileTypes ==
  /\ profile \in [Fields -> Tokens] /\ cred \in Tokens
  /\ put \in [Puts -> {"idle", "loaded", "over"}]
  /\ merged \in [Puts -> [Fields -> Tokens]]
  /\ last \in [Fields -> Tokens] /\ overlap \in BOOLEAN

CacheTypes ==
  /\ boot \in [Sessions -> Boots]
  /\ lock \in [Names -> SUBSET Sessions]
  /\ bare \in [Names -> Content]
  /\ ws \in [Sessions -> Content]
  /\ cut \subseteq Names
  /\ crashes \in Nat

\* As long as no two PUTs overlap, one that has loaded is alone, and is about
\* to save the profile as it is now with its own tokens over it.
LoadedIsFresh ==
  ~overlap => \A h \in Puts : put[h] = "loaded" =>
    /\ merged[h] = Merge(profile, Body[h])
    /\ \A i \in Puts : put[i] = "loaded" => i = h

\* The boot that has the mutex of a name is the one in the git command on it.
HolderAtWork ==
  /\ \A n \in Names : \A s \in lock[n] :
       /\ lock[n] = {s}
       /\ boot[s].pc \in {"cloning", "fetching"} /\ Name(s) = n
  /\ \A s \in Sessions : boot[s].pc \in {"cloning", "fetching"} => lock[Name(s)] = {s}

\* A clone that is being made is half made.  A half-made one is being made,
\* under the mutex, or is one that the end of the process has cut off.
CloningIsPartial ==
  \A s \in Sessions : At(s, "cloning") => Name(s) \in cut \/ bare[Name(s)] = "partial"
PartialIsLocked ==
  \A n \in Names : bare[n] = "partial" => n \in cut \/ \E s \in lock[n] : At(s, "cloning")

\* A boot past the clone, or beside it, finds a whole repository; so does the
\* git command that it has left behind.
Pulls(s) ==
  \/ boot[s].pc \in {"fetching", "local"}
  \/ boot[s].pc = "orphan" /\ boot[s].git \in {"fetching", "local"}
FoundIsWhole ==
  \A s \in Sessions : Pulls(s) => Name(s) \in cut \/ bare[Name(s)] \in URLs

\* The repository of a clone that was left behind is one that was cut off.
OrphanIsCut ==
  \A s \in Sessions : At(s, "orphan") /\ boot[s].git = "cloning" => Name(s) \in cut

\* A session has no workspace before its boot.
NewHasNone == \A s \in Sessions : At(s, "new") => ws[s] = "none"

\* The inductive invariants, of the tokens and of the repositories.
ProfileInv == ProfileTypes /\ LoadedIsFresh /\ TokensKept
CacheInv ==
  /\ CacheTypes /\ HolderAtWork /\ CloningIsPartial /\ PartialIsLocked /\ FoundIsWhole
  /\ OrphanIsCut /\ NewHasNone /\ NoHalfClone

------------------------------------------------------------------------------
LEMMA MergeType ==
  ASSUME NEW old \in [Fields -> Tokens], NEW h \in Puts
  PROVE  Merge(old, Body[h]) \in [Fields -> Tokens]
BY BodyAssumption DEF Merge

LEMMA PutLoadKeeps ==
  ASSUME ProfileInv, NEW h \in Puts, PutLoad(h)
  PROVE  ProfileInv'
<1> USE DEF ProfileInv, PutLoad
<1>1. PICK existing \in {profile, NoTokens} :
        /\ merged' = [merged EXCEPT ![h] = Merge(existing, Body[h])]
        /\ overlap' = (overlap \/ existing # profile \/ \E i \in Puts : put[i] = "loaded")
  OBVIOUS
<1>2. existing \in [Fields -> Tokens]
  <2>1. NoTokens \in [Fields -> Tokens]
    BY BodyAssumption DEF NoTokens
  <2>2. QED
    BY <2>1 DEF ProfileTypes
<1>3. ProfileTypes'
  <2>1. merged' \in [Puts -> [Fields -> Tokens]]
    BY <1>1, <1>2, MergeType DEF ProfileTypes
  <2>2. overlap' \in BOOLEAN
    BY <1>1, Zenon DEF ProfileTypes
  <2>3. QED
    BY <2>1, <2>2 DEF ProfileTypes
<1>4. ~overlap' => ~overlap /\ existing = profile /\ \A i \in Puts : put[i] # "loaded"
  BY <1>1
<1>5. LoadedIsFresh' /\ TokensKept'
  BY <1>1, <1>4 DEF LoadedIsFresh, TokensKept, ProfileTypes
<1>6. QED
  BY <1>3, <1>5

LEMMA PutSaveKeeps ==
  ASSUME ProfileInv, NEW h \in Puts, PutSave(h)
  PROVE  ProfileInv'
<1> USE DEF ProfileInv, PutSave
<1>1. CASE profile' = merged[h]
           /\ last' = [f \in Fields |-> IF Body[h][f] = "" THEN last[f] ELSE Body[h][f]]
  <2>1. ProfileTypes'
    BY <1>1, BodyAssumption DEF ProfileTypes
  <2>2. LoadedIsFresh'
    BY <1>1 DEF LoadedIsFresh, ProfileTypes
  <2>3. TokensKept'
    <3> SUFFICES ASSUME ~overlap, NEW f \in Fields PROVE profile'[f] = last'[f]
      BY DEF TokensKept
    <3>1. merged[h] = [g \in Fields |-> IF Body[h][g] # "" THEN Body[h][g] ELSE profile[g]]
      BY DEF LoadedIsFresh, Merge
    <3>2. profile[f] = last[f]
      BY DEF TokensKept
    <3>3. QED
      BY <1>1, <3>1, <3>2
  <2>4. QED
    BY <2>1, <2>2, <2>3
<1>2. CASE UNCHANGED <<profile, last>>
  BY <1>2 DEF LoadedIsFresh, TokensKept, ProfileTypes
<1>3. QED
  BY <1>1, <1>2

LEMMA PutsCrashKeeps ==
  ASSUME ProfileInv, PutsCrash, cred' = cred
  PROVE  ProfileInv'
BY DEF ProfileInv, PutsCrash, LoadedIsFresh, TokensKept, ProfileTypes

LEMMA PutsKeep ==
  ASSUME ProfileInv, UNCHANGED <<profile, put, merged, last, overlap>>, cred' \in Tokens
  PROVE  ProfileInv'
BY DEF ProfileInv, LoadedIsFresh, TokensKept, ProfileTypes

------------------------------------------------------------------------------
\* What a change of place leaves: the boot's data, and the boots of others.
LEMMA GoesOn ==
  ASSUME CacheTypes, NEW s \in Sessions, NEW place \in Working,
         boot[s].pc \in Working, Goes(s, place)
  PROVE  /\ boot' \in [Sessions -> Boots]
         /\ boot'[s].pc = place /\ boot'[s].url = boot[s].url
         /\ boot[s].url \in URLs /\ boot[s].req \in ReqTokens /\ boot[s].token \in Tokens
         /\ \A t \in Sessions : t # s => boot'[t] = boot[t]
<1>1. boot[s] \in [pc : Working, url : URLs, req : ReqTokens, token : Tokens]
  BY DEF CacheTypes, Boots, Working, Closed
<1>2. boot' = [boot EXCEPT ![s] = [boot[s] EXCEPT !.pc = place]]
  BY DEF Goes
<1>3. /\ [boot[s] EXCEPT !.pc = place] \in [pc : Working, url : URLs, req : ReqTokens, token : Tokens]
      /\ [boot[s] EXCEPT !.pc = place].pc = place
      /\ [boot[s] EXCEPT !.pc = place].url = boot[s].url
  BY <1>1
<1>4. QED
  BY <1>1, <1>2, <1>3 DEF CacheTypes, Boots

LEMMA EndsAt ==
  ASSUME CacheTypes, NEW s \in Sessions, NEW place \in Closed,
         boot[s].pc \in Working, Ended(s, place)
  PROVE  /\ boot' \in [Sessions -> Boots]
         /\ boot'[s].pc = place /\ boot'[s].url = boot[s].url
         /\ boot[s].url \in URLs
         /\ \A t \in Sessions : t # s => boot'[t] = boot[t]
<1>1. boot[s] \in [pc : Working, url : URLs, req : ReqTokens, token : Tokens]
  BY DEF CacheTypes, Boots, Working, Closed
<1>2. boot' = [boot EXCEPT ![s] = [pc |-> place, url |-> boot[s].url]]
  BY DEF Ended
<1>3. [pc |-> place, url |-> boot[s].url] \in [pc : Closed, url : URLs]
  BY <1>1
<1>4. QED
  BY <1>1, <1>2, <1>3 DEF CacheTypes, Boots

LEMMA Named ==
  ASSUME CacheTypes, NEW s \in Sessions, boot[s].pc \in Working \cup Closed
  PROVE  boot[s].url \in URLs /\ Name(s) \in Names
<1>1. boot[s].url \in URLs
  BY DEF CacheTypes, Boots, Working, Closed
<1>2. QED
  BY <1>1 DEF Name, BareRepoPath, Names

LEMMA BootStartKeeps ==
  ASSUME CacheInv, ProfileInv, NEW s \in Sessions, NEW u \in URLs, NEW req \in ReqTokens,
         BootStart(s, u, req)
  PROVE  CacheInv'
<1> USE DEF CacheInv
<1>1. At(s, "new") /\ UNCHANGED <<lock, bare, ws, cut, crashes>>
  BY DEF BootStart
<1>2. PICK token \in Resolved(req) :
        boot' = [boot EXCEPT ![s] = [pc |-> "ensure", url |-> u, req |-> req, token |-> token]]
  BY DEF BootStart
<1>3. token \in Tokens
  BY CacheAssumption DEF ProfileInv, ProfileTypes, Fields, Resolved
<1>4. /\ boot' \in [Sessions -> Boots]
      /\ boot'[s].pc = "ensure" /\ boot'[s].url = u
      /\ \A t \in Sessions : t # s => boot'[t] = boot[t]
  <2>1. [pc |-> "ensure", url |-> u, req |-> req, token |-> token]
          \in [pc : Working, url : URLs, req : ReqTokens, token : Tokens]
    BY <1>3 DEF Working
  <2>2. QED
    BY <1>2, <2>1 DEF CacheTypes, Boots
<1>5. CacheTypes'
  BY <1>1, <1>4 DEF CacheTypes
<1>6. HolderAtWork' /\ CloningIsPartial' /\ PartialIsLocked'
  <2>1. \A t \in Sessions :
          boot'[t].pc \in {"cloning", "fetching"} \/ boot[t].pc \in {"cloning", "fetching"} => boot'[t] = boot[t]
    BY <1>1, <1>4 DEF At
  <2>a. \A t \in Sessions : boot'[t] = boot[t] => Name(t)' = Name(t)
    BY DEF Name, BareRepoPath
  <2>2. HolderAtWork'
    <3>1. \A n \in Names : \A t \in lock[n] :
            t \in Sessions /\ boot[t].pc \in {"cloning", "fetching"} /\ lock[n] = {t} /\ Name(t) = n
      BY DEF HolderAtWork, CacheTypes
    <3>2. \A n \in Names : \A t \in lock[n] :
            lock[n] = {t} /\ boot'[t].pc \in {"cloning", "fetching"} /\ Name(t)' = n
      BY <2>1, <2>a, <3>1
    <3>3. \A t \in Sessions : boot'[t].pc \in {"cloning", "fetching"} => lock[Name(t)'] = {t}
      BY <2>1, <2>a DEF HolderAtWork
    <3>4. QED
      BY <1>1, <3>2, <3>3 DEF HolderAtWork
  <2>3. CloningIsPartial'
    BY <1>1, <2>1, <2>a DEF CloningIsPartial, At
  <2>4. PartialIsLocked'
    BY <1>1, <2>1 DEF PartialIsLocked, At, CacheTypes
  <2>5. QED
    BY <2>2, <2>3, <2>4
<1>7. FoundIsWhole' /\ OrphanIsCut' /\ NewHasNone'
  BY <1>1, <1>4 DEF FoundIsWhole, Pulls, OrphanIsCut, NewHasNone, At, Name, BareRepoPath
<1>8. NoHalfClone'
  BY <1>1, <1>4, CacheAssumption DEF NoHalfClone, Name, BareRepoPath, NewHasNone, At
<1>9. QED
  BY <1>5, <1>6, <1>7, <1>8

\* Mutual exclusion: taking a free mutex, and releasing one's own.
LEMMA LockKeeps ==
  ASSUME CacheTypes, HolderAtWork, NEW s \in Sessions, Name(s) \in Names, lock[Name(s)] = {},
         boot[s].pc = "ensure", boot'[s].pc \in {"cloning", "fetching"}, boot'[s].url = boot[s].url,
         \A t \in Sessions : t # s => boot'[t] = boot[t],
         lock' = [lock EXCEPT ![Name(s)] = {s}]
  PROVE  HolderAtWork'
<1>1. Name(s)' = Name(s) /\ \A t \in Sessions : t # s => Name(t)' = Name(t)
  BY DEF Name, BareRepoPath
<1>2. \A n \in Names : lock'[n] = IF n = Name(s) THEN {s} ELSE lock[n]
  BY DEF CacheTypes
<1>3. ASSUME NEW n \in Names, NEW t \in lock'[n]
      PROVE  lock'[n] = {t} /\ boot'[t].pc \in {"cloning", "fetching"} /\ Name(t)' = n
  <2>1. CASE n = Name(s)
    BY <1>1, <1>2, <1>3, <2>1
  <2>2. CASE n # Name(s)
    <3>1. t \in lock[n] /\ lock'[n] = lock[n]
      BY <1>2, <1>3, <2>2
    <3>2. t \in Sessions /\ lock[n] = {t} /\ boot[t].pc \in {"cloning", "fetching"} /\ Name(t) = n
      BY <3>1 DEF HolderAtWork, CacheTypes
    <3>3. t # s
      BY <3>2
    <3>4. QED
      BY <1>1, <3>1, <3>2, <3>3
  <2>3. QED
    BY <2>1, <2>2
<1>4. ASSUME NEW t \in Sessions, boot'[t].pc \in {"cloning", "fetching"}
      PROVE  lock'[Name(t)'] = {t}
  <2>1. CASE t = s
    BY <1>1, <1>2, <2>1
  <2>2. CASE t # s
    <3>1. boot[t].pc \in {"cloning", "fetching"} /\ Name(t)' = Name(t)
      BY <1>1, <1>4, <2>2
    <3>2. lock[Name(t)] = {t} /\ Name(t) \in Names
      BY <3>1, Named DEF HolderAtWork, Working
    <3>3. Name(t) # Name(s)
      BY <3>2
    <3>4. QED
      BY <1>2, <3>1, <3>2, <3>3
  <2>3. QED
    BY <2>1, <2>2
<1>5. QED
  BY <1>3, <1>4 DEF HolderAtWork

LEMMA UnlockedKeeps ==
  ASSUME CacheTypes, HolderAtWork, NEW s \in Sessions, Name(s) \in Names, lock[Name(s)] = {s},
         boot'[s].pc \notin {"cloning", "fetching"},
         \A t \in Sessions : t # s => boot'[t] = boot[t],
         lock' = [lock EXCEPT ![Name(s)] = {}]
  PROVE  HolderAtWork'
<1>1. \A t \in Sessions : t # s => Name(t)' = Name(t)
  BY DEF Name, BareRepoPath
<1>2. \A n \in Names : lock'[n] = IF n = Name(s) THEN {} ELSE lock[n]
  BY DEF CacheTypes
<1>3. ASSUME NEW n \in Names, NEW t \in lock'[n]
      PROVE  lock'[n] = {t} /\ boot'[t].pc \in {"cloning", "fetching"} /\ Name(t)' = n
  <2>1. t \in lock[n] /\ lock'[n] = lock[n] /\ n # Name(s)
    BY <1>2, <1>3
  <2>2. t \in Sessions /\ lock[n] = {t} /\ boot[t].pc \in {"cloning", "fetching"} /\ Name(t) = n
    BY <2>1 DEF HolderAtWork, CacheTypes
  <2>3. QED
    BY <1>1, <2>1, <2>2
<1>4. ASSUME NEW t \in Sessions, boot'[t].pc \in {"cloning", "fetching"}
      PROVE  lock'[Name(t)'] = {t}
  <2>1. t # s /\ boot[t].pc \in {"cloning", "fetching"} /\ Name(t)' = Name(t)
    BY <1>1, <1>4
  <2>2. lock[Name(t)] = {t} /\ Name(t) \in Names
    BY <2>1, Named DEF HolderAtWork, Working
  <2>3. QED
    BY <1>2, <2>1, <2>2
<1>5. QED
  BY <1>3, <1>4 DEF HolderAtWork

LEMMA EnsureKeeps ==
  ASSUME CacheInv, NEW s \in Sessions, Ensure(s)
  PROVE  CacheInv'
<1> USE DEF CacheInv
<1>1. /\ At(s, "ensure") /\ lock[Name(s)] = {}
      /\ lock' = [lock EXCEPT ![Name(s)] = {s}] /\ UNCHANGED <<ws, cut, crashes>>
  BY DEF Ensure
<1>2. boot[s].url \in URLs /\ Name(s) \in Names
  BY <1>1, Named DEF At, Working
<1>3. \A place \in {"cloning", "fetching"} : Goes(s, place) =>
        /\ boot' \in [Sessions -> Boots]
        /\ boot'[s].pc = place /\ boot'[s].url = boot[s].url
        /\ \A t \in Sessions : t # s => boot'[t] = boot[t]
  BY <1>1, GoesOn DEF At, Working
<1>4. CASE /\ bare[Name(s)] = "none" /\ Goes(s, "cloning")
           /\ bare' = [bare EXCEPT ![Name(s)] = "partial"]
  <2> DEFINE n0 == Name(s)
  <2>1. /\ boot' \in [Sessions -> Boots]
        /\ boot'[s].pc = "cloning" /\ boot'[s].url = boot[s].url
        /\ \A t \in Sessions : t # s => boot'[t] = boot[t]
    BY <1>3, <1>4
  <2>2. CacheTypes'
    BY <1>1, <1>2, <1>4, <2>1 DEF CacheTypes, Content
  <2>3. HolderAtWork'
    BY <1>1, <1>2, <2>1, LockKeeps DEF At
  <2>4. CloningIsPartial' /\ PartialIsLocked'
    BY <1>1, <1>2, <1>4, <2>1
       DEF CloningIsPartial, PartialIsLocked, At, Name, BareRepoPath, CacheTypes
  <2>5. FoundIsWhole' /\ OrphanIsCut' /\ NewHasNone'
    BY <1>1, <1>2, <1>4, <2>1, CacheAssumption
       DEF FoundIsWhole, Pulls, OrphanIsCut, NewHasNone, At, Name, BareRepoPath, CacheTypes
  <2>6. NoHalfClone'
    BY <1>1, <2>1 DEF NoHalfClone, Name, BareRepoPath, At
  <2>7. QED
    BY <2>2, <2>3, <2>4, <2>5, <2>6
<1>5. CASE bare[Name(s)] # "none" /\ Goes(s, "fetching") /\ UNCHANGED bare
  <2>1. /\ boot' \in [Sessions -> Boots]
        /\ boot'[s].pc = "fetching" /\ boot'[s].url = boot[s].url
        /\ \A t \in Sessions : t # s => boot'[t] = boot[t]
    BY <1>3, <1>5
  <2>2. CacheTypes'
    BY <1>1, <1>2, <1>5, <2>1 DEF CacheTypes
  <2>3. HolderAtWork'
    BY <1>1, <1>2, <2>1, LockKeeps DEF At
  <2>4. CloningIsPartial' /\ PartialIsLocked'
    BY <1>1, <1>2, <1>5, <2>1
       DEF CloningIsPartial, PartialIsLocked, HolderAtWork, At, Name, BareRepoPath, CacheTypes
  <2>5. FoundIsWhole' /\ OrphanIsCut' /\ NewHasNone'
    <3>1. Name(s) \in cut \/ bare[Name(s)] \in URLs
      BY <1>1, <1>2, <1>5 DEF PartialIsLocked, CacheTypes, Content
    <3>2. QED
      BY <1>1, <1>2, <1>5, <2>1, <3>1
         DEF FoundIsWhole, Pulls, OrphanIsCut, NewHasNone, At, Name, BareRepoPath
  <2>6. NoHalfClone'
    BY <1>1, <2>1 DEF NoHalfClone, Name, BareRepoPath, At
  <2>7. QED
    BY <2>2, <2>3, <2>4, <2>5, <2>6
<1>6. QED
  BY <1>4, <1>5 DEF Ensure

\* The end of the git command under the mutex, whatever it leaves: a whole
\* repository for a boot that goes on to its local clone.
LEMMA UnlockKeeps ==
  ASSUME CacheInv, NEW s \in Sessions, NEW place \in {"local", "booted"},
         NEW c \in {"none"} \cup URLs \cup {bare[Name(s)]},
         boot[s].pc \in {"cloning", "fetching"}, Goes(s, place), Unlock(s),
         bare' = [bare EXCEPT ![Name(s)] = c],
         boot[s].pc = "cloning" => c # "partial",
         place = "local" => c \in URLs \/ (boot[s].pc = "fetching" /\ c = bare[Name(s)]),
         c = "none" => boot[s].pc = "cloning" \/ c = bare[Name(s)],
         UNCHANGED <<ws, cut, crashes>>
  PROVE  CacheInv'
<1> USE DEF CacheInv
<1>1. /\ boot' \in [Sessions -> Boots]
      /\ boot'[s].pc = place /\ boot'[s].url = boot[s].url
      /\ \A t \in Sessions : t # s => boot'[t] = boot[t]
  BY GoesOn DEF Working
<1>2. boot[s].url \in URLs /\ Name(s) \in Names /\ lock[Name(s)] = {s}
  BY Named DEF Working, HolderAtWork
<1>3. lock' = [lock EXCEPT ![Name(s)] = {}]
  BY DEF Unlock
<1>4. CacheTypes'
  BY <1>1, <1>2, <1>3 DEF CacheTypes, Content
<1>5. HolderAtWork'
  BY <1>1, <1>2, <1>3, UnlockedKeeps
<1>6. CloningIsPartial' /\ PartialIsLocked'
  <2>1. c = "partial" => Name(s) \in cut
    BY <1>2, CacheAssumption DEF PartialIsLocked, At, CacheTypes
  <2>2. ASSUME NEW t \in Sessions, At(t, "cloning")'
        PROVE  Name(t)' \in cut \/ bare'[Name(t)'] = "partial"
    <3>1. t # s /\ At(t, "cloning") /\ Name(t)' = Name(t)
      BY <1>1, <2>2 DEF At, Name, BareRepoPath
    <3>2. Name(t) \in Names /\ Name(t) # Name(s)
      BY <1>2, <3>1, Named DEF HolderAtWork, At, Working
    <3>3. QED
      BY <3>1, <3>2 DEF CloningIsPartial, CacheTypes
  <2>3. ASSUME NEW n \in Names, bare'[n] = "partial", n \notin cut
        PROVE  \E t \in lock'[n] : At(t, "cloning")'
    <3>1. n # Name(s) /\ bare[n] = "partial" /\ lock'[n] = lock[n]
      BY <1>2, <1>3, <2>1, <2>3 DEF CacheTypes
    <3>2. PICK t \in lock[n] : At(t, "cloning")
      BY <2>3, <3>1 DEF PartialIsLocked
    <3>3. t \in Sessions /\ t # s
      BY <3>1, <3>2 DEF CacheTypes, HolderAtWork
    <3>4. QED
      BY <1>1, <3>1, <3>2, <3>3 DEF At
  <2>4. QED
    BY <2>2, <2>3 DEF CloningIsPartial, PartialIsLocked
<1>7. FoundIsWhole'
  <2> SUFFICES ASSUME NEW t \in Sessions, Pulls(t)', Name(t)' \notin cut
               PROVE  bare'[Name(t)'] \in URLs
    BY DEF FoundIsWhole
  <2>1. Name(t)' = Name(t)
    BY <1>1 DEF Name, BareRepoPath
  <2>2. t # s => Pulls(t)
    BY <1>1 DEF Pulls
  <2>3. t = s => place = "local"
    BY <1>1 DEF Pulls
  <2>4. CASE Name(t) # Name(s)
    <3>1. Pulls(t) /\ bare[Name(t)] \in URLs
      BY <2>1, <2>2, <2>4 DEF FoundIsWhole
    <3>2. QED
      BY <2>1, <2>4, <3>1 DEF CacheTypes
  <2>5. CASE Name(t) = Name(s)
    <3>1. bare'[Name(t)'] = c
      BY <1>2, <2>1, <2>5 DEF CacheTypes
    <3>2. CASE boot[s].pc = "fetching"
      <4>1. bare[Name(s)] \in URLs
        BY <2>1, <2>5, <3>2 DEF FoundIsWhole, Pulls
      <4>2. QED
        BY <3>1, <3>2, <4>1, CacheAssumption
    <3>3. CASE boot[s].pc = "cloning"
      <4>1. bare[Name(s)] = "partial"
        BY <2>1, <2>5, <3>3 DEF CloningIsPartial, At
      <4>2. t = s
        BY <2>1, <2>2, <2>5, <4>1, CacheAssumption DEF FoundIsWhole
      <4>3. QED
        BY <2>3, <3>1, <3>3, <4>2
    <3>4. QED
      BY <3>2, <3>3
  <2>6. QED
    BY <2>4, <2>5
<1>8. OrphanIsCut'
  BY <1>1 DEF OrphanIsCut, At, Name, BareRepoPath
<1>9. NewHasNone' /\ NoHalfClone'
  BY <1>1 DEF NewHasNone, NoHalfClone, Name, BareRepoPath, At
<1>10. QED
  BY <1>4, <1>5, <1>6, <1>7, <1>8, <1>9

LEMMA CloneEndsKeeps ==
  ASSUME CacheInv, NEW s \in Sessions, CloneEnds(s)
  PROVE  CacheInv'
<1>1. At(s, "cloning") /\ Unlock(s) /\ UNCHANGED <<ws, cut, crashes>>
  BY DEF CloneEnds
<1>2. boot[s].url \in URLs
  BY <1>1, Named DEF CacheInv, At, Working
<1>3. CASE bare' = [bare EXCEPT ![Name(s)] = boot[s].url] /\ Goes(s, "local")
  BY <1>1, <1>2, <1>3, UnlockKeeps, CacheAssumption DEF At
<1>4. CASE bare' = [bare EXCEPT ![Name(s)] = "none"] /\ Goes(s, "booted")
  BY <1>1, <1>4, UnlockKeeps, CacheAssumption DEF At
<1>5. QED
  BY <1>3, <1>4 DEF CloneEnds

LEMMA FetchEndsKeeps ==
  ASSUME CacheInv, NEW s \in Sessions, FetchEnds(s)
  PROVE  CacheInv'
<1>1. At(s, "fetching") /\ Unlock(s) /\ Goes(s, "local") /\ UNCHANGED <<ws, cut, crashes>>
  BY DEF FetchEnds
<1>2. boot[s].url \in URLs /\ Name(s) \in Names
  BY <1>1, Named DEF CacheInv, At, Working
<1>3. CASE bare' = [bare EXCEPT ![Name(s)] = boot[s].url]
  BY <1>1, <1>2, <1>3, UnlockKeeps, CacheAssumption DEF At
<1>4. CASE UNCHANGED bare
  <2>1. bare' = [bare EXCEPT ![Name(s)] = bare[Name(s)]]
    BY <1>2, <1>4 DEF CacheInv, CacheTypes
  <2>2. QED
    BY <1>1, <2>1, UnlockKeeps DEF At
<1>5. QED
  BY <1>3, <1>4 DEF FetchEnds

\* A boot that is past the mutex moves on, and touches its workspace at most.
LEMMA MovesOn ==
  ASSUME CacheInv, NEW s \in Sessions, boot' \in [Sessions -> Boots],
         boot[s].pc \notin {"new", "cloning", "fetching"},
         boot'[s].pc \notin {"new", "cloning", "fetching", "local", "orphan"},
         boot'[s].url = boot[s].url,
         \A t \in Sessions : t # s => boot'[t] = boot[t],
         ws' \in [Sessions -> Content],
         \A t \in Sessions : t # s => ws'[t] = ws[t],
         ws'[s] = "partial" => ws'[s] = ws[s] \/ Name(s) \in cut,
         UNCHANGED <<lock, bare, cut, crashes>>
  PROVE  CacheInv'
<1> USE DEF CacheInv
<1>1. CacheTypes'
  BY DEF CacheTypes
<1>2. \A t \in Sessions : Name(t)' = Name(t)
  BY DEF Name, BareRepoPath
<1>3. HolderAtWork'
  <2>1. \A n \in Names : \A t \in lock[n] : t \in Sessions
    BY DEF CacheTypes
  <2>2. QED
    BY <1>2, <2>1 DEF HolderAtWork
<1>4. CloningIsPartial'
  BY <1>2 DEF CloningIsPartial, At
<1>5. PartialIsLocked'
  <2>1. ASSUME NEW n \in Names, bare[n] = "partial", n \notin cut
        PROVE  \E t \in lock[n] : At(t, "cloning")'
    <3>1. PICK t \in lock[n] : At(t, "cloning")
      BY <2>1 DEF PartialIsLocked
    <3>2. t \in Sessions /\ t # s
      BY <3>1 DEF CacheTypes, At
    <3>3. QED
      BY <3>1, <3>2 DEF At
  <2>2. QED
    BY <2>1 DEF PartialIsLocked
<1>6. FoundIsWhole' /\ OrphanIsCut'
  BY <1>2 DEF FoundIsWhole, Pulls, OrphanIsCut, At
<1>7. NewHasNone' /\ NoHalfClone'
  BY <1>2 DEF NewHasNone, NoHalfClone, At
<1>9. QED
  BY <1>1, <1>3, <1>4, <1>5, <1>6, <1>7

LEMMA LocalCloneKeeps ==
  ASSUME CacheInv, NEW s \in Sessions, LocalClone(s)
  PROVE  CacheInv'
<1>1. At(s, "local") /\ Goes(s, "booted") /\ UNCHANGED <<lock, bare, cut, crashes>>
  BY DEF LocalClone
<1>2. boot[s].url \in URLs /\ Name(s) \in Names
  BY <1>1, Named DEF CacheInv, At, Working
<1>3. /\ boot' \in [Sessions -> Boots]
      /\ boot'[s].pc = "booted" /\ boot'[s].url = boot[s].url
      /\ \A t \in Sessions : t # s => boot'[t] = boot[t]
  BY <1>1, GoesOn DEF CacheInv, At, Working
<1>4. CASE ws' = [ws EXCEPT ![s] = bare[Name(s)]]
  <2>1. /\ ws' \in [Sessions -> Content] /\ ws'[s] = bare[Name(s)]
        /\ \A t \in Sessions : t # s => ws'[t] = ws[t]
    BY <1>2, <1>4 DEF CacheInv, CacheTypes
  <2>2. ws'[s] = "partial" => Name(s) \in cut
    BY <1>1, <2>1, CacheAssumption DEF CacheInv, FoundIsWhole, Pulls, At
  <2>3. QED
    BY <1>1, <1>3, <2>1, <2>2, MovesOn DEF At
<1>5. CASE UNCHANGED ws
  BY <1>1, <1>3, <1>5, MovesOn DEF At, CacheInv, CacheTypes
<1>6. QED
  BY <1>4, <1>5 DEF LocalClone

LEMMA EndKeeps ==
  ASSUME CacheInv, NEW s \in Sessions, NEW place \in Closed,
         boot[s].pc \in {"booted", "saving"}, Ended(s, place), UNCHANGED <<lock, bare, ws, cut, crashes>>
  PROVE  CacheInv'
<1>1. /\ boot' \in [Sessions -> Boots]
      /\ boot'[s].pc = place /\ boot'[s].url = boot[s].url
      /\ \A t \in Sessions : t # s => boot'[t] = boot[t]
  BY EndsAt DEF CacheInv, Working
<1>2. QED
  BY <1>1, MovesOn DEF CacheInv, CacheTypes, Closed

LEMMA SetupKeeps ==
  ASSUME CacheInv, ProfileInv, NEW s \in Sessions, Setup(s)
  PROVE  CacheInv' /\ ProfileInv'
<1>1. UNCHANGED <<profile, put, merged, last, overlap, lock, bare, ws, cut, crashes>>
  BY DEF Setup
<1>2. CASE At(s, "booted") /\ boot[s].req # "" /\ Goes(s, "saving") /\ cred' = ""
  <2>1. /\ boot' \in [Sessions -> Boots]
        /\ boot'[s].pc = "saving" /\ boot'[s].url = boot[s].url
        /\ \A t \in Sessions : t # s => boot'[t] = boot[t]
    BY <1>2, GoesOn DEF CacheInv, At, Working
  <2>2. CacheInv'
    BY <1>1, <1>2, <2>1, MovesOn DEF CacheInv, CacheTypes, At
  <2>3. ProfileInv'
    BY <1>1, <1>2, PutsKeep, BodyAssumption
  <2>4. QED
    BY <2>2, <2>3
<1>3. CASE /\ \/ At(s, "booted") /\ UNCHANGED cred
              \/ At(s, "saving") /\ cred' \in {boot[s].req, ""}
           /\ Ended(s, "ready") \/ Ended(s, "failed")
  <2>1. boot[s].req \in Tokens
    BY <1>3, CacheAssumption DEF At, CacheInv, CacheTypes, Boots, Working, Closed
  <2>2. ProfileInv'
    BY <1>1, <1>3, <2>1, PutsKeep, BodyAssumption DEF ProfileInv, ProfileTypes
  <2>3. CacheInv'
    BY <1>1, <1>3, EndKeeps DEF At, Closed
  <2>4. QED
    BY <2>2, <2>3
<1>4. QED
  BY <1>2, <1>3 DEF Setup

LEMMA CleanupWorkspaceKeeps ==
  ASSUME CacheInv, NEW s \in Sessions, CleanupWorkspace(s)
  PROVE  CacheInv'
<1>1. /\ At(s, "ready") /\ Goes(s, "stopped") /\ UNCHANGED <<lock, bare, cut, crashes>>
      /\ ws' = [ws EXCEPT ![s] = "none"]
  BY DEF CleanupWorkspace
<1>2. boot[s] \in [pc : Closed, url : URLs]
  BY <1>1 DEF CacheInv, CacheTypes, Boots, Working, Closed, At
<1>3. /\ boot' \in [Sessions -> Boots]
      /\ boot'[s].pc = "stopped" /\ boot'[s].url = boot[s].url
      /\ \A t \in Sessions : t # s => boot'[t] = boot[t]
  <2>1. boot' = [boot EXCEPT ![s] = [boot[s] EXCEPT !.pc = "stopped"]]
    BY <1>1 DEF Goes
  <2>2. /\ [boot[s] EXCEPT !.pc = "stopped"] \in [pc : Closed, url : URLs]
        /\ [boot[s] EXCEPT !.pc = "stopped"].pc = "stopped"
        /\ [boot[s] EXCEPT !.pc = "stopped"].url = boot[s].url
    BY <1>2 DEF Closed
  <2>3. QED
    BY <2>1, <2>2 DEF CacheInv, CacheTypes, Boots
<1>4. /\ ws' \in [Sessions -> Content] /\ ws'[s] = "none"
      /\ \A t \in Sessions : t # s => ws'[t] = ws[t]
  BY <1>1 DEF CacheInv, CacheTypes, Content
<1>5. QED
  BY <1>1, <1>3, <1>4, MovesOn, CacheAssumption DEF At

\* The record of an orphan.
LEMMA OrphanTyped ==
  ASSUME CacheTypes, NEW s \in Sessions, At(s, "orphan")
  PROVE  /\ boot[s] \in [pc : {"orphan"}, git : InGit, url : URLs, token : Tokens]
         /\ Name(s) \in Names
<1>1. boot[s] \in [pc : {"orphan"}, git : InGit, url : URLs, token : Tokens]
  BY DEF At, CacheTypes, Boots, Working, Closed
<1>2. QED
  BY <1>1 DEF Name, BareRepoPath, Names

\* A git command that was left behind writes to a repository that was cut off,
\* or replaces one whole repository by another.
LEMMA OrphanEndsKeeps ==
  ASSUME CacheInv, NEW s \in Sessions, OrphanEnds(s)
  PROVE  CacheInv'
<1> USE DEF CacheInv
<1>1. At(s, "orphan") /\ Ended(s, "dead") /\ UNCHANGED <<lock, cut, crashes>>
  BY DEF OrphanEnds
<1>2. /\ boot[s] \in [pc : {"orphan"}, git : InGit, url : URLs, token : Tokens]
      /\ Name(s) \in Names
  BY <1>1, OrphanTyped
<1>3. /\ boot' \in [Sessions -> Boots]
      /\ boot'[s].pc = "dead" /\ boot'[s].url = boot[s].url
      /\ \A t \in Sessions : t # s => boot'[t] = boot[t]
  <2>1. boot' = [boot EXCEPT ![s] = [pc |-> "dead", url |-> boot[s].url]]
    BY <1>1 DEF Ended
  <2>2. [pc |-> "dead", url |-> boot[s].url] \in [pc : Closed, url : URLs]
    BY <1>2 DEF Closed
  <2>3. QED
    BY <2>1, <2>2 DEF CacheTypes, Boots
<1>4. /\ bare' \in [Names -> Content]
      /\ \A n \in Names : bare'[n] = bare[n] \/ n \in cut \/ (bare[n] \in URLs /\ bare'[n] \in URLs)
  <2>1. PICK c \in {"none", bare[Name(s)]} \cup URLs :
          /\ bare' = [bare EXCEPT ![Name(s)] = c]
          /\ c = bare[Name(s)] \/ boot[s].git = "cloning" \/ (boot[s].git = "fetching" /\ c \in URLs)
    <3>1. CASE boot[s].git = "cloning" /\ bare' = [bare EXCEPT ![Name(s)] = boot[s].url]
      BY <1>2, <3>1
    <3>2. CASE boot[s].git = "cloning" /\ bare' = [bare EXCEPT ![Name(s)] = "none"]
      BY <3>2
    <3>3. CASE boot[s].git = "fetching" /\ bare' = [bare EXCEPT ![Name(s)] = boot[s].url]
      BY <1>2, <3>3
    <3>4. CASE UNCHANGED bare
      <4>1. bare' = [bare EXCEPT ![Name(s)] = bare[Name(s)]]
        BY <1>2, <3>4 DEF CacheTypes
      <4>2. QED
        BY <4>1
    <3>5. QED
      BY <3>1, <3>2, <3>3, <3>4 DEF OrphanEnds
  <2>2. Name(s) \in cut \/ c = bare[Name(s)] \/ (bare[Name(s)] \in URLs /\ c \in URLs)
    BY <1>1, <2>1 DEF OrphanIsCut, FoundIsWhole, Pulls, At
  <2>3. QED
    BY <1>2, <2>1, <2>2 DEF CacheTypes, Content
<1>5. /\ ws' \in [Sessions -> Content]
      /\ \A t \in Sessions : t # s => ws'[t] = ws[t]
      /\ ws'[s] = "partial" => ws'[s] = ws[s] \/ Name(s) \in cut
  <2>1. CASE boot[s].git = "local" /\ ws' = [ws EXCEPT ![s] = bare[Name(s)]]
    BY <1>1, <1>2, <2>1, CacheAssumption DEF CacheTypes, FoundIsWhole, Pulls, At
  <2>2. CASE UNCHANGED ws
    BY <2>2 DEF CacheTypes
  <2>3. QED
    BY <2>1, <2>2 DEF OrphanEnds
<1>6. CacheTypes'
  BY <1>1, <1>3, <1>4, <1>5 DEF CacheTypes
<1>7. \A t \in Sessions : Name(t)' = Name(t)
  BY <1>3 DEF Name, BareRepoPath
<1>8. \A t \in Sessions : boot'[t].pc \in Working \/ boot'[t].pc = "orphan" => boot'[t] = boot[t]
  BY <1>3 DEF Working
<1>9. HolderAtWork'
  <2>1. \A n \in Names : \A t \in lock[n] : t \in Sessions /\ t # s
    BY <1>1 DEF HolderAtWork, CacheTypes, At
  <2>2. QED
    BY <1>1, <1>3, <1>7, <2>1 DEF HolderAtWork
<1>10. CloningIsPartial' /\ FoundIsWhole' /\ OrphanIsCut'
  <2>1. \A t \in Sessions : boot[t].pc \in Working \/ boot[t].pc = "orphan" => Name(t) \in Names
    BY Named, OrphanTyped DEF At
  <2>2. CloningIsPartial'
    BY <1>1, <1>4, <1>7, <1>8, <2>1, CacheAssumption DEF CloningIsPartial, At, Working
  <2>3. FoundIsWhole'
    BY <1>1, <1>4, <1>7, <1>8, <2>1 DEF FoundIsWhole, Pulls, Working
  <2>4. OrphanIsCut'
    BY <1>1, <1>7, <1>8 DEF OrphanIsCut, At
  <2>5. QED
    BY <2>2, <2>3, <2>4
<1>11. PartialIsLocked'
  <2> SUFFICES ASSUME NEW n \in Names, bare'[n] = "partial", n \notin cut
               PROVE  \E t \in lock[n] : At(t, "cloning")'
    BY <1>1 DEF PartialIsLocked
  <2>1. bare[n] = "partial"
    BY <1>4, CacheAssumption
  <2>2. PICK t \in lock[n] : At(t, "cloning")
    BY <2>1 DEF PartialIsLocked
  <2>3. t \in Sessions /\ t # s
    BY <1>1, <2>2 DEF CacheTypes, At
  <2>4. QED
    BY <1>3, <2>2, <2>3 DEF At
<1>12. NewHasNone' /\ NoHalfClone'
  BY <1>1, <1>3, <1>5, <1>7 DEF NewHasNone, NoHalfClone, At
<1>13. QED
  BY <1>6, <1>9, <1>10, <1>11, <1>12

LEMMA CrashKeeps ==
  ASSUME CacheInv, ProfileInv, NEW down \in BOOLEAN, Crash(down)
  PROVE  CacheInv' /\ ProfileInv'
<1> USE DEF CacheInv
<1>1. /\ crashes' = crashes + 1 /\ UNCHANGED <<bare, ws>> /\ lock' = [n \in Names |-> {}]
      /\ cut' = cut \cup {n \in Names : \E s \in lock[n] : At(s, "cloning")}
  BY DEF Crash
<1>2. ASSUME NEW s \in Sessions
      PROVE  /\ boot'[s] \in Boots
             /\ boot[s].pc = "new" <=> boot'[s].pc = "new"
             /\ boot'[s].pc # "new" => Name(s)' = Name(s)
             /\ boot'[s].pc \in Closed \cup {"new", "orphan"}
             /\ boot'[s].pc = "orphan" =>
                  \/ boot[s].pc = "orphan" /\ boot'[s] = boot[s]
                  \/ boot[s].pc \in InGit /\ boot'[s].git = boot[s].pc
  <2>1. CASE boot[s].pc \in {"new", "ready", "failed", "stopped"}
    <3>1. boot'[s] = boot[s]
      BY <2>1 DEF Crash, InGit
    <3>2. QED
      BY <2>1, <3>1 DEF CacheTypes, Closed, Name, BareRepoPath
  <2>2. CASE boot[s].pc \in InGit
    <3>1. boot[s] \in [pc : Working, url : URLs, req : ReqTokens, token : Tokens]
      BY <2>2 DEF CacheTypes, Boots, Working, Closed, InGit
    <3>2. \/ boot'[s] = [pc |-> "orphan", git |-> boot[s].pc, url |-> boot[s].url, token |-> boot[s].token]
          \/ boot'[s] = [pc |-> "dead", url |-> boot[s].url]
      BY <2>2 DEF Crash, InGit
    <3>3. boot'[s] \in [pc : {"orphan"}, git : InGit, url : URLs, token : Tokens]
                       \cup [pc : Closed, url : URLs]
      BY <2>2, <3>1, <3>2 DEF Closed
    <3>4. boot'[s] \in Boots
      BY <3>3 DEF Boots
    <3>5. QED
      BY <2>2, <3>2, <3>4 DEF InGit, Closed, Name, BareRepoPath
  <2>3. CASE boot[s].pc = "orphan"
    <3>1. boot[s] \in [pc : {"orphan"}, git : InGit, url : URLs, token : Tokens]
      BY <2>3, OrphanTyped DEF At
    <3>2. boot'[s] = boot[s] \/ boot'[s] = [pc |-> "dead", url |-> boot[s].url]
      BY <2>3 DEF Crash, InGit
    <3>3. boot'[s] \in Boots
      BY <3>1, <3>2 DEF Boots, Closed
    <3>4. QED
      BY <2>3, <3>2, <3>3 DEF Closed, Name, BareRepoPath
  <2>4. CASE boot[s].pc \in {"ensure", "booted", "saving", "dead"}
    <3>1. boot[s].url \in URLs
      BY <2>4, Named DEF Working, Closed
    <3>2. boot'[s] = [pc |-> "dead", url |-> boot[s].url]
      BY <2>4 DEF Crash, InGit
    <3>3. boot'[s] \in Boots
      BY <3>1, <3>2 DEF Boots, Closed
    <3>4. QED
      BY <2>4, <3>2, <3>3 DEF Closed, Name, BareRepoPath
  <2>5. QED
    BY <2>1, <2>2, <2>3, <2>4 DEF CacheTypes, Boots, Working, Closed, InGit
<1>3. CacheTypes'
  <2>1. DOMAIN boot' = Sessions /\ boot' = [s \in Sessions |-> boot'[s]]
    BY DEF Crash
  <2>2. boot' \in [Sessions -> Boots]
    BY <1>2, <2>1
  <2>3. QED
    BY <1>1, <2>2 DEF CacheTypes
<1>4. HolderAtWork' /\ CloningIsPartial'
  BY <1>1, <1>2 DEF HolderAtWork, CloningIsPartial, At, Closed
<1>5. PartialIsLocked' /\ NoHalfClone'
  <2>1. PartialIsLocked'
    BY <1>1 DEF PartialIsLocked
  <2>2. NoHalfClone'
    BY <1>1, <1>2, CacheAssumption DEF NoHalfClone, NewHasNone, At
  <2>3. QED
    BY <2>1, <2>2
<1>6. FoundIsWhole'
  <2>1. \A s \in Sessions : Pulls(s)' => Pulls(s) /\ Name(s)' = Name(s)
    BY <1>2 DEF Pulls, InGit, Closed
  <2>2. QED
    BY <1>1, <2>1 DEF FoundIsWhole
<1>7. OrphanIsCut'
  <2> SUFFICES ASSUME NEW s \in Sessions, boot'[s].pc = "orphan", boot'[s].git = "cloning"
               PROVE  Name(s) \in cut'
    BY <1>2 DEF OrphanIsCut, At
  <2>1. CASE boot[s].pc = "orphan" /\ boot'[s] = boot[s]
    BY <1>1, <2>1 DEF OrphanIsCut, At
  <2>2. CASE boot[s].pc = "cloning"
    BY <1>1, <2>2, Named DEF HolderAtWork, At, Working
  <2>3. QED
    BY <1>2, <2>1, <2>2
<1>8. NewHasNone'
  BY <1>1, <1>2 DEF NewHasNone, At
<1>9. ProfileInv'
  BY PutsCrashKeeps DEF Crash
<1>10. QED
  BY <1>3, <1>4, <1>5, <1>6, <1>7, <1>8, <1>9

------------------------------------------------------------------------------
LEMMA InitInv == ProfileInit /\ CacheInit => ProfileInv /\ CacheInv
<1> SUFFICES ASSUME ProfileInit, CacheInit PROVE ProfileInv /\ CacheInv
  OBVIOUS
<1>1. ProfileInv
  <2>1. NoTokens \in [Fields -> Tokens]
    BY BodyAssumption DEF NoTokens
  <2>2. QED
    BY <2>1, BodyAssumption
       DEF ProfileInit, ProfileInv, ProfileTypes, LoadedIsFresh, TokensKept
<1>2. CacheTypes /\ \A s \in Sessions : boot[s].pc = "new"
  <2>1. [pc |-> "new"] \in Boots
    BY DEF Boots
  <2>2. QED
    BY <2>1 DEF CacheInit, CacheTypes, Content
<1>3. CacheInv
  BY <1>2, CacheAssumption
     DEF CacheInit, CacheInv, HolderAtWork, CloningIsPartial, PartialIsLocked, FoundIsWhole,
         Pulls, OrphanIsCut, NewHasNone, NoHalfClone, At
<1>4. QED
  BY <1>1, <1>3

LEMMA NextInv ==
  ASSUME ProfileInv, CacheInv, [CacheNext]_vars
  PROVE  ProfileInv' /\ CacheInv'
<1>1. ASSUME NEW h \in Puts, PutLoad(h) \/ PutSave(h), UNCHANGED cacheVars
      PROVE  ProfileInv' /\ CacheInv'
  <2>1. ProfileInv'
    BY <1>1, PutLoadKeeps, PutSaveKeeps
  <2>2. CacheInv'
    <3>1. UNCHANGED cacheVars
      BY <1>1
    <3>2. CacheTypes' /\ HolderAtWork' /\ CloningIsPartial' /\ PartialIsLocked'
      BY <3>1 DEF cacheVars, CacheInv, CacheTypes, HolderAtWork, CloningIsPartial, PartialIsLocked,
         At, Name, BareRepoPath
    <3>3. FoundIsWhole' /\ OrphanIsCut' /\ NewHasNone' /\ NoHalfClone'
      BY <3>1 DEF cacheVars, CacheInv, FoundIsWhole, Pulls, OrphanIsCut, NewHasNone,
         NoHalfClone, At, Name, BareRepoPath
    <3>4. QED
      BY <3>2, <3>3 DEF CacheInv
  <2>3. QED
    BY <2>1, <2>2
<1>2. ASSUME NEW s \in Sessions, NEW u \in URLs, NEW req \in ReqTokens, BootStart(s, u, req)
      PROVE  ProfileInv' /\ CacheInv'
  BY <1>2, BootStartKeeps, PutsKeep DEF BootStart, profVars, ProfileInv, ProfileTypes
<1>3. ASSUME NEW s \in Sessions,
             Ensure(s) \/ CloneEnds(s) \/ FetchEnds(s) \/ LocalClone(s) \/ CleanupWorkspace(s)
             \/ OrphanEnds(s)
      PROVE  ProfileInv' /\ CacheInv'
  <2>1. UNCHANGED profVars
    BY <1>3 DEF Ensure, CloneEnds, FetchEnds, LocalClone, CleanupWorkspace, OrphanEnds
  <2>2. ProfileInv'
    BY <2>1, PutsKeep DEF profVars, ProfileInv, ProfileTypes
  <2>3. QED
    BY <1>3, <2>2, EnsureKeeps, CloneEndsKeeps, FetchEndsKeeps, LocalCloneKeeps,
       CleanupWorkspaceKeeps, OrphanEndsKeeps
<1>4. ASSUME NEW s \in Sessions, BootFails(s)
      PROVE  ProfileInv' /\ CacheInv'
  <2>1. ProfileInv'
    BY <1>4, PutsKeep DEF BootFails, profVars, ProfileInv, ProfileTypes
  <2>2. CacheInv'
    BY <1>4, EndKeeps DEF BootFails, At, Closed
  <2>3. QED
    BY <2>1, <2>2
<1>5. ASSUME NEW s \in Sessions, Setup(s)
      PROVE  ProfileInv' /\ CacheInv'
  BY <1>5, SetupKeeps
<1>6. ASSUME NEW down \in BOOLEAN, Crash(down)
      PROVE  ProfileInv' /\ CacheInv'
  BY <1>6, CrashKeeps
<1>7. CASE UNCHANGED vars
  <2>1. ProfileInv'
    BY <1>7, PutsKeep DEF vars, profVars, ProfileInv, ProfileTypes
  <2>2. CacheInv'
    BY <1>7 DEF vars, cacheVars, CacheInv, CacheTypes, HolderAtWork, CloningIsPartial,
         PartialIsLocked, FoundIsWhole, Pulls, OrphanIsCut, NewHasNone, NoHalfClone,
         Name, BareRepoPath, At
  <2>3. QED
    BY <2>1, <2>2
<1>8. QED
  BY <1>1, <1>2, <1>3, <1>4, <1>5, <1>6, <1>7 DEF CacheNext, Step

\* The two invariants hold always; the theorems below are read off them.
THEOREM InvHolds == Spec => [](ProfileInv /\ CacheInv)
<1>1. ProfileInit /\ CacheInit => ProfileInv /\ CacheInv
  BY InitInv
<1>2. ProfileInv /\ CacheInv /\ [CacheNext]_vars => (ProfileInv /\ CacheInv)'
  BY NextInv
<1>3. QED
  BY <1>1, <1>2, PTL DEF Spec

\* The types are part of the invariant, and HolderAtWork has the mutexes.
LEMMA InvTypes ==
  ASSUME ProfileInv, CacheInv
  PROVE  TypeOK
<1>1. \A n \in Names : lock[n] = {} \/ \E s \in Sessions : lock[n] = {s}
  BY DEF CacheInv, CacheTypes, HolderAtWork
<1>2. \A s \in Sessions : boot[s].pc \in Working \cup Closed \cup {"new", "orphan"}
  BY DEF CacheInv, CacheTypes, Boots
<1>3. QED
  BY <1>1, <1>2 DEF TypeOK, ProfileInv, ProfileTypes, CacheInv, CacheTypes, Working, Closed

\* The tokens, boots and repositories have their types, and a mutex of the
\* repository cache (RepoCache.locks) has one holder at most.
THEOREM TypesAndMutex == Spec => []TypeOK
<1>1. QED
  BY InvTypes, InvHolds, PTL

\* A token that a PUT of /api/profile has stored is there until another PUT
\* replaces it, however many PUTs there are and whichever of them fail, as long
\* as none loads while another has yet to save.
THEOREM TokensAreKept == Spec => []TokensKept
<1>1. ProfileInv => TokensKept
  BY DEF ProfileInv
<1>2. QED
  BY <1>1, InvHolds, PTL

\* No boot makes its workspace from a bare repository that another is still
\* cloning: the local clone is made without the mutex, and needs none.
THEOREM NoHalfClones == Spec => []NoHalfClone
<1>1. CacheInv => NoHalfClone
  BY DEF CacheInv
<1>2. QED
  BY <1>1, InvHolds, PTL

------------------------------------------------------------------------------
\* The session store, the tokens and repositories, and the snapshots.  A step of
\* one leaves the variables of the others alone, so that each keeps its own
\* invariant.

LEMMA FilesNextInv ==
  ASSUME StoreInv, ProfileInv, CacheInv, SnapInv, [MCNext]_<<vars, storeVars, snapVars, part>>
  PROVE  StoreInv' /\ ProfileInv' /\ CacheInv' /\ SnapInv'
<1>1. [StoreNext]_storeVars /\ [CacheNext]_vars /\ [SnapNext]_snapVars
  BY DEF MCNext
<1>2. QED
  BY <1>1, NextStoreInv, NextInv, SnapNextInv

\* MCHostFiles: whatever the poc server's processes do with the files of the
\* host, and wherever they end, the session store, the profile, the bare
\* repositories, the workspaces and the snapshots hold what they are meant to
\* hold, and no two boots have the mutex of one bare repository.
THEOREM FilesTyped == MCSpec => []MCTypeOK
<1> DEFINE Inv == StoreInv /\ ProfileInv /\ CacheInv /\ SnapInv
<1>1. MCInit => Inv
  BY InitStoreInv, InitInv, SnapInitInv DEF MCInit
<1>2. Inv /\ [MCNext]_<<vars, storeVars, snapVars, part>> => Inv'
  BY FilesNextInv
<1>3. Inv => MCTypeOK
  BY InvTypes DEF MCTypeOK, StoreInv, SnapInv
<1>4. QED
  BY <1>1, <1>2, <1>3, PTL DEF MCSpec
====
