---- MODULE WorkflowEngineProofs ----
(***************************************************************************)
(* The safety properties of the workflow engine, for every number of       *)
(* tasks, workers, resumes, restarts and failing saves, under a premise    *)
(* about the behaviour that the code does not enforce: no goroutine is     *)
(* overtaken between the Get and the Upsert of one of its updates          *)
(* (NobodyOvertaken).  The run stage_lost has what happens when one is, so *)
(* that the theorems say that nothing else goes wrong.  The properties     *)
(* themselves end at the first Resume that meets a workflow which has not  *)
(* ended; the run early_resume has what follows from that.                 *)
(*                                                                         *)
(* The argument has two layers.  The slices of the store and of the file   *)
(* are read as tables, functions from stage ids to stages, and every write *)
(* is shown to change the table at one place, to extend it, or to bring    *)
(* back the saved one.  The invariant then speaks of the table and of the  *)
(* goroutines: what each of them relies on at each of its steps.           *)
(***************************************************************************)
EXTENDS WorkflowEngine, TLAPS, FiniteSetTheorems

\* Nobody is overtaken between the Get and the Upsert of an update: the header
\* that was read is still the stored one.  The code does not see to it (the run
\* stage_lost shows what happens otherwise), so it is a premise, of behaviours.
NobodyOvertaken == \A t \in DOMAIN thr : thr[t].base # NoVal => thr[t].base = store

Statuses == {"queued", "running", "done", "failed"}
Header   == [status : Statuses, arr : Nat, len : Nat]
Slots    == Seq(Stage \cup {NoVal})
D        == <<gen, Main>>
First    == {Research, Plan}

----------------------------------------------------------------------------
(* Slices and tables *)

\* The slice A[1..n] holds stages, each once.
Distinct(A, n) == \A i, j \in 1..n : A[i].id = A[j].id => i = j
Slice(A, n) ==
  /\ A \in Slots /\ n \in 2..Len(A)
  /\ \A i \in 1..n : A[i] \in Stage
  /\ Distinct(A, n)

Table(A, n) ==
  [id \in {A[i].id : i \in 1..n} |-> CHOOSE s \in {A[i] : i \in 1..n} : s.id = id]

tab  == IF store = NoVal THEN <<>> ELSE Table(heap[store.arr], store.len)
ftab == IF file = NoVal THEN <<>> ELSE Table(file.stages, Len(file.stages))

\* The arrays, the store's header and the file are what Go's types say, and
\* no stage id occurs twice.
MemInv ==
  /\ heap = [a \in DOMAIN heap |-> heap[a]]
  /\ \A a \in DOMAIN heap : heap[a] \in Slots
  /\ store # NoVal => /\ store \in Header /\ store.arr \in DOMAIN heap
                      /\ Slice(heap[store.arr], store.len)
  /\ file # NoVal => /\ file \in [status : Statuses, stages : Seq(Stage)]
                     /\ Slice(file.stages, Len(file.stages))
  /\ saveFails \in Nat

Is(id, st)  == id \in DOMAIN tab /\ tab[id].status = st
Verified(b) == Is(<<"verify", b>>, "done") /\ VerifierPasses(tab[<<"verify", b>>].output)
NoFailed    == \A id \in DOMAIN tab : tab[id].status # "failed"

\* What DoneIsVerified says, of a table.
Complete(T) ==
  /\ \E id \in DOMAIN T : KindOf(id) = "implement"
  /\ \A id \in DOMAIN T : KindOf(id) = "implement" =>
       /\ T[id].status = "done" /\ VerifyOf(id) \in DOMAIN T
       /\ T[VerifyOf(id)].status = "done" /\ VerifierPasses(T[VerifyOf(id)].output)
  /\ Merge \in DOMAIN T /\ T[Merge].status = "done"

\* Research and plan come first and are done before any other stage is
\* added; the merge stage never gets an input, so it is never resumed.
Grows(T) ==
  /\ First \subseteq DOMAIN T
  /\ DOMAIN T # First => T[Research].status = "done" /\ T[Plan].status = "done"
  /\ Merge \in DOMAIN T => T[Merge].input = ""
TabInv ==
  /\ store # NoVal => Grows(tab)
  /\ store # NoVal /\ store.status = "done" /\ resumes = 0 /\ ~isDemo => Complete(tab)
  /\ file # NoVal => Grows(ftab)
  /\ file # NoVal /\ file.status = "done" /\ resumes = 0 /\ ~isDemo => Complete(ftab)

\* As long as no save failed, the file holds what the memory holds.
Synced ==
  saveFails = 0 /\ store # NoVal =>
    file # NoVal /\ file.status = store.status /\ ftab = tab

----------------------------------------------------------------------------
(* Goroutines *)

Busy      == {"create", "record", "wait", "done", "failing"}
DriverPCs == {"submit", "find", "start", "reload", "addtasks", "fanout", "join", "addmerge",
              "merging", "finish", "failwf"} \cup Busy
WorkerPCs == {"sem", "start", "validate", "addverify", "note", "judge", "reject"} \cup Busy
PCs       == DriverPCs \cup WorkerPCs \cup
             {"resumefan", "demostart", "demodone", "demotasks", "demofinish"}
MergeResults == [merged : SUBSET Tasks, err : BOOLEAN]
Thread ==
  [pc : PCs, role : {"driver", "worker", "resume", "resumed", "demo", "demoworker"},
   stage : StageIds, task : StageIds, prompt : {"", "task", StagePrompt},
   base : {NoVal} \cup Header, at : Nat,
   result : {NoVal} \cup (UNION {Results(k) : k \in {"research", "plan", "implement", "verify"}})
            \cup MergeResults,
   err : BOOLEAN, good : SUBSET Tasks]

\* All goroutines are of the last driver, which waits while it has workers.
\* A finished workflow has none, an unfinished one has, unless a save failed.
ThrInv ==
  /\ thr \in [DOMAIN thr -> Thread]
  /\ DOMAIN thr \subseteq {gen} \X (StageIds \cup {Main})
  /\ DOMAIN thr # {} => /\ gen # 0 /\ D \in DOMAIN thr /\ store # NoVal /\ file # NoVal
                        /\ store.status \in {"queued", "running"}
  /\ \A t \in DOMAIN thr : t # D => thr[D].pc = "join"
  /\ store # NoVal /\ saveFails = 0 /\ store.status \in {"queued", "running"} => DOMAIN thr # {}

\* The counters, and what there is before the first save: a workflow whose
\* submission was not saved has no driver.
CountInv ==
  /\ {gen, resumes, crashes} \subseteq Nat /\ isDemo \in BOOLEAN /\ (isDemo => TRUE \in Demos)
  /\ resumes <= MaxResumes /\ crashes <= MaxCrashes /\ gen <= 1 + resumes + crashes
  /\ store = NoVal => gen = 0 /\ file = NoVal
  /\ file = NoVal => gen = 0
  /\ file = NoVal /\ store # NoVal => store.status \in {"queued", "running"}
  /\ trunk \subseteq Tasks /\ rawRuns \subseteq StageIds

\* A header read by Get is still the stored one at the Upsert.
HeldInv ==
  \A t \in DOMAIN thr : thr[t].base # NoVal =>
    /\ thr[t].base = store /\ thr[t].role \in Stalled /\ thr[t].pc \in WritePCs
    /\ thr[t].at = stageIndex(store, Subject(t))

\* The two stages the driver works through, one after the other.
TwoOnly(t) == DOMAIN tab = First /\ (thr[t].stage = Plan => Is(Research, "done"))

Driver(t) ==
  LET p == thr[t].pc
      s == thr[t].stage IN
  /\ p \in DriverPCs /\ thr[t].prompt = StagePrompt
  /\ p \in {"find", "start", "reload", "addtasks"} \cup Busy => s \in First
  /\ p = "submit" => s = Research
  /\ p = "find" => s = Research \/ TwoOnly(t)
  /\ p \in {"start", "reload", "addtasks"} \cup Busy => TwoOnly(t)
  /\ p = "start" => Is(s, "pending")
  /\ p \in Busy => Is(s, "running")
  /\ p \in {"reload", "addtasks"} => Is(s, "done")
  /\ p = "reload" => tab[s].output \in Results(KindOf(s)) \ {LimitText}
  /\ p = "done" => thr[t].result \in Results(KindOf(s)) \ {LimitText}
  /\ p = "addtasks" => s = Plan /\ thr[t].result \in PlanOutputs /\ ValidatePlanOutput(thr[t].result)
  /\ p \in {"fanout", "join", "addmerge"} => Merge \notin DOMAIN tab
  /\ p \in {"fanout", "join", "addmerge", "merging", "finish"} =>
       \E id \in DOMAIN tab : KindOf(id) = "implement"
  /\ p = "fanout" => \A id \in DOMAIN tab : (KindOf(id) = "implement" /\ Is(id, "pending")) \/ id \in First
  /\ p \in {"merging", "finish"} => s = Merge /\ Is(Merge, "running")
  /\ p = "finish" => thr[t].result \in MergeResults
  /\ \A b \in thr[t].good : Verified(b)
  /\ p \in {"join", "addmerge", "merging", "finish"} /\ ~thr[t].err =>
       \A id \in DOMAIN tab : KindOf(id) = "implement" =>
         <<t[1], id>> \in DOMAIN thr \/ (Is(id, "done") /\ Verified(id[2]))

ResumeDriver(t) == thr[t].pc \in {"resumefan", "join", "finish"} /\ thr[t].stage = Merge /\ resumes > 0

DemoDriver(t) ==
  LET p == thr[t].pc
      s == thr[t].stage IN
  /\ isDemo
  /\ p \in {"demostart", "demodone", "demotasks", "join", "demofinish"} /\ s \in First
  /\ p \in {"demostart", "demodone", "demotasks"} => TwoOnly(t)
  /\ p = "demostart" => Is(s, "pending")
  /\ p = "demodone" => Is(s, "running")
  /\ p \in {"demostart", "demodone"} /\ s = Research => Is(Plan, "pending")
  /\ p = "demotasks" => s = Plan /\ Is(s, "done")
  /\ p # "demostart" \/ s # Research => store.status = "running"

Worker(t) ==
  LET p == thr[t].pc
      s == thr[t].stage
      k == thr[t].task IN
  /\ p \in WorkerPCs /\ thr[t].prompt = StagePrompt
  /\ k = t[2] /\ KindOf(k) = "implement" /\ s \in {k, VerifyOf(k)} /\ k \in DOMAIN tab
  /\ p \in {"sem", "validate", "addverify"} => s = k
  /\ p \in {"note", "judge"} => s = VerifyOf(k)
  /\ s # k => Is(k, "done") /\ s \in DOMAIN tab
  /\ s = k => VerifyOf(k) \notin DOMAIN tab
  /\ p \in {"sem", "start"} => Is(s, "pending")
  /\ p \in Busy => Is(s, "running")
  /\ p = "done" => thr[t].result \in Results(KindOf(s)) \ {LimitText}
  /\ p \in {"validate", "addverify", "judge"} => Is(s, "done")
  /\ p = "reject" => Is(k, "done")
  /\ p = "reject" /\ s # k => Is(s, "done")
  /\ p = "note" /\ ~thr[t].err => Is(s, "done")
  /\ p = "note" /\ saveFails = 0 => tab[s].status # "running"
  /\ p # "note" => ~thr[t].err

Resumed(t) ==
  LET p == thr[t].pc
      s == thr[t].stage IN
  /\ p \in {"sem", "start"} \cup Busy
  /\ s = t[2] /\ KindOf(s) # "merge"
  /\ p \in {"sem", "start"} => Is(s, "pending")
  /\ p \in Busy => Is(s, "running")
  /\ p = "done" => thr[t].result \in Results(KindOf(s)) \ {LimitText}
  /\ thr[t].prompt # ""

DemoWorker(t) ==
  LET p == thr[t].pc
      s == thr[t].stage IN
  /\ p \in {"demostart", "demodone"} /\ s = t[2] /\ KindOf(s) = "implement"
  /\ p = "demostart" => Is(s, "pending")
  /\ p = "demodone" => Is(s, "running")

\* What a goroutine relies on, by its role.
Local(t) ==
  /\ t = D => \/ thr[t].role = "driver" /\ Driver(t)
              \/ thr[t].role = "resume" /\ ResumeDriver(t)
              \/ thr[t].role = "demo" /\ DemoDriver(t)
  /\ t # D => \/ thr[t].role = "worker" /\ thr[D].role = "driver" /\ Worker(t)
              \/ thr[t].role = "resumed" /\ thr[D].role = "resume" /\ Resumed(t)
              \/ thr[t].role = "demoworker" /\ thr[D].role = "demo" /\ DemoWorker(t)
LocalInv == \A t \in DOMAIN thr : Local(t)

----------------------------------------------------------------------------
(* What the properties need besides *)

Owns(t, id) ==
  /\ thr[t].stage = id
  /\ \/ thr[t].pc \in Busy \cup {"demodone"}
     \/ thr[t].role = "driver" /\ thr[t].pc \in {"merging", "finish"}
\* Within one life, a running stage has a goroutine that will end it.
RunInv ==
  crashes = 0 /\ saveFails = 0 =>
    \A id \in DOMAIN tab : tab[id].status = "running" => \E t \in DOMAIN thr : Owns(t, id)

\* A goroutine that is to start a session, or has, finds its stage running
\* in the file.
PersistInv ==
  \A t \in DOMAIN thr : thr[t].pc \in {"create", "record", "wait"} =>
    thr[t].stage \in DOMAIN ftab /\ ftab[thr[t].stage].status = "running"

WaitsFor(t, id) == thr[t].stage = id /\ thr[t].role = "worker" /\ thr[t].pc \in {"sem", "start"}
Awaited(id) ==
  /\ tab[id].status = "pending"
  /\ \/ \E t \in DOMAIN thr : WaitsFor(t, id)
     \/ /\ NoFailed
        /\ DOMAIN thr # {} => thr[D].role = "driver" /\ thr[D].pc \in {"fanout", "failwf"}
\* Within one life only stages that a worker is to start, with a prompt of
\* its own, have a bare task for input; none of them can be resumed.
PromptInv ==
  crashes = 0 =>
    /\ rawRuns = {}
    /\ \A t \in DOMAIN thr : thr[t].prompt # "task"
    /\ isDemo => NoFailed /\ \A t \in DOMAIN thr : thr[t].role \in {"demo", "demoworker"}
    /\ ~isDemo => \A id \in DOMAIN tab : tab[id].input = "task" => Awaited(id)

TrunkInv == saveFails = 0 => \A b \in trunk : Verified(b)

Inv ==
  /\ MemInv /\ TabInv /\ Synced
  /\ ThrInv /\ CountInv /\ HeldInv /\ LocalInv
  /\ RunInv /\ PersistInv /\ PromptInv /\ TrunkInv

----------------------------------------------------------------------------
(* Lemmas on slices and tables *)

\* A slice's table maps the id of each of its stages to that stage, and
\* nothing else does.
LEMMA TableAt ==
  ASSUME NEW A, NEW n \in Nat, Distinct(A, n)
  PROVE  /\ DOMAIN Table(A, n) = {A[i].id : i \in 1..n}
         /\ \A i \in 1..n : Table(A, n)[A[i].id] = A[i]
<1>1. DOMAIN Table(A, n) = {A[i].id : i \in 1..n}
  BY DEF Table
<1>2. ASSUME NEW i \in 1..n
      PROVE  Table(A, n)[A[i].id] = A[i]
  <2> DEFINE S == {A[j] : j \in 1..n}
  <2>1. A[i] \in S /\ \A s \in S : s.id = A[i].id => s = A[i]
    BY DEF Distinct
  <2>2. (CHOOSE s \in S : s.id = A[i].id) = A[i]
    BY <2>1
  <2>3. A[i].id \in {A[j].id : j \in 1..n}
    OBVIOUS
  <2> HIDE DEF S
  <2>4. QED
    BY <2>2, <2>3 DEF Table, S
<1>3. QED
  BY <1>1, <1>2

\* A function that maps the id of each stage of a slice to it is its table.
LEMMA TableIs ==
  ASSUME NEW A, NEW n \in Nat, Distinct(A, n),
         NEW T, T = [id \in DOMAIN T |-> T[id]],
         \A id \in DOMAIN T : \E i \in 1..n : A[i].id = id,
         \A i \in 1..n : A[i].id \in DOMAIN T /\ T[A[i].id] = A[i]
  PROVE  Table(A, n) = T
<1>0. /\ DOMAIN Table(A, n) = {A[i].id : i \in 1..n}
      /\ \A i \in 1..n : Table(A, n)[A[i].id] = A[i]
  BY TableAt
<1>1. DOMAIN Table(A, n) = DOMAIN T
  BY <1>0
<1>2. \A id \in DOMAIN T : Table(A, n)[id] = T[id]
  BY <1>0
<1>3. Table(A, n) = [id \in DOMAIN Table(A, n) |-> Table(A, n)[id]]
  BY DEF Table
<1>4. QED
  BY <1>1, <1>2, <1>3

\* The table of a slice maps stage ids to stages with those ids.
LEMMA TableTypes ==
  ASSUME NEW A, NEW n, Slice(A, n)
  PROVE  /\ Table(A, n) = [id \in DOMAIN Table(A, n) |-> Table(A, n)[id]]
         /\ DOMAIN Table(A, n) \subseteq StageIds
         /\ \A id \in DOMAIN Table(A, n) : Table(A, n)[id] \in Stage /\ Table(A, n)[id].id = id
         /\ \A id \in DOMAIN Table(A, n) : \E i \in 1..n : A[i].id = id /\ Table(A, n)[id] = A[i]
<1>1. n \in Nat
  BY DEF Slice, Slots
<1>2. Table(A, n) = [id \in DOMAIN Table(A, n) |-> Table(A, n)[id]]
  BY DEF Table
<1>3. \A id \in DOMAIN Table(A, n) : \E i \in 1..n : A[i].id = id /\ Table(A, n)[id] = A[i]
  <2>1. /\ DOMAIN Table(A, n) = {A[i].id : i \in 1..n}
        /\ \A i \in 1..n : Table(A, n)[A[i].id] = A[i]
    BY <1>1, TableAt DEF Slice
  <2>2. QED
    BY <2>1
<1>4. \A i \in 1..n : A[i] \in Stage /\ A[i].id \in StageIds
  BY DEF Slice, Stage
<1>5. QED
  BY <1>2, <1>3, <1>4

\* Each stage of a slice is in its table, under its id.
LEMMA SliceAt ==
  ASSUME NEW A, NEW n, Slice(A, n), NEW i \in 1..n
  PROVE  A[i].id \in DOMAIN Table(A, n) /\ Table(A, n)[A[i].id] = A[i]
<1>1. n \in Nat
  BY DEF Slice, Slots
<1>2. /\ DOMAIN Table(A, n) = {A[j].id : j \in 1..n}
      /\ \A j \in 1..n : Table(A, n)[A[j].id] = A[j]
  BY <1>1, TableAt DEF Slice
<1>3. QED
  BY <1>2

\* A copy of a slice, in an array of any capacity, has the same table.
LEMMA SliceCopy ==
  ASSUME NEW A, NEW n, Slice(A, n), NEW B \in Slots, n <= Len(B), \A i \in 1..n : B[i] = A[i]
  PROVE  Slice(B, n) /\ Table(B, n) = Table(A, n)
<1>1. n \in Nat /\ n \in 2..Len(B)
  BY DEF Slice, Slots
<1>2. Slice(B, n)
  BY <1>1 DEF Slice, Distinct
<1>3. Table(B, n) = Table(A, n)
  <2> DEFINE T == Table(A, n)
  <2>1. T = [id \in DOMAIN T |-> T[id]]
    BY TableTypes
  <2>2. \A id \in DOMAIN T : \E i \in 1..n : B[i].id = id
    BY TableTypes
  <2>3. \A i \in 1..n : B[i].id \in DOMAIN T /\ T[B[i].id] = B[i]
    BY SliceAt
  <2>4. Distinct(B, n)
    BY <1>2 DEF Slice
  <2> HIDE DEF T
  <2>5. Table(B, n) = T
    BY <1>1, <2>1, <2>2, <2>3, <2>4, TableIs
  <2>6. QED
    BY <2>5 DEF T
<1>4. QED
  BY <1>2, <1>3

\* Stages replaced by stages with the same ids.
LEMMA SliceMap ==
  ASSUME NEW A, NEW n, Slice(A, n), NEW B \in Slots, n <= Len(B),
         \A i \in 1..n : B[i] \in Stage /\ B[i].id = A[i].id
  PROVE  /\ Slice(B, n) /\ DOMAIN Table(B, n) = DOMAIN Table(A, n)
         /\ \A i \in 1..n : Table(B, n)[A[i].id] = B[i]
<1>1. n \in Nat /\ n \in 2..Len(B)
  BY DEF Slice, Slots
<1>2. Slice(B, n)
  BY <1>1 DEF Slice, Distinct
<1>3. /\ DOMAIN Table(A, n) = {A[i].id : i \in 1..n}
      /\ DOMAIN Table(B, n) = {B[i].id : i \in 1..n}
  BY DEF Table
<1>4. \A i \in 1..n : Table(B, n)[B[i].id] = B[i]
  BY <1>2, SliceAt
<1>5. QED
  BY SMTT(40), <1>2, <1>3, <1>4

\* One stage replaced: wf.Stages[i] = v.
LEMMA SlicePut ==
  ASSUME NEW A, NEW n, Slice(A, n), NEW i \in 1..n, NEW v \in Stage, v.id = A[i].id
  PROVE  /\ Slice([A EXCEPT ![i] = v], n)
         /\ Table([A EXCEPT ![i] = v], n) = [Table(A, n) EXCEPT ![v.id] = v]
<1> DEFINE B == [A EXCEPT ![i] = v]
<1> DEFINE T == [Table(A, n) EXCEPT ![v.id] = v]
<1>1. /\ n \in Nat /\ n \in 2..Len(A) /\ A \in Slots /\ i \in 1..Len(A)
      /\ \A j \in 1..n : A[j] \in Stage
  BY DEF Slice, Slots
<1>2. B \in Slots /\ Len(B) = Len(A)
  BY <1>1 DEF Slots
<1>3. \A j \in 1..n : B[j] = IF j = i THEN v ELSE A[j]
  BY <1>1 DEF Slots
<1>4. Slice(B, n)
  <2>1. \A j \in 1..n : B[j] \in Stage /\ B[j].id = A[j].id
    BY <1>1, <1>3
  <2> HIDE DEF B
  <2>2. QED
    BY <1>1, <1>2, <2>1, SliceMap
<1>5. T = [id \in DOMAIN T |-> T[id]] /\ DOMAIN T = DOMAIN Table(A, n)
  BY TableTypes
<1>6. \A id \in DOMAIN T : \E j \in 1..n : B[j].id = id
  <2>1. \A id \in DOMAIN T : \E j \in 1..n : A[j].id = id
    BY <1>5, TableTypes
  <2>2. QED
    BY <1>3, <2>1
<1>7. \A j \in 1..n : B[j].id \in DOMAIN T /\ T[B[j].id] = B[j]
  <2>1. ASSUME NEW j \in 1..n
        PROVE  B[j].id \in DOMAIN T /\ T[B[j].id] = B[j]
    <3>1. A[j].id \in DOMAIN Table(A, n) /\ Table(A, n)[A[j].id] = A[j]
      BY SliceAt
    <3>2. j # i => A[j].id # A[i].id
      BY DEF Slice, Distinct
    <3>3. CASE j = i
      BY <1>3, <3>1, <3>3
    <3>4. CASE j # i
      BY <1>3, <3>1, <3>2, <3>4
    <3>5. QED
      BY <3>3, <3>4
  <2>2. QED
    BY <2>1
<1>8. Distinct(B, n)
  BY <1>4 DEF Slice
<1> HIDE DEF B, T
<1>9. Table(B, n) = T
  BY SMTT(40), <1>1, <1>5, <1>6, <1>7, <1>8, TableIs
<1>10. QED
  BY <1>4, <1>9 DEF B, T

\* Stages appended: their table is added to the slice's.
Extended(T, new) == [id \in DOMAIN T \cup DOMAIN new |-> IF id \in DOMAIN T THEN T[id] ELSE new[id]]

\* A slice followed by stages with new ids.
LEMMA SliceAppend ==
  ASSUME NEW A, NEW n, Slice(A, n), NEW new \in Seq(Stage), Distinct(new, Len(new)),
         \A i \in 1..Len(new) : new[i].id \notin DOMAIN Table(A, n),
         NEW B \in Slots, n + Len(new) <= Len(B),
         \A i \in 1..n : B[i] = A[i], \A i \in 1..Len(new) : B[n + i] = new[i]
  PROVE  /\ Slice(B, n + Len(new))
         /\ Table(B, n + Len(new)) = Extended(Table(A, n), Table(new, Len(new)))
<1> DEFINE m == Len(new)
<1> DEFINE T == Extended(Table(A, n), Table(new, m))
<1>1. /\ n \in Nat /\ n \in 2..Len(A) /\ m \in Nat /\ Len(B) \in Nat
      /\ \A i \in 1..n : A[i] \in Stage
      /\ \A i \in 1..m : new[i] \in Stage
  BY DEF Slice, Slots
<1>2. \A k \in 1..(n + m) : k \in 1..n \/ (k - n \in 1..m /\ k = n + (k - n))
  BY <1>1
<1>3. \A k \in 1..(n + m) : B[k] = IF k \in 1..n THEN A[k] ELSE new[k - n]
  BY <1>1, <1>2
<1>4. \A i \in 1..n : A[i].id \in DOMAIN Table(A, n) /\ Table(A, n)[A[i].id] = A[i]
  BY SliceAt
<1>5. /\ DOMAIN Table(new, m) = {new[i].id : i \in 1..m}
      /\ \A i \in 1..m : Table(new, m)[new[i].id] = new[i]
  BY <1>1, TableAt
<1>6. Distinct(B, n + m)
  <2>1. ASSUME NEW k \in 1..(n + m), NEW l \in 1..(n + m), B[k].id = B[l].id
        PROVE  k = l
    <3>1. CASE k \in 1..n /\ l \in 1..n
      BY <1>3, <2>1, <3>1 DEF Slice, Distinct
    <3>2. CASE k \in 1..n /\ l \notin 1..n
      <4>1. l - n \in 1..m /\ A[k].id = new[l - n].id
        BY <1>2, <1>3, <2>1, <3>2
      <4>2. QED
        BY <1>4, <3>2, <4>1
    <3>3. CASE k \notin 1..n /\ l \in 1..n
      <4>1. k - n \in 1..m /\ A[l].id = new[k - n].id
        BY <1>2, <1>3, <2>1, <3>3
      <4>2. QED
        BY <1>4, <3>3, <4>1
    <3>4. CASE k \notin 1..n /\ l \notin 1..n
      <4>1. k - n \in 1..m /\ l - n \in 1..m /\ new[k - n].id = new[l - n].id
        BY <1>1, <1>2, <1>3, <2>1, <3>4
      <4>2. k - n = l - n
        BY <4>1 DEF Distinct
      <4>3. QED
        BY <1>1, <4>2
    <3>5. QED
      BY <3>1, <3>2, <3>3, <3>4
  <2>2. QED
    BY <2>1 DEF Distinct
<1>7. Slice(B, n + m)
  <2>1. \A k \in 1..(n + m) : B[k] \in Stage
    BY <1>1, <1>2, <1>3
  <2>2. n + m \in 2..Len(B)
    BY <1>1
  <2>3. QED
    BY <1>6, <2>1, <2>2 DEF Slice
<1>8. /\ T = [id \in DOMAIN T |-> T[id]]
      /\ DOMAIN T = DOMAIN Table(A, n) \cup DOMAIN Table(new, m)
      /\ \A id \in DOMAIN T :
           T[id] = IF id \in DOMAIN Table(A, n) THEN Table(A, n)[id] ELSE Table(new, m)[id]
  BY DEF Extended
<1> HIDE DEF T
<1>9. \A k \in 1..(n + m) : B[k].id \in DOMAIN T /\ T[B[k].id] = B[k]
  <2>1. \A i \in 1..n : A[i].id \in DOMAIN T /\ T[A[i].id] = A[i]
    BY <1>4, <1>8
  <2>2. \A i \in 1..m : new[i].id \in DOMAIN T /\ T[new[i].id] = new[i]
    BY <1>5, <1>8
  <2>3. QED
    BY <1>2, <1>3, <2>1, <2>2
<1>10. \A id \in DOMAIN T : \E k \in 1..(n + m) : B[k].id = id
  <2>1. ASSUME NEW id \in DOMAIN Table(A, n)
        PROVE  \E k \in 1..(n + m) : B[k].id = id
    <3>1. PICK i \in 1..n : A[i].id = id
      BY TableTypes
    <3>2. i \in 1..(n + m)
      BY <1>1
    <3>3. QED
      BY <1>3, <3>1, <3>2
  <2>2. ASSUME NEW id \in DOMAIN Table(new, m)
        PROVE  \E k \in 1..(n + m) : B[k].id = id
    <3>1. PICK i \in 1..m : new[i].id = id
      BY <1>5, <2>2
    <3>2. n + i \in 1..(n + m) /\ B[n + i] = new[i]
      BY <1>1
    <3>3. QED
      BY <3>1, <3>2
  <2>3. QED
    BY <1>8, <2>1, <2>2
<1>11. Table(B, n + m) = T
  <2> DEFINE l == n + m
  <2>1. l \in Nat
    BY <1>1
  <2>2. /\ Distinct(B, l)
        /\ \A k \in 1..l : B[k].id \in DOMAIN T /\ T[B[k].id] = B[k]
        /\ \A id \in DOMAIN T : \E k \in 1..l : B[k].id = id
    BY <1>6, <1>9, <1>10
  <2> HIDE DEF l
  <2>3. Table(B, l) = T
    BY <1>8, <2>1, <2>2, TableIs
  <2>4. QED
    BY <2>3 DEF l
<1>12. QED
  BY <1>7, <1>11 DEF T

----------------------------------------------------------------------------
(* What the writes of the store do to the tables *)

\* The tables of the store and of the file map stage ids to stages.
LEMMA TabFacts ==
  ASSUME MemInv
  PROVE  /\ store # NoVal =>
              /\ tab = [id \in DOMAIN tab |-> tab[id]] /\ DOMAIN tab \subseteq StageIds
              /\ \A id \in DOMAIN tab : tab[id] \in Stage /\ tab[id].id = id
         /\ file # NoVal =>
              /\ ftab = [id \in DOMAIN ftab |-> ftab[id]] /\ DOMAIN ftab \subseteq StageIds
              /\ \A id \in DOMAIN ftab : ftab[id] \in Stage /\ ftab[id].id = id
  BY TableTypes DEF MemInv, tab, ftab

\* stageIndex finds the stage of the table.
LEMMA IndexOf ==
  ASSUME MemInv, store # NoVal, NEW id
  PROVE  /\ id \in DOMAIN tab => /\ stageIndex(store, id) \in 1..store.len
                                 /\ heap[store.arr][stageIndex(store, id)] = tab[id]
                                 /\ heap[store.arr][stageIndex(store, id)].id = id
         /\ id \notin DOMAIN tab => stageIndex(store, id) = 0
<1> DEFINE A == heap[store.arr]
<1> DEFINE n == store.len
<1> DEFINE at == {i \in 1..n : A[i].id = id}
<1>1. Slice(A, n) /\ tab = Table(A, n)
  BY DEF MemInv, tab
<1>2. \A i \in 1..n : A[i].id \in DOMAIN tab /\ tab[A[i].id] = A[i]
  BY <1>1, SliceAt
<1>3. stageIndex(store, id) = IF at = {} THEN 0 ELSE CHOOSE i \in at : \A j \in at : i <= j
  BY DEF stageIndex
<1>4. ASSUME id \in DOMAIN tab
      PROVE  stageIndex(store, id) \in 1..n /\ A[stageIndex(store, id)].id = id
  <2>1. PICK i \in 1..n : A[i].id = id
    BY <1>1, <1>4, TableTypes
  <2>2. at = {i}
    BY <1>1, <2>1 DEF Slice, Distinct
  <2>3. (CHOOSE j \in at : \A k \in at : j <= k) = i
    BY <2>2
  <2>4. QED
    BY <1>3, <2>1, <2>2, <2>3
<1>5. ASSUME id \notin DOMAIN tab
      PROVE  stageIndex(store, id) = 0
  BY <1>2, <1>3, <1>5
<1>6. QED
  BY <1>2, <1>4, <1>5

\* The file after an Upsert that saved, or whose save failed.
Saved(ok) ==
  /\ ok => file' # NoVal /\ file'.status = store'.status /\ ftab' = tab' /\ saveFails' = saveFails
  /\ ~ok => file' = file /\ ftab' = ftab /\ saveFails' = saveFails + 1

\* What Upsert does to the memory, the table and the file.
LEMMA SaveEffect ==
  ASSUME MemInv, NEW hp, NEW h \in Header, NEW ok \in BOOLEAN, Upsert(hp, h, ok),
         Slice(hp[h.arr], h.len), \A a \in HeldArrs : hp[a] \in Slots
  PROVE  /\ MemInv' /\ store' = h /\ store' # NoVal /\ heap'[h.arr] = hp[h.arr]
         /\ tab' = Table(hp[h.arr], h.len)
         /\ Saved(ok)
<1>1. /\ heap' = [a \in {h.arr} \cup HeldArrs |-> hp[a]] /\ store' = h
      /\ file' = IF ok THEN [status |-> h.status, stages |-> View(hp, h)] ELSE file
      /\ saveFails' = saveFails + IF ok THEN 0 ELSE 1
  BY DEF Upsert
<1>2. h # NoVal /\ store' # NoVal
  BY <1>1, NoValAssumption DEF Header, Statuses
<1>3. /\ DOMAIN heap' = {h.arr} \cup HeldArrs /\ heap'[h.arr] = hp[h.arr]
      /\ heap' = [a \in DOMAIN heap' |-> heap'[a]]
      /\ \A a \in DOMAIN heap' : heap'[a] \in Slots
  BY <1>1 DEF Slice
<1>4. tab' = Table(hp[h.arr], h.len)
  BY <1>1, <1>2, <1>3 DEF tab
<1>5. saveFails \in Nat
  BY DEF MemInv
<1>6. CASE ok
  <2> DEFINE V == View(hp, h)
  <2> DEFINE A == hp[h.arr]
  <2>1. A \in Slots /\ h.len \in 2..Len(A) /\ \A i \in 1..h.len : A[i] \in Stage
    BY DEF Slice
  <2>2. V = [i \in 1..h.len |-> A[i]] /\ Len(V) = h.len
    BY <2>1 DEF View, Slots
  <2>3. V \in Seq(Stage) /\ V \in Slots
    BY SMTT(40), <2>1, <2>2 DEF Slots
  <2>4. \A i \in 1..h.len : V[i] = A[i]
    BY <2>2
  <2> HIDE DEF V, A
  <2>5. Slice(V, h.len) /\ Table(V, h.len) = Table(A, h.len)
    <3>1. Slice(A, h.len) /\ h.len <= Len(V)
      BY <2>1, <2>2 DEF A, Slots, Header
    <3>2. QED
      BY <2>3, <2>4, <3>1, SliceCopy
  <2>6. file' = [status |-> h.status, stages |-> V]
    BY <1>1, <1>6 DEF V
  <2>7. file' \in [status : Statuses, stages : Seq(Stage)]
    BY <2>3, <2>6 DEF Header
  <2>8. file' # NoVal
    BY <2>7, NoValAssumption DEF Statuses
  <2>9. ftab' = Table(V, h.len)
    BY <2>2, <2>6, <2>8 DEF ftab
  <2>10. Slice(file'.stages, Len(file'.stages))
    BY <2>2, <2>5, <2>6
  <2>11. saveFails' = saveFails
    BY <1>1, <1>5, <1>6
  <2>12. MemInv'
    BY <1>1, <1>3, <1>5, <2>7, <2>10, <2>11 DEF MemInv
  <2>13. Saved(ok)
    BY <1>1, <1>4, <1>6, <2>5, <2>6, <2>8, <2>9, <2>11 DEF Saved, A
  <2>14. QED
    BY <1>1, <1>2, <1>3, <1>4, <2>12, <2>13
<1>7. CASE ~ok
  <2>1. file' = file /\ saveFails' = saveFails + 1
    BY <1>1, <1>7
  <2>2. ftab' = ftab
    BY <2>1 DEF ftab
  <2>3. MemInv'
    <3>1. file' # NoVal => /\ file' \in [status : Statuses, stages : Seq(Stage)]
                           /\ Slice(file'.stages, Len(file'.stages))
      BY <2>1 DEF MemInv
    <3>2. saveFails' \in Nat
      BY <1>5, <2>1
    <3>3. QED
      BY <1>1, <1>3, <3>1, <3>2 DEF MemInv
  <2>4. QED
    BY <1>1, <1>2, <1>3, <1>4, <1>7, <2>1, <2>2, <2>3 DEF Saved
<1>8. QED
  BY <1>6, <1>7

\* Under HeldInv every write is based on the stored header.
LEMMA BaseIs ==
  ASSUME HeldInv, NEW t \in DOMAIN thr
  PROVE  Base(t) = store /\ At(t) = stageIndex(store, Subject(t))
  BY DEF HeldInv, Base, At

\* No array but the stored one is held on to.
LEMMA HeldIs ==
  ASSUME HeldInv
  PROVE  HeldArrs \subseteq {store.arr}
  BY DEF HeldInv, HeldArrs

\* A write of one stage, and perhaps of the status.
SameIndex == \A id \in StageIds : stageIndex(store, id)' = stageIndex(store, id)
Wrote(x, v, st, ok) ==
  /\ MemInv' /\ store' = [store EXCEPT !.status = st] /\ store' # NoVal /\ store'.status = st
  /\ tab' = [tab EXCEPT ![x] = v] /\ SameIndex
  /\ Saved(ok)

\* Upsert after wf.Stages[i] = v changes the table at one place.
LEMMA PutEffect ==
  ASSUME MemInv, HeldInv, store # NoVal, NEW x \in DOMAIN tab, NEW v \in Stage, v.id = x,
         NEW st \in Statuses, NEW ok \in BOOLEAN,
         Upsert([heap EXCEPT ![store.arr][stageIndex(store, x)] = v],
                [store EXCEPT !.status = st], ok)
  PROVE  Wrote(x, v, st, ok)
<1> DEFINE i == stageIndex(store, x)
<1> DEFINE A == heap[store.arr]
<1> DEFINE hp == [heap EXCEPT ![store.arr][i] = v]
<1> DEFINE h == [store EXCEPT !.status = st]
<1>1. /\ store \in Header /\ store.arr \in DOMAIN heap /\ Slice(A, store.len)
      /\ heap = [a \in DOMAIN heap |-> heap[a]]
  BY DEF MemInv
<1>2. i \in 1..store.len /\ A[i].id = x
  BY IndexOf
<1>3. h \in Header /\ h.arr = store.arr /\ h.len = store.len /\ h.status = st
  BY <1>1 DEF Header
<1>4. hp[store.arr] = [A EXCEPT ![i] = v]
  BY <1>1
<1> HIDE DEF i, A, hp, h
<1>5. Slice(hp[h.arr], h.len) /\ Table(hp[h.arr], h.len) = [tab EXCEPT ![x] = v]
  <2>1. tab = Table(A, store.len)
    BY DEF tab, A
  <2>2. QED
    BY <1>1, <1>2, <1>3, <1>4, <2>1, SlicePut
<1>6. \A a \in HeldArrs : hp[a] \in Slots
  BY <1>3, <1>5, HeldIs DEF Slice
<1>7. Upsert(hp, h, ok)
  BY DEF hp, h, i
<1>8. /\ MemInv' /\ store' = h /\ store' # NoVal /\ heap'[h.arr] = hp[h.arr]
      /\ tab' = Table(hp[h.arr], h.len) /\ Saved(ok)
  BY <1>3, <1>5, <1>6, <1>7, SaveEffect
<1>9. SameIndex
  <2>1. heap'[store'.arr] = [A EXCEPT ![i] = v] /\ store'.len = store.len
    BY <1>3, <1>4, <1>8
  <2>2. \A j \in 1..store.len : heap'[store'.arr][j].id = heap[store.arr][j].id
    BY <1>1, <1>2, <2>1 DEF Slice, Slots, A
  <2>3. ASSUME NEW id \in StageIds
        PROVE  stageIndex(store, id)' = stageIndex(store, id)
    <3>1. {j \in 1..store'.len : heap'[store'.arr][j].id = id} = {j \in 1..store.len : heap[store.arr][j].id = id}
      BY <2>1, <2>2
    <3> DEFINE Least(at) == IF at = {} THEN 0 ELSE CHOOSE j \in at : \A k \in at : j <= k
    <3>2. /\ stageIndex(store, id) = Least({j \in 1..store.len : heap[store.arr][j].id = id})
          /\ stageIndex(store, id)' = Least({j \in 1..store'.len : heap'[store'.arr][j].id = id})
      BY DEF stageIndex
    <3> HIDE DEF Least
    <3>3. QED
      BY <3>1, <3>2
  <2>4. QED
    BY <2>3 DEF SameIndex
<1>10. QED
  BY <1>3, <1>5, <1>8, <1>9 DEF Wrote, h

\* A write of the status alone.
LEMMA StatusEffect ==
  ASSUME MemInv, HeldInv, store # NoVal, NEW st \in Statuses, NEW ok \in BOOLEAN,
         Upsert(heap, [store EXCEPT !.status = st], ok)
  PROVE  /\ MemInv' /\ store' = [store EXCEPT !.status = st] /\ store' # NoVal
         /\ store'.status = st /\ tab' = tab /\ Saved(ok)
<1> DEFINE h == [store EXCEPT !.status = st]
<1>1. store \in Header /\ store.arr \in DOMAIN heap /\ Slice(heap[store.arr], store.len)
  BY DEF MemInv
<1>2. h \in Header /\ h.arr = store.arr /\ h.len = store.len /\ h.status = st
  BY <1>1 DEF Header
<1> HIDE DEF h
<1>3. \A a \in HeldArrs : heap[a] \in Slots
  BY <1>1, HeldIs DEF Slice
<1>4. Upsert(heap, h, ok)
  BY DEF h
<1>5. MemInv' /\ store' = h /\ store' # NoVal /\ tab' = Table(heap[h.arr], h.len) /\ Saved(ok)
  BY <1>1, <1>2, <1>3, <1>4, SaveEffect
<1>6. tab = Table(heap[h.arr], h.len)
  BY <1>2 DEF tab
<1>7. QED
  BY <1>2, <1>5, <1>6 DEF h

\* The array that append moves to is not the stored one.
LEMMA FreshIsNew ==
  ASSUME HeldInv, store # NoVal
  PROVE  FreshArr \in Nat /\ FreshArr # store.arr
<1> DEFINE used == {store.arr} \cup HeldArrs
<1>1. used = {store.arr}
  BY HeldIs
<1>2. Cardinality(used) = 1
  BY <1>1, FS_Singleton
<1>3. \E a \in 1..(Cardinality(used) + 1) : a \notin used
  <2>1. 1 \in 1..2 /\ 2 \in 1..2
    OBVIOUS
  <2>2. 1 # store.arr \/ 2 # store.arr
    OBVIOUS
  <2>3. QED
    BY <1>1, <1>2, <2>1, <2>2
<1>4. FreshArr = CHOOSE a \in 1..(Cardinality(used) + 1) : a \notin used
  BY DEF FreshArr
<1> HIDE DEF used
<1>5. FreshArr \in 1..(Cardinality(used) + 1) /\ FreshArr \notin used
  BY <1>3, <1>4
<1>6. QED
  BY <1>1, <1>2, <1>5

\* A function on 1..k is an array of k slots.
LEMMA FunSlots ==
  ASSUME NEW k \in Nat, NEW B \in [1..k -> Stage \cup {NoVal}]
  PROVE  B \in Slots /\ Len(B) = k
  BY DEF Slots

\* The places of a concatenation.
LEMMA ConcatAt ==
  ASSUME NEW S, NEW u \in Seq(S), NEW w \in Seq(S)
  PROVE  /\ u \o w \in Seq(S) /\ Len(u \o w) = Len(u) + Len(w)
         /\ \A i \in 1..Len(u) : (u \o w)[i] = u[i]
         /\ \A i \in 1..Len(w) : (u \o w)[Len(u) + i] = w[i]
  OBVIOUS

\* An append, in place or into a new array.
LEMMA AppendEffect ==
  ASSUME MemInv, HeldInv, store # NoVal, NEW new \in Seq(Stage), Distinct(new, Len(new)),
         \A i \in 1..Len(new) : new[i].id \notin DOMAIN tab,
         NEW ok \in BOOLEAN, Upsert(appended(store, new).heap, appended(store, new).hdr, ok)
  PROVE  /\ MemInv' /\ store' # NoVal /\ store'.status = store.status
         /\ tab' = Extended(tab, Table(new, Len(new)))
         /\ Saved(ok)
<1> DEFINE old == heap[store.arr]
<1> DEFINE n == store.len + Len(new)
<1> DEFINE s == View(heap, store) \o new
<1> DEFINE hp == appended(store, new).heap
<1> DEFINE h == appended(store, new).hdr
<1>1. /\ store \in Header /\ store.arr \in DOMAIN heap /\ Slice(old, store.len)
      /\ heap = [a \in DOMAIN heap |-> heap[a]]
      /\ \A a \in DOMAIN heap : heap[a] \in Slots
  BY DEF MemInv
<1>2. /\ old \in Seq(Stage \cup {NoVal}) /\ store.len \in 2..Len(old)
      /\ \A i \in 1..store.len : old[i] \in Stage
      /\ store.len \in Nat /\ Len(new) \in Nat /\ Len(old) \in Nat /\ n \in Nat
  BY <1>1 DEF Slice, Slots
<1>3. /\ View(heap, store) \in Seq(Stage) /\ Len(View(heap, store)) = store.len
      /\ \A i \in 1..store.len : View(heap, store)[i] = old[i]
  BY <1>2 DEF View
<1>4. /\ s \in Seq(Stage) /\ Len(s) = n
      /\ \A i \in 1..store.len : s[i] = old[i]
      /\ \A i \in 1..Len(new) : s[store.len + i] = new[i]
  <2> DEFINE V == View(heap, store)
  <2> HIDE DEF V
  <2>1. V \in Seq(Stage) /\ Len(V) = store.len /\ \A i \in 1..store.len : V[i] = old[i]
    BY <1>3 DEF V
  <2>2. s = V \o new
    BY DEF V
  <2> HIDE DEF s
  <2>3. /\ V \o new \in Seq(Stage) /\ Len(V \o new) = Len(V) + Len(new)
        /\ \A i \in 1..Len(V) : (V \o new)[i] = V[i]
        /\ \A i \in 1..Len(new) : (V \o new)[Len(V) + i] = new[i]
    BY <2>1, ConcatAt
  <2>4. Len(s) = n
    BY <2>1, <2>2, <2>3
  <2>5. \A i \in 1..store.len : s[i] = old[i]
    BY <2>1, <2>2, <2>3
  <2>6. \A i \in 1..Len(new) : s[store.len + i] = new[i]
    BY <2>1, <2>2, <2>3
  <2>7. QED
    BY <2>2, <2>3, <2>4, <2>5, <2>6
<1>5. tab = Table(old, store.len)
  BY DEF tab
<1> HIDE DEF s
<1>6. /\ h \in Header /\ h.len = n /\ h.status = store.status
      /\ hp[h.arr] \in Slots /\ n <= Len(hp[h.arr]) /\ \A i \in 1..n : hp[h.arr][i] = s[i]
      /\ \A a \in HeldArrs : hp[a] \in Slots
  <2>1. CASE n <= Len(old)
    <3> DEFINE B == [i \in DOMAIN old |-> IF i <= n THEN s[i] ELSE old[i]]
    <3>1. hp = [heap EXCEPT ![store.arr] = B] /\ h = [store EXCEPT !.len = n]
      BY <2>1 DEF appended, s
    <3>2. h \in Header /\ h.len = n /\ h.status = store.status /\ h.arr = store.arr
      BY <1>1, <1>2, <3>1 DEF Header
    <3>3. B \in Slots /\ Len(B) = Len(old) /\ \A i \in 1..n : B[i] = s[i]
      <4>1. DOMAIN old = 1..Len(old)
        BY <1>2
      <4>2. \A i \in 1..Len(old) : B[i] \in Stage \cup {NoVal}
        BY <1>2, <1>4, <4>1
      <4>3. B \in [1..Len(old) -> Stage \cup {NoVal}]
        BY <4>1, <4>2
      <4>4. \A i \in 1..n : i \in DOMAIN old
        BY <1>2, <2>1, <4>1
      <4>5. \A i \in 1..n : B[i] = s[i]
        BY <1>2, <4>4
      <4> HIDE DEF B
      <4>6. QED
        BY <1>2, <4>3, <4>5, FunSlots
    <3> HIDE DEF B, hp, h, old, n, s
    <3>4. hp[store.arr] = B
      BY <1>1, <3>1
    <3>5. QED
      BY <2>1, <3>2, <3>3, <3>4, HeldIs
  <2>2. CASE ~(n <= Len(old))
    <3> DEFINE cap == Grown(Len(old), n)
    <3> DEFINE B == Padded(s, cap)
    <3>1. /\ hp = [x \in DOMAIN heap \cup {FreshArr} |-> IF x = FreshArr THEN B ELSE heap[x]]
          /\ h = [store EXCEPT !.arr = FreshArr, !.len = n]
      BY <2>2 DEF appended, s
    <3>2. FreshArr \in Nat /\ FreshArr # store.arr
      BY FreshIsNew
    <3>3. h \in Header /\ h.len = n /\ h.status = store.status /\ h.arr = FreshArr
      BY <1>1, <1>2, <3>1, <3>2 DEF Header
    <3>4. cap \in Nat /\ n <= cap
      BY <1>2, <2>2 DEF Grown
    <3>5. B \in Slots /\ Len(B) = cap /\ \A i \in 1..n : B[i] = s[i]
      <4> HIDE DEF cap
      <4>1. B = [i \in 1..cap |-> IF i <= n THEN s[i] ELSE NoVal]
        BY <1>4 DEF Padded
      <4>2. \A i \in 1..cap : B[i] \in Stage \cup {NoVal}
        BY <1>2, <1>4, <4>1
      <4>3. B \in [1..cap -> Stage \cup {NoVal}]
        BY <4>1, <4>2
      <4>4. \A i \in 1..n : B[i] = s[i]
        BY <1>2, <3>4, <4>1
      <4> HIDE DEF B
      <4>5. QED
        BY <3>4, <4>3, <4>4, FunSlots
    <3> HIDE DEF B, hp, h, old, n, s, cap
    <3>6. hp[FreshArr] = B /\ hp[store.arr] = heap[store.arr]
      BY <1>1, <3>1, <3>2
    <3>7. QED
      BY <1>1, <3>3, <3>4, <3>5, <3>6, HeldIs
  <2>3. QED
    BY <2>1, <2>2
<1> HIDE DEF old, s, hp, h
<1>7. /\ Slice(hp[h.arr], n)
      /\ Table(hp[h.arr], n) = Extended(Table(old, store.len), Table(new, Len(new)))
  <2>1. \A i \in 1..store.len : hp[h.arr][i] = old[i]
    BY <1>2, <1>4, <1>6
  <2>2. ASSUME NEW i \in 1..Len(new)
        PROVE  hp[h.arr][store.len + i] = new[i]
    <3>1. store.len + i \in 1..n
      BY <1>2
    <3>2. QED
      BY <1>4, <1>6, <3>1
  <2>3. \A i \in 1..Len(new) : new[i].id \notin DOMAIN Table(old, store.len)
    BY <1>5
  <2> DEFINE B == hp[h.arr]
  <2> HIDE DEF B
  <2>4. /\ B \in Slots /\ store.len + Len(new) <= Len(B)
        /\ \A i \in 1..store.len : B[i] = old[i]
        /\ \A i \in 1..Len(new) : B[store.len + i] = new[i]
    BY <1>6, <2>1, <2>2 DEF B
  <2>5. Slice(old, store.len)
    BY <1>1
  <2>6. /\ Slice(B, store.len + Len(new))
        /\ Table(B, store.len + Len(new)) = Extended(Table(old, store.len), Table(new, Len(new)))
    BY SMTT(40), <2>3, <2>4, <2>5, SliceAppend
  <2>7. QED
    BY <2>6 DEF B
<1>8. Upsert(hp, h, ok) /\ Slice(hp[h.arr], h.len)
  BY <1>6, <1>7 DEF hp, h
<1>9. /\ MemInv' /\ store' = h /\ store' # NoVal
      /\ tab' = Table(hp[h.arr], h.len) /\ Saved(ok)
  BY <1>6, <1>8, SaveEffect
<1>10. QED
  BY <1>5, <1>6, <1>7, <1>9

\* Open brings back the table of the file.
LEMMA OpenEffect ==
  ASSUME MemInv, Opened, UNCHANGED <<file, saveFails>>
  PROVE  /\ MemInv' /\ ftab' = ftab /\ (store' = NoVal <=> file = NoVal)
         /\ file # NoVal => store'.status = file.status /\ tab' = ftab
<1> DEFINE n == Len(file.stages)
<1>1. ftab' = ftab
  BY DEF ftab
<1>2. CASE file = NoVal
  <2>1. store' = NoVal /\ heap' = <<>>
    BY <1>2 DEF Opened
  <2>2. DOMAIN heap' = {} /\ heap' = [a \in DOMAIN heap' |-> heap'[a]]
    BY <2>1
  <2>3. QED
    BY <1>1, <1>2, <2>1, <2>2 DEF MemInv
<1>3. CASE file # NoVal
  <2>1. /\ file \in [status : Statuses, stages : Seq(Stage)]
        /\ Slice(file.stages, n) /\ n \in Nat
    BY <1>3 DEF MemInv
  <2> DEFINE B == Padded(file.stages, JSONCap(n))
  <2>2. /\ store' = [status |-> file.status, arr |-> 1, len |-> n]
        /\ heap' = [a \in {1} |-> B]
    BY <1>3 DEF Opened
  <2>3. JSONCap(n) \in Nat /\ n <= JSONCap(n)
    <3> HIDE DEF n
    <3>1. CASE n > 16
      BY <2>1, <3>1 DEF JSONCap
    <3>2. CASE n \in 0..16
      <4>1. \E c \in {1, 2, 4, 8, 16} : c >= n /\ (c = 1 \/ c < 2 * n)
        BY <3>2
      <4>2. JSONCap(n) \in {1, 2, 4, 8, 16} /\ JSONCap(n) >= n
        BY <3>2, <4>1 DEF JSONCap
      <4>3. QED
        BY <3>2, <4>2
    <3>3. QED
      BY <2>1, <3>1, <3>2
  <2>4. B \in Slots /\ Len(B) = JSONCap(n) /\ \A i \in 1..n : B[i] = file.stages[i]
    <3> DEFINE c == JSONCap(n)
    <3> HIDE DEF c
    <3>1. c \in Nat /\ n <= c /\ B = [i \in 1..c |-> IF i <= n THEN file.stages[i] ELSE NoVal]
      BY <2>3 DEF Padded, c
    <3>2. \A i \in 1..c : B[i] \in Stage \cup {NoVal}
      BY <2>1, <3>1
    <3>3. B \in [1..c -> Stage \cup {NoVal}]
      BY <3>1, <3>2
    <3>4. \A i \in 1..n : B[i] = file.stages[i]
      BY <2>1, <3>1
    <3> HIDE DEF B
    <3>5. QED
      BY <3>1, <3>3, <3>4, FunSlots DEF c
  <2> HIDE DEF B, n
  <2>5. Slice(B, n) /\ Table(B, n) = Table(file.stages, n)
    <3>1. n <= Len(B)
      BY <2>3, <2>4
    <3>2. QED
      BY <2>1, <2>4, <3>1, SliceCopy
  <2>6. store' \in Header /\ store' # NoVal /\ store'.arr = 1 /\ store'.len = n /\ store'.status = file.status
    <3>1. store' \in Header
      BY <2>1, <2>2 DEF Header
    <3>2. QED
      BY <2>2, <3>1, NoValAssumption DEF Header, Statuses
  <2>7. /\ DOMAIN heap' = {1} /\ heap'[1] = B
        /\ heap' = [a \in DOMAIN heap' |-> heap'[a]]
    BY <2>2
  <2>8. tab' = ftab
    BY <1>3, <2>5, <2>6, <2>7 DEF tab, ftab, n
  <2>9. MemInv'
    <3>1. \A a \in DOMAIN heap' : heap'[a] \in Slots
      BY <2>4, <2>7
    <3>2. Slice(heap'[store'.arr], store'.len) /\ store'.arr \in DOMAIN heap'
      BY <2>5, <2>6, <2>7
    <3>3. file' # NoVal => /\ file' \in [status : Statuses, stages : Seq(Stage)]
                           /\ Slice(file'.stages, Len(file'.stages))
      BY <2>1 DEF n
    <3>4. saveFails' \in Nat
      BY DEF MemInv
    <3>5. QED
      BY <2>6, <2>7, <3>1, <3>2, <3>3, <3>4 DEF MemInv
  <2>10. QED
    BY <1>1, <1>3, <2>6, <2>8, <2>9
<1>4. QED
  BY <1>2, <1>3

\* The two stages of a new workflow.
FirstTab == [id \in First |-> NewStage(id, "pending", "")]

\* A new stage is a stage.
LEMMA NewStageType ==
  ASSUME NEW id \in StageIds, NEW st \in {"pending", "running"}, NEW in \in {"", "task"}
  PROVE  NewStage(id, st, in) \in Stage /\ NewStage(id, st, in).id = id
  BY DEF NewStage, Stage

\* The two stages of a submitted workflow.
LEMMA FirstSlice ==
  /\ FirstStages \in Seq(Stage) /\ Len(FirstStages) = 2
  /\ Slice(FirstStages, 2) /\ Table(FirstStages, 2) = FirstTab
<1> DEFINE r == NewStage(Research, "pending", "")
<1> DEFINE p == NewStage(Plan, "pending", "")
<1>1. r \in Stage /\ p \in Stage /\ r.id = Research /\ p.id = Plan
  <2>1. Research \in StageIds /\ Plan \in StageIds
    BY DEF StageIds
  <2>2. QED
    BY <2>1, NewStageType
<1>2. Research # Plan
  BY DEF Research, Plan
<1> HIDE DEF r, p
<1>3. FirstStages = <<r, p>>
  BY DEF FirstStages, r, p
<1>4. /\ FirstStages \in Seq(Stage) /\ FirstStages \in Slots /\ Len(FirstStages) = 2
      /\ FirstStages[1] = r /\ FirstStages[2] = p
  BY <1>1, <1>3 DEF Slots
<1>5. \A i \in 1..2 : i = 1 \/ i = 2
  OBVIOUS
<1>6. Distinct(FirstStages, 2)
  BY <1>1, <1>2, <1>4, <1>5 DEF Distinct
<1>7. Slice(FirstStages, 2)
  BY <1>1, <1>4, <1>5, <1>6 DEF Slice
<1>8. Table(FirstStages, 2) = FirstTab
  <2>1. FirstTab = [id \in DOMAIN FirstTab |-> FirstTab[id]] /\ DOMAIN FirstTab = First
    BY DEF FirstTab
  <2>2. FirstTab[Research] = r /\ FirstTab[Plan] = p
    BY DEF FirstTab, First, r, p
  <2>3. \A id \in DOMAIN FirstTab : \E i \in 1..2 : FirstStages[i].id = id
    BY <1>1, <1>4, <2>1 DEF First
  <2>4. \A i \in 1..2 : FirstStages[i].id \in DOMAIN FirstTab /\ FirstTab[FirstStages[i].id] = FirstStages[i]
    BY <1>1, <1>4, <1>5, <2>1, <2>2 DEF First
  <2>5. QED
    BY <1>6, <2>1, <2>3, <2>4, TableIs
<1>9. QED
  BY <1>4, <1>7, <1>8

\* What a submission does to the memory, the table and the file.
LEMMA SubmitEffect ==
  ASSUME MemInv, store = NoVal, file = NoVal, NEW st \in {"queued", "running"},
         heap' = [a \in {1} |-> FirstStages],
         store' = [status |-> st, arr |-> 1, len |-> 2],
         \/ file' = file
         \/ \E fst \in {"queued", "running"} : file' = [status |-> fst, stages |-> FirstStages],
         saveFails' \in Nat
  PROVE  /\ MemInv' /\ store' # NoVal /\ store'.status = st /\ tab' = FirstTab
         /\ file' # NoVal => ftab' = FirstTab
<1>1. store' \in Header /\ store' # NoVal /\ store'.arr = 1 /\ store'.len = 2 /\ store'.status = st
  <2>1. store' \in Header
    BY DEF Header, Statuses
  <2>2. QED
    BY <2>1, NoValAssumption DEF Header, Statuses
<1>2. DOMAIN heap' = {1} /\ heap'[1] = FirstStages /\ heap' = [a \in DOMAIN heap' |-> heap'[a]]
  OBVIOUS
<1>3. tab' = FirstTab
  BY <1>1, <1>2, FirstSlice DEF tab
<1>4. file' # NoVal => /\ file'.stages = FirstStages
                       /\ file' \in [status : Statuses, stages : Seq(Stage)]
  BY FirstSlice DEF Statuses
<1>5. file' # NoVal => ftab' = FirstTab
  BY <1>4, FirstSlice DEF ftab
<1>6. MemInv'
  <2>1. \A a \in DOMAIN heap' : heap'[a] \in Slots
    BY <1>2, FirstSlice DEF Slice
  <2>2. Slice(heap'[store'.arr], store'.len) /\ store'.arr \in DOMAIN heap'
    BY <1>1, <1>2, FirstSlice
  <2>3. file' # NoVal => Slice(file'.stages, Len(file'.stages))
    BY <1>4, FirstSlice
  <2>4. QED
    BY <1>1, <1>2, <1>4, <2>1, <2>2, <2>3 DEF MemInv
<1>7. QED
  BY <1>1, <1>3, <1>5, <1>6

\* Resume resets the failed stages that have an input.
ResetOne(s) == IF Resumable(s) THEN [s EXCEPT !.status = "pending"] ELSE s

\* What Resume does to the memory and the table.
LEMMA ResumeEffect ==
  ASSUME MemInv, HeldInv, Resume
  PROVE  /\ MemInv' /\ store' # NoVal /\ store'.status = "running"
         /\ tab' = [id \in DOMAIN tab |-> ResetOne(tab[id])]
         /\ \E id \in DOMAIN tab : Resumable(tab[id])
         /\ \E ok \in SaveResults :
              /\ Saved(ok)
              /\ IF ok THEN StartDriver(Goroutine("resumefan", "resume", Merge, ""))
                 ELSE UNCHANGED <<thr, gen>>
<1> DEFINE old == heap[store.arr]
<1> DEFINE Reset(s) == IF s # NoVal /\ Resumable(s) THEN [s EXCEPT !.status = "pending"] ELSE s
<1> DEFINE B == [i \in DOMAIN old |-> IF i <= store.len THEN Reset(old[i]) ELSE old[i]]
<1> DEFINE hp == [heap EXCEPT ![store.arr] = B]
<1> DEFINE h == [store EXCEPT !.status = "running"]
<1> DEFINE n == store.len
<1>1. store # NoVal
  BY DEF Resume
<1>2. PICK ok \in SaveResults :
        /\ Upsert(hp, h, ok)
        /\ IF ok THEN StartDriver(Goroutine("resumefan", "resume", Merge, ""))
           ELSE UNCHANGED <<thr, gen>>
  BY DEF Resume
<1>3. /\ store \in Header /\ store.arr \in DOMAIN heap /\ Slice(old, n)
      /\ heap = [a \in DOMAIN heap |-> heap[a]] /\ old \in Slots /\ n \in Nat /\ n <= Len(old)
      /\ \A i \in 1..n : old[i] \in Stage
  BY <1>1 DEF MemInv, Slice, Slots
<1>4. h \in Header /\ h.arr = store.arr /\ h.len = n /\ h.status = "running"
  BY <1>3 DEF Header, Statuses
<1>5. hp[store.arr] = B
  BY <1>3
<1>6. DOMAIN old = 1..Len(old) /\ Len(old) \in Nat /\ \A i \in 1..Len(old) : old[i] \in Stage \cup {NoVal}
  BY <1>3 DEF Slots
<1>7. \A s \in Stage : ResetOne(s) \in Stage /\ ResetOne(s).id = s.id /\ s # NoVal
  BY ZenonT(60), NoValAssumption DEF ResetOne, Stage
<1>8. \A i \in 1..n : B[i] = ResetOne(old[i])
  BY <1>3, <1>6, <1>7 DEF ResetOne
<1>9. B \in Slots /\ Len(B) = Len(old)
  <2>1. \A i \in 1..Len(old) : B[i] \in Stage \cup {NoVal}
    <3>1. ASSUME NEW i \in 1..Len(old)
          PROVE  B[i] \in Stage \cup {NoVal}
      <4>1. CASE i <= n
        <5>1. i \in 1..n
          BY <4>1, <1>3, <1>6
        <5>2. old[i] \in Stage /\ B[i] = ResetOne(old[i])
          BY <5>1, <1>3, <1>8
        <5>3. QED
          BY <5>2, <1>7
      <4>2. CASE ~(i <= n)
        BY <1>6, <4>2
      <4>3. QED
        BY <4>1, <4>2
    <3>2. QED
      BY <3>1
  <2>2. B \in [1..Len(old) -> Stage \cup {NoVal}]
    BY <1>6, <2>1
  <2> HIDE DEF B
  <2>3. QED
    BY <1>6, <2>2, FunSlots
<1> HIDE DEF B, hp, h, old, n
<1>10. \A i \in 1..n : B[i] \in Stage /\ B[i].id = old[i].id
  BY <1>3, <1>7, <1>8
<1>11. /\ Slice(B, n) /\ DOMAIN Table(B, n) = DOMAIN Table(old, n)
       /\ \A i \in 1..n : Table(B, n)[old[i].id] = B[i]
  <2>1. n <= Len(B)
    BY <1>3, <1>9
  <2>2. QED
    BY <1>3, <1>9, <1>10, <2>1, SliceMap
<1>12. tab = Table(old, n)
  BY <1>1 DEF tab, old, n
<1>13. Table(B, n) = [id \in DOMAIN tab |-> ResetOne(tab[id])]
  <2>1. Table(B, n) = [id \in DOMAIN Table(B, n) |-> Table(B, n)[id]]
    BY DEF Table
  <2>2. \A id \in DOMAIN tab : \E i \in 1..n : old[i].id = id /\ tab[id] = old[i]
    BY <1>3, <1>12, TableTypes
  <2>3. \A id \in DOMAIN tab : Table(B, n)[id] = ResetOne(tab[id])
    BY <1>8, <1>11, <2>2
  <2>4. QED
    BY <1>11, <1>12, <2>1, <2>3
<1>14. ok \in BOOLEAN
  BY DEF SaveResults
<1>15. MemInv' /\ store' = h /\ store' # NoVal /\ tab' = Table(hp[h.arr], h.len) /\ Saved(ok)
  <2>1. Slice(hp[h.arr], h.len)
    BY <1>4, <1>5, <1>11
  <2>2. \A a \in HeldArrs : hp[a] \in Slots
    BY <1>5, <1>9, HeldIs
  <2>3. Upsert(hp, h, ok)
    BY <1>2
  <2>4. QED
    BY <1>4, <1>14, <2>1, <2>2, <2>3, SaveEffect
<1>16. \E id \in DOMAIN tab : Resumable(tab[id])
  <2>1. PICK i \in 1..n : Resumable(old[i])
    BY DEF Resume, old, n
  <2>2. old[i].id \in DOMAIN tab /\ tab[old[i].id] = old[i]
    BY <1>3, <1>12, SliceAt
  <2>3. QED
    BY <2>1, <2>2
<1>17. QED
  BY <1>2, <1>4, <1>5, <1>13, <1>15, <1>16

----------------------------------------------------------------------------
(* Stage ids and goroutines *)

\* The named stages differ, and Main is none of them.
LEMMA Kinds ==
  /\ KindOf(Research) = "research" /\ KindOf(Plan) = "plan" /\ KindOf(Merge) = "merge"
  /\ KindOf(Main) = "main" /\ Main \notin StageIds /\ Research # Plan
  /\ {Research, Plan, Merge} \subseteq StageIds /\ Merge \notin First
  BY DEF KindOf, Research, Plan, Merge, Main, StageIds, First

\* Implement stages, their verify stages, and the named ones differ.
LEMMA ImplementIds ==
  /\ \A id \in StageIds : KindOf(id) = "implement" =>
       /\ id = <<"implement", id[2]>> /\ id[2] \in Tasks
       /\ VerifyOf(id) \in StageIds /\ KindOf(VerifyOf(id)) = "verify"
       /\ VerifyOf(id) = <<"verify", id[2]>> /\ VerifyOf(id) # id
       /\ id \notin First /\ id # Merge
  /\ \A id \in StageIds : KindOf(id) = "verify" => id \notin First /\ id # Merge
  /\ \A i \in Tasks : <<"implement", i>> \in StageIds /\ KindOf(<<"implement", i>>) = "implement"
  BY DEF KindOf, Research, Plan, Merge, StageIds, VerifyOf, First

\* Goroutines are told apart by their stage.
LEMMA ThreadIds ==
  ASSUME ThrInv, NEW t \in DOMAIN thr
  PROVE  /\ t = <<gen, t[2]>> /\ t[1] = gen /\ D \in DOMAIN thr
         /\ t # D => t[2] \in StageIds /\ t[2] # Main
         /\ DriverOf(t) = D
         /\ \A u \in DOMAIN thr : u # t => u[2] # t[2]
  BY DEF ThrInv, D, DriverOf

\* A driver that does not wait for workers has none.
LEMMA Alone ==
  ASSUME ThrInv, D \in DOMAIN thr, thr[D].pc # "join"
  PROVE  DOMAIN thr = {D}
  BY DEF ThrInv

\* The stages a worker writes to.
Own(t) == IF thr[t].role = "worker" THEN {t[2], VerifyOf(t[2])} ELSE {t[2]}

\* Two workers never work on the same stage.
LEMMA OwnApart ==
  ASSUME ThrInv, LocalInv, NEW t \in DOMAIN thr, NEW u \in DOMAIN thr, t # D, u # D, t # u
  PROVE  Own(t) \cap Own(u) = {}
<1>1. t[2] \in StageIds /\ u[2] \in StageIds /\ t[2] # u[2]
  BY ThreadIds
<1>2. /\ thr[t].role = "worker" <=> thr[u].role = "worker"
      /\ thr[t].role = "worker" => KindOf(t[2]) = "implement" /\ KindOf(u[2]) = "implement"
  BY DEF LocalInv, Local, Worker
<1>3. CASE thr[t].role = "worker"
  BY <1>1, <1>2, <1>3, ImplementIds DEF Own
<1>4. CASE thr[t].role # "worker"
  BY <1>1, <1>2, <1>4 DEF Own
<1>5. QED
  BY <1>3, <1>4

----------------------------------------------------------------------------
(* Steps of a goroutine t that writes the stages S, and what they keep *)

\* The table changes at S only, and a stage that is done stays so, unless it
\* is an implement stage that is rejected.
TabStep(t, S) ==
  /\ DOMAIN tab \subseteq DOMAIN tab'
  /\ \A id \in DOMAIN tab' : id \notin S => id \in DOMAIN tab /\ tab'[id] = tab[id]
  /\ t # D => S \subseteq Own(t)
  /\ \A id \in DOMAIN tab : id \in S /\ tab[id].status = "done" =>
       KindOf(id) = "implement" /\ tab'[id].status \in {"done", "failed"}
  /\ Merge \in S /\ Merge \in DOMAIN tab' => tab'[Merge].input = ""
  /\ DOMAIN tab = First /\ DOMAIN tab' # First => Is(Research, "done") /\ Is(Plan, "done")

\* The goroutine goes on.
Stays(t) ==
  /\ DOMAIN thr' = DOMAIN thr /\ thr' \in [DOMAIN thr -> Thread]
  /\ \A u \in DOMAIN thr : u # t => thr'[u] = thr[u]
  /\ thr'[t].role = thr[t].role /\ thr'[t].prompt = thr[t].prompt
  /\ Local(t)'

\* A worker returns an error or its verified branches to its driver.
Leaves(t, err, branches) ==
  /\ t # D /\ err \in BOOLEAN /\ branches \subseteq Tasks
  /\ DOMAIN thr' = DOMAIN thr \ {t} /\ thr' \in [DOMAIN thr' -> Thread]
  /\ \A u \in DOMAIN thr' : u # D => thr'[u] = thr[u]
  /\ thr'[D] = [thr[D] EXCEPT !.err = @ \/ err, !.good = @ \cup branches]
  /\ \A b \in branches : Verified(b)'
  /\ thr[t].role = "worker" /\ ~err => Is(t[2], "done")' /\ Verified(t[2][2])'

\* Nothing is written, or one Upsert, whose save may have failed.
HasSession == {"create", "record", "wait"}
NoEntry(t) ==
  t \in DOMAIN thr' /\ thr'[t].pc \in HasSession =>
    thr[t].pc \in HasSession /\ thr'[t].stage = thr[t].stage
MemStep(t) ==
  \/ UNCHANGED mem /\ NoEntry(t)
  \/ \E ok \in BOOLEAN : Saved(ok) /\ (~ok => NoEntry(t))

\* A stage that runs is the goroutine's own.
RunStep(t, S) ==
  crashes = 0 /\ saveFails' = 0 =>
    \A id \in DOMAIN tab' : tab'[id].status = "running" /\ (id \in S \/ Owns(t, id)) =>
      t \in DOMAIN thr' /\ Owns(t, id)'

\* A stage that has no prompt yet is left to the worker that will give it one.
PromptStep(t, S) ==
  crashes = 0 =>
    /\ rawRuns' = {}
    /\ \A id \in DOMAIN tab' : id \in S /\ tab'[id].status = "failed" =>
         ~isDemo \/ (id \in DOMAIN tab /\ tab[id].status = "failed")
    /\ ~isDemo => \A id \in DOMAIN tab' : tab'[id].input = "task" =>
         \/ Awaited(id)'
         \/ /\ id \in DOMAIN tab /\ tab[id].input = "task"
            /\ tab[id].status = "pending" => tab'[id].status = "pending"
            /\ WaitsFor(t, id) => t \in DOMAIN thr' /\ WaitsFor(t, id)'
    /\ t = D => thr[D].role # "driver" \/ thr[D].pc \notin {"fanout", "failwf"}

StepShape(t, S) ==
  /\ MemInv' /\ UNCHANGED counts
  /\ store' # NoVal /\ store'.status \in {"queued", "running"}
  /\ store.status = "running" => store'.status = "running"
  /\ rawRuns' \subseteq StageIds /\ trunk' \subseteq Tasks /\ trunk \subseteq trunk'
  /\ \A b \in trunk' : b \notin trunk => Verified(b)
  /\ TabStep(t, S) /\ MemStep(t) /\ RunStep(t, S) /\ PromptStep(t, S)
  /\ HeldInv' /\ (t = D => DOMAIN thr = {D})
  /\ Stays(t) \/ \E err, branches : Leaves(t, err, branches)

\* A verdict that passed stays.
LEMMA VerifiedKept ==
  ASSUME NEW t, NEW S, TabStep(t, S), NEW b, Verified(b)
  PROVE  Verified(b)'
<1> DEFINE v == <<"verify", b>>
<1>1. v \in DOMAIN tab /\ tab[v].status = "done" /\ KindOf(v) = "verify"
  BY DEF Verified, Is, KindOf
<1> HIDE DEF v
<1>2. v \notin S /\ v \in DOMAIN tab'
  BY <1>1 DEF TabStep
<1>3. tab'[v] = tab[v]
  BY <1>2 DEF TabStep
<1>4. QED
  BY <1>1, <1>2, <1>3 DEF Verified, Is, v

\* What the other workers rely on is untouched.
LEMMA OthersKept ==
  ASSUME Inv, NEW t \in DOMAIN thr, NEW S, TabStep(t, S), UNCHANGED <<gen, isDemo, resumes>>,
         NEW u \in DOMAIN thr, u # t, u # D, t # D, thr'[u] = thr[u], thr'[D].role = thr[D].role,
         saveFails' = 0 => saveFails = 0
  PROVE  Local(u)'
<1>0. D' = D
  BY DEF D
<1>1. \A id \in Own(u) : id \notin S
  BY OwnApart DEF Inv, TabStep
<1>2. \A id \in Own(u) : /\ id \in DOMAIN tab' <=> id \in DOMAIN tab
                         /\ id \in DOMAIN tab => tab'[id] = tab[id]
  BY <1>1 DEF TabStep
<1>3. \A id \in Own(u) : \A st : Is(id, st)' <=> Is(id, st)
  BY <1>2 DEF Is
<1>4. CASE thr[u].role = "worker" /\ thr[D].role = "driver" /\ Worker(u)
  <2>1. /\ thr[u].task = u[2] /\ thr[u].stage \in Own(u) /\ thr[u].task \in Own(u)
        /\ VerifyOf(thr[u].task) \in Own(u)
    BY <1>4 DEF Worker, Own
  <2>2. Worker(u)'
    BY <1>2, <1>3, <1>4, <2>1 DEF Worker
  <2>3. QED
    BY <1>0, <1>4, <2>2 DEF Local
<1>5. CASE thr[u].role = "resumed" /\ thr[D].role = "resume" /\ Resumed(u)
  <2>1. thr[u].stage \in Own(u)
    BY <1>5 DEF Resumed, Own
  <2>2. Resumed(u)'
    BY <1>3, <1>5, <2>1 DEF Resumed
  <2>3. QED
    BY <1>0, <1>5, <2>2 DEF Local
<1>6. CASE thr[u].role = "demoworker" /\ thr[D].role = "demo" /\ DemoWorker(u)
  <2>1. thr[u].stage \in Own(u)
    BY <1>6 DEF DemoWorker, Own
  <2>2. DemoWorker(u)'
    BY <1>3, <1>6, <2>1 DEF DemoWorker
  <2>3. QED
    BY <1>0, <1>6, <2>2 DEF Local
<1>7. QED
  BY <1>4, <1>5, <1>6 DEF Inv, LocalInv, Local

\* What a waiting driver relies on, when a worker of it takes a step.
LEMMA WaitingDriverKept ==
  ASSUME Inv, NEW t \in DOMAIN thr, NEW S, TabStep(t, S), UNCHANGED <<gen, isDemo, resumes>>,
         t # D, store.status = "running" => store'.status = "running",
         Stays(t) \/ \E err, branches : Leaves(t, err, branches)
  PROVE  Local(D)'
<1>0. D' = D /\ D \in DOMAIN thr /\ thr[D].pc = "join" /\ thr[D] \in Thread /\ D[1] = gen
  BY ThreadIds DEF D, Inv, ThrInv
<1>1. PICK e \in BOOLEAN, bs \in SUBSET Tasks :
        /\ thr'[D].pc = "join" /\ thr'[D].role = thr[D].role /\ thr'[D].stage = thr[D].stage
        /\ thr'[D].prompt = thr[D].prompt
        /\ thr'[D].err = (thr[D].err \/ e) /\ thr'[D].good = thr[D].good \cup bs
        /\ \A b \in bs : Verified(b)'
        /\ \A u \in DOMAIN thr : u \in DOMAIN thr' \/ u = t
        /\ t \in DOMAIN thr' \/ (thr[t].role = "worker" /\ ~e => Is(t[2], "done")' /\ Verified(t[2][2])')
  <2>1. CASE Stays(t)
    <3>1. thr'[D] = thr[D] /\ DOMAIN thr' = DOMAIN thr
      BY <1>0, <2>1 DEF Stays
    <3>2. thr[D].err \in BOOLEAN /\ thr[D].good \in SUBSET Tasks
      BY <1>0 DEF Thread
    <3>3. WITNESS FALSE \in BOOLEAN, {} \in SUBSET Tasks
    <3>4. QED
      BY <1>0, <3>1, <3>2
  <2>2. CASE \E err, branches : Leaves(t, err, branches)
    <3>1. PICK err, branches : Leaves(t, err, branches)
      BY <2>2
    <3> err \in BOOLEAN /\ branches \in SUBSET Tasks
      BY <3>1 DEF Leaves
    <3>3. WITNESS err \in BOOLEAN, branches \in SUBSET Tasks
    <3>4. QED
      BY <1>0, <3>1 DEF Leaves, Thread
  <2>3. QED
    BY <2>1, <2>2
<1>2. CASE thr[D].role = "driver" /\ Driver(D)
  <2>1. Merge \notin DOMAIN tab'
    <3>1. thr[t].role = "worker" /\ KindOf(t[2]) = "implement" /\ t[2] \in StageIds
      BY <1>2, ThreadIds DEF Inv, LocalInv, Local, Worker
    <3>2. Merge \notin Own(t)
      BY <3>1, ImplementIds DEF Own
    <3>3. QED
      BY <1>0, <1>2, <3>2 DEF TabStep, Driver
  <2>2. \E id \in DOMAIN tab' : KindOf(id) = "implement"
    BY <1>0, <1>2 DEF TabStep, Driver
  <2>3. \A b \in thr'[D].good : Verified(b)'
    BY <1>1, <1>2, VerifiedKept DEF Driver
  <2>4. ASSUME ~thr'[D].err, NEW id \in DOMAIN tab', KindOf(id) = "implement"
        PROVE  <<gen, id>> \in DOMAIN thr' \/ (Is(id, "done")' /\ Verified(id[2])')
    <3>0. ~thr[D].err /\ ~e
      BY <1>1, <2>4
    <3>1. thr[t].role = "worker" /\ t[2] \in StageIds /\ t = <<gen, t[2]>> /\ KindOf(t[2]) = "implement"
          /\ t[2] \in DOMAIN tab
      BY <1>2, ThreadIds DEF Inv, LocalInv, Local, Worker
    <3>2. CASE id = t[2]
      BY <1>1, <3>0, <3>1, <3>2
    <3>3. CASE id # t[2]
      <4>1. id \notin S
        BY <2>4, <3>1, <3>3, ImplementIds DEF TabStep, Own
      <4>2. id \in DOMAIN tab /\ tab'[id] = tab[id]
        BY <4>1 DEF TabStep
      <4>3. <<gen, id>> \in DOMAIN thr \/ (Is(id, "done") /\ Verified(id[2]))
        BY <1>0, <1>2, <2>4, <3>0, <4>2 DEF Driver
      <4>4. <<gen, id>> # t
        BY <3>1, <3>3
      <4>5. Is(id, "done") => Is(id, "done")'
        BY <4>2 DEF Is
      <4>6. QED
        BY <1>1, <4>3, <4>4, <4>5, VerifiedKept
    <3>4. QED
      BY <3>2, <3>3
  <2>5. Driver(D)'
    BY <1>0, <1>1, <1>2, <2>1, <2>2, <2>3, <2>4 DEF Driver, DriverPCs, Busy
  <2>6. QED
    BY <1>0, <1>1, <1>2, <2>5 DEF Local
<1>3. CASE thr[D].role = "resume" /\ ResumeDriver(D)
  BY <1>0, <1>1, <1>3 DEF Local, ResumeDriver
<1>4. CASE thr[D].role = "demo" /\ DemoDriver(D)
  <2>1. DemoDriver(D)'
    BY <1>0, <1>1, <1>4 DEF DemoDriver
  <2>2. QED
    BY <1>0, <1>1, <1>4, <2>1 DEF Local
<1>5. QED
  BY <1>0, <1>2, <1>3, <1>4 DEF Inv, LocalInv, Local

\* The file follows the memory.
LEMMA SavedKeeps ==
  ASSUME MemInv, TabInv, Synced, UNCHANGED <<resumes, isDemo>>, store' # NoVal, Grows(tab'),
         store'.status = "done" /\ resumes = 0 /\ ~isDemo => Complete(tab'),
         \/ UNCHANGED mem
         \/ \E ok \in BOOLEAN : Saved(ok)
  PROVE  /\ TabInv' /\ Synced' /\ (file # NoVal => file' # NoVal)
         /\ saveFails' = 0 => saveFails = 0
<1>1. Grows(tab)' /\ (Complete(tab') => Complete(tab)')
  BY DEF Grows, Complete
<1>2. CASE UNCHANGED mem
  <2>1. UNCHANGED <<tab, ftab, store, file, saveFails>>
    BY <1>2 DEF mem, tab, ftab
  <2>2. QED
    BY <1>1, <2>1 DEF TabInv, Synced, Grows, Complete
<1>3. CASE \E ok \in BOOLEAN : Saved(ok)
  <2>1. PICK ok \in BOOLEAN : Saved(ok)
    BY <1>3
  <2>2. CASE ok
    <3>1. file' # NoVal /\ file'.status = store'.status /\ ftab' = tab' /\ saveFails' = saveFails
      BY <2>1, <2>2 DEF Saved
    <3>2. Grows(ftab)' /\ (Complete(tab') => Complete(ftab)')
      BY <1>1, <3>1 DEF Grows, Complete
    <3>3. QED
      BY <1>1, <3>1, <3>2 DEF TabInv, Synced
  <2>3. CASE ~ok
    <3>1. file' = file /\ ftab' = ftab /\ saveFails' = saveFails + 1 /\ saveFails \in Nat
      BY <2>1, <2>3 DEF Saved, MemInv
    <3>2. Grows(ftab)' = Grows(ftab) /\ Complete(ftab)' = Complete(ftab)
      BY <3>1 DEF Grows, Complete
    <3>3. TabInv'
      BY <1>1, <3>1, <3>2 DEF TabInv
    <3>4. QED
      BY <3>1, <3>3 DEF Synced
  <2>4. QED
    BY <2>2, <2>3
<1>4. QED
  BY <1>2, <1>3

\* A step of that shape keeps the invariants of the memory.
LEMMA StepMemory ==
  ASSUME Inv, NEW t \in DOMAIN thr, NEW S, StepShape(t, S)
  PROVE  /\ TabInv' /\ Synced' /\ file' # NoVal /\ Grows(tab')
         /\ saveFails' = 0 => saveFails = 0
         /\ UNCHANGED mem => tab' = tab /\ ftab' = ftab
<1>1. store # NoVal /\ file # NoVal /\ store' # NoVal /\ UNCHANGED <<resumes, isDemo>>
  BY DEF Inv, ThrInv, StepShape, counts
<1>2. Grows(tab')
  <2>1. Grows(tab) /\ TabStep(t, S) /\ Research # Plan /\ KindOf(Research) # "implement" /\ KindOf(Plan) # "implement"
    BY <1>1, Kinds DEF Inv, TabInv, StepShape
  <2>2. First \subseteq DOMAIN tab'
    BY <2>1 DEF Grows, TabStep
  <2>3. \A id \in First : tab[id].status = "done" => tab'[id] = tab[id]
    <3>1. \A id \in First : id \in DOMAIN tab /\ id \in DOMAIN tab' /\ KindOf(id) # "implement"
      BY <2>1, <2>2 DEF Grows, First
    <3>2. QED
      BY <2>1, <3>1 DEF TabStep
  <2>4. DOMAIN tab' # First => tab'[Research].status = "done" /\ tab'[Plan].status = "done"
    BY <2>1, <2>3 DEF Grows, TabStep, First, Is
  <2>5. Merge \in DOMAIN tab' => tab'[Merge].input = ""
    BY <2>1 DEF Grows, TabStep
  <2>6. QED
    BY <2>2, <2>4, <2>5 DEF Grows
<1>3. store'.status # "done" /\ (UNCHANGED mem \/ \E ok \in BOOLEAN : Saved(ok))
  BY DEF StepShape, MemStep
<1>4. UNCHANGED mem => tab' = tab /\ ftab' = ftab
  BY DEF mem, tab, ftab
<1>5. QED
  BY <1>1, <1>2, <1>3, <1>4, SavedKeeps DEF Inv

\* A step of that shape keeps the invariants of the goroutines.
LEMMA StepThreads ==
  ASSUME Inv, NEW t \in DOMAIN thr, NEW S, StepShape(t, S)
  PROVE  /\ ThrInv' /\ CountInv' /\ LocalInv' /\ D' = D /\ D \in DOMAIN thr'
         /\ \A u \in DOMAIN thr' :
              /\ u \in DOMAIN thr /\ thr'[u].role = thr[u].role /\ thr'[u].prompt = thr[u].prompt
              /\ u # t => thr'[u].pc = thr[u].pc /\ thr'[u].stage = thr[u].stage
         /\ \A u \in DOMAIN thr : u # t => u \in DOMAIN thr'
<1> USE DEF Inv
<1>1. D' = D /\ gen' = gen /\ D \in DOMAIN thr /\ UNCHANGED <<gen, isDemo, resumes, crashes>>
  BY ThreadIds DEF D, StepShape, counts
<1>2. t # D => thr[D].pc = "join" /\ thr[D] \in Thread
  BY <1>1 DEF ThrInv
<1>3. D \in DOMAIN thr' /\ \A u \in DOMAIN thr : u # t => u \in DOMAIN thr'
  BY <1>1 DEF StepShape, Stays, Leaves
<1>4. \A u \in DOMAIN thr' :
        /\ u \in DOMAIN thr /\ thr'[u].role = thr[u].role /\ thr'[u].prompt = thr[u].prompt
        /\ u # t => thr'[u].pc = thr[u].pc /\ thr'[u].stage = thr[u].stage
        /\ u # t /\ u # D => thr'[u] = thr[u]
        /\ thr'[u] \in Thread
  <2>1. CASE Stays(t)
    BY <2>1 DEF Stays, ThrInv
  <2>2. CASE \E err, branches : Leaves(t, err, branches)
    <3>1. PICK err, branches : Leaves(t, err, branches)
      BY <2>2
    <3>2. /\ thr'[D].role = thr[D].role /\ thr'[D].prompt = thr[D].prompt
          /\ thr'[D].pc = thr[D].pc /\ thr'[D].stage = thr[D].stage
      BY <1>2, <3>1 DEF Leaves, Thread
    <3>3. \A u \in DOMAIN thr' : /\ u \in DOMAIN thr /\ u # t /\ (u # D => thr'[u] = thr[u])
                                 /\ thr'[u] \in Thread
      BY <3>1 DEF Leaves
    <3>4. QED
      BY <3>2, <3>3 DEF ThrInv
  <2>3. QED
    BY <2>1, <2>2 DEF StepShape
<1>5. LocalInv'
  <2>1. ASSUME NEW u \in DOMAIN thr'
        PROVE  Local(u)'
    <3>1. CASE u = t
      <4>1. ~\E err, branches : Leaves(t, err, branches)
        BY <2>1, <3>1 DEF Leaves
      <4>2. QED
        BY <3>1, <4>1 DEF StepShape, Stays
    <3>2. CASE u # t /\ u = D
      <4>1. TabStep(t, S) /\ (store.status = "running" => store'.status = "running")
            /\ (Stays(t) \/ \E err, branches : Leaves(t, err, branches))
        BY DEF StepShape
      <4>2. QED
        BY <1>1, <3>2, <4>1, WaitingDriverKept
    <3>3. CASE u # t /\ u # D
      <4>1. u \in DOMAIN thr /\ thr'[u] = thr[u] /\ thr'[D].role = thr[D].role
        BY <1>3, <1>4, <3>3
      <4>2. t # D
        BY <3>3, <4>1 DEF StepShape
      <4>3. TabStep(t, S) /\ (saveFails' = 0 => saveFails = 0)
        BY StepMemory DEF StepShape
      <4>4. QED
        BY <1>1, <3>3, <4>1, <4>2, <4>3, OthersKept
    <3>4. QED
      BY <3>1, <3>2, <3>3
  <2>2. QED
    BY <2>1 DEF LocalInv
<1>6. ThrInv'
  <2>1. thr' \in [DOMAIN thr' -> Thread]
    BY DEF StepShape, Stays, Leaves
  <2>2. DOMAIN thr' \subseteq {gen'} \X (StageIds \cup {Main})
    BY <1>1, <1>4 DEF ThrInv
  <2>3. store' # NoVal /\ file' # NoVal /\ store'.status \in {"queued", "running"}
    BY StepMemory DEF StepShape
  <2>4. \A u \in DOMAIN thr' : u # D => thr'[D].pc = "join"
    <3>1. CASE t = D
      BY <1>4, <3>1 DEF StepShape
    <3>2. CASE t # D
      BY <1>2, <1>3, <1>4, <3>2
    <3>3. QED
      BY <3>1, <3>2
  <2>5. QED
    BY <1>1, <1>3, <1>4, <2>1, <2>2, <2>3, <2>4 DEF ThrInv
<1>7. CountInv'
  <2>1. store' # NoVal /\ file' # NoVal /\ rawRuns' \subseteq StageIds /\ trunk' \subseteq Tasks
    BY StepMemory DEF StepShape
  <2>2. QED
    BY <1>1, <2>1 DEF CountInv
<1>8. QED
  BY <1>1, <1>3, <1>4, <1>5, <1>6, <1>7

\* A step of that shape keeps the invariant.
LEMMA StepKeeps ==
  ASSUME Inv, NEW t \in DOMAIN thr, NEW S, StepShape(t, S)
  PROVE  Inv'
<1>1. /\ ThrInv' /\ CountInv' /\ LocalInv' /\ D' = D /\ D \in DOMAIN thr'
      /\ \A u \in DOMAIN thr' :
           /\ u \in DOMAIN thr /\ thr'[u].role = thr[u].role /\ thr'[u].prompt = thr[u].prompt
           /\ u # t => thr'[u].pc = thr[u].pc /\ thr'[u].stage = thr[u].stage
      /\ \A u \in DOMAIN thr : u # t => u \in DOMAIN thr'
  BY StepThreads
<1>2. /\ TabInv' /\ Synced' /\ file' # NoVal
      /\ saveFails' = 0 => saveFails = 0
      /\ UNCHANGED mem => tab' = tab /\ ftab' = ftab
  BY StepMemory
<1>3. MemInv' /\ HeldInv' /\ UNCHANGED <<isDemo, crashes>> /\ TabStep(t, S)
  BY DEF StepShape, counts
<1>4. RunInv'
  <2>1. SUFFICES ASSUME crashes = 0, saveFails' = 0, NEW id \in DOMAIN tab', tab'[id].status = "running"
                 PROVE  \E u \in DOMAIN thr' : Owns(u, id)'
    BY <1>3 DEF RunInv
  <2>2. CASE id \in S \/ Owns(t, id)
    BY <2>1, <2>2 DEF StepShape, RunStep
  <2>3. CASE id \notin S /\ ~Owns(t, id)
    <3>1. id \in DOMAIN tab /\ tab[id].status = "running"
      BY <1>3, <2>1, <2>3 DEF TabStep
    <3>2. PICK u \in DOMAIN thr : Owns(u, id)
      BY <1>2, <2>1, <3>1 DEF Inv, RunInv
    <3>3. u # t /\ u \in DOMAIN thr'
      BY <1>1, <2>3, <3>2
    <3>4. Owns(u, id)'
      BY <1>1, <3>2, <3>3 DEF Owns
    <3>5. QED
      BY <3>3, <3>4
  <2>4. QED
    BY <2>2, <2>3
<1>5. PersistInv'
  <2>1. ASSUME NEW u \in DOMAIN thr', thr'[u].pc \in HasSession
        PROVE  thr'[u].stage \in DOMAIN ftab' /\ ftab'[thr'[u].stage].status = "running"
    <3>1. Is(thr[u].stage, "running")'
      <4>1. Local(u)'
        BY <1>1 DEF LocalInv
      <4>2. thr'[u].pc \in Busy
        BY <2>1 DEF Busy, HasSession
      <4>3. QED
        BY <4>1, <4>2 DEF Local, Driver, ResumeDriver, DemoDriver, Worker, Resumed, DemoWorker, Busy, Is
    <3>2. thr'[u].stage \in DOMAIN tab' /\ tab'[thr'[u].stage].status = "running"
      BY <3>1 DEF Is
    <3>3. CASE \E ok \in BOOLEAN : ok /\ Saved(ok)
      BY <3>2, <3>3 DEF Saved
    <3>4. CASE ftab' = ftab /\ NoEntry(t)
      <4>1. u \in DOMAIN thr /\ thr[u].pc \in HasSession /\ thr'[u].stage = thr[u].stage
        BY <1>1, <2>1, <3>4 DEF NoEntry
      <4>2. QED
        BY <3>4, <4>1 DEF Inv, PersistInv, HasSession
    <3>5. QED
      BY <1>2, <3>3, <3>4 DEF StepShape, MemStep, Saved
  <2>2. QED
    BY <2>1 DEF PersistInv, HasSession
<1>6. TrunkInv'
  BY <1>2, <1>3, VerifiedKept DEF Inv, TrunkInv, StepShape
<1>7. PromptInv'
  <2>1. SUFFICES ASSUME crashes = 0
                 PROVE  /\ rawRuns' = {}
                        /\ \A u \in DOMAIN thr' : thr'[u].prompt # "task"
                        /\ isDemo => NoFailed' /\ \A u \in DOMAIN thr' : thr'[u].role \in {"demo", "demoworker"}
                        /\ ~isDemo => \A id \in DOMAIN tab' : tab'[id].input = "task" => Awaited(id)'
    BY <1>3 DEF PromptInv
  <2>2. PromptStep(t, S)
    BY DEF StepShape
  <2>3. rawRuns' = {} /\ \A u \in DOMAIN thr' : thr'[u].prompt # "task"
    BY <1>1, <2>1, <2>2 DEF Inv, PromptInv, PromptStep
  <2>4. isDemo => NoFailed' /\ \A u \in DOMAIN thr' : thr'[u].role \in {"demo", "demoworker"}
    <3>1. ASSUME isDemo, NEW id \in DOMAIN tab'
          PROVE  tab'[id].status # "failed"
      <4>1. NoFailed
        BY <2>1, <3>1 DEF Inv, PromptInv
      <4>2. CASE id \in S
        BY <2>1, <2>2, <3>1, <4>1, <4>2 DEF PromptStep, NoFailed
      <4>3. CASE id \notin S
        BY <1>3, <4>1, <4>3 DEF TabStep, NoFailed
      <4>4. QED
        BY <4>2, <4>3
    <3>2. isDemo => \A u \in DOMAIN thr' : thr'[u].role \in {"demo", "demoworker"}
      BY <1>1, <2>1 DEF Inv, PromptInv
    <3>3. QED
      BY <3>1, <3>2 DEF NoFailed
  <2>5. ASSUME ~isDemo, NEW id \in DOMAIN tab', tab'[id].input = "task"
        PROVE  Awaited(id)'
    <3>0. CASE Awaited(id)'
      BY <3>0
    <3> SUFFICES ASSUME ~Awaited(id)'
                 PROVE  Awaited(id)'
      OBVIOUS
    <3>1. /\ id \in DOMAIN tab /\ tab[id].input = "task"
          /\ tab[id].status = "pending" => tab'[id].status = "pending"
          /\ WaitsFor(t, id) => t \in DOMAIN thr' /\ WaitsFor(t, id)'
      BY <2>1, <2>2, <2>5 DEF PromptStep
    <3>2. Awaited(id)
      BY <2>1, <2>5, <3>1 DEF Inv, PromptInv
    <3>3. PICK u \in DOMAIN thr : WaitsFor(u, id)
      <4>1. D \in DOMAIN thr /\ (t # D => thr[D].pc = "join")
        BY ThreadIds DEF Inv, ThrInv
      <4>2. ~(thr[D].role = "driver" /\ thr[D].pc \in {"fanout", "failwf"})
        BY <2>1, <2>2, <4>1 DEF PromptStep
      <4>3. QED
        BY <3>2, <4>2 DEF Awaited
    <3>4. u \in DOMAIN thr' /\ WaitsFor(u, id)'
      <4>1. CASE u = t
        BY <3>1, <3>3, <4>1
      <4>2. CASE u # t
        <5>1. u \in DOMAIN thr'
          BY <1>1, <4>2
        <5>2. QED
          BY <1>1, <3>3, <4>2, <5>1 DEF WaitsFor
      <4>3. QED
        BY <4>1, <4>2
    <3>5. QED
      BY <3>1, <3>2, <3>4 DEF Awaited
  <2>6. QED
    BY <2>3, <2>4, <2>5
<1>8. QED
  BY <1>1, <1>2, <1>3, <1>4, <1>5, <1>6, <1>7 DEF Inv

----------------------------------------------------------------------------
(* What the goroutine operators do *)

\* t goes on at pc, with this stage, result and error.
Fields(t, r, pc, stage, result, err) ==
  /\ r.pc = pc /\ r.stage = stage /\ r.result = result /\ r.err = err /\ r.base = NoVal
  /\ r.role = thr[t].role /\ r.task = thr[t].task
  /\ r.prompt = thr[t].prompt /\ r.good = thr[t].good
Goes(t, pc, stage, result, err) ==
  /\ DOMAIN thr' = DOMAIN thr /\ thr' \in [DOMAIN thr -> Thread]
  /\ \A u \in DOMAIN thr : u # t => thr'[u] = thr[u]
  /\ Fields(t, thr'[t], pc, stage, result, err)

ResultValues ==
  {NoVal} \cup (UNION {Results(k) : k \in {"research", "plan", "implement", "verify"}}) \cup MergeResults

\* The goroutines after Moved.
LEMMA MovedIs ==
  ASSUME ThrInv, NEW t \in DOMAIN thr, NEW pc \in PCs
  PROVE  /\ DOMAIN Moved(t, pc) = DOMAIN thr
         /\ Moved(t, pc) \in [DOMAIN thr -> Thread]
         /\ \A u \in DOMAIN thr : u # t => Moved(t, pc)[u] = thr[u]
         /\ Moved(t, pc)[t] = [thr[t] EXCEPT !.pc = pc, !.base = NoVal, !.at = 0, !.result = NoVal]
         /\ Moved(t, pc)[t] \in Thread
<1>1. thr[t] \in Thread /\ thr \in [DOMAIN thr -> Thread]
  BY DEF ThrInv
<1>2. Moved(t, pc)[t] = [thr[t] EXCEPT !.pc = pc, !.base = NoVal, !.at = 0, !.result = NoVal]
  BY <1>1 DEF Moved
<1>3. [thr[t] EXCEPT !.pc = pc, !.base = NoVal, !.at = 0, !.result = NoVal] \in Thread
  BY <1>1 DEF Thread
<1>4. QED
  BY <1>1, <1>2, <1>3 DEF Moved

\* The fields of the goroutine that moved.
LEMMA MovedFields ==
  ASSUME ThrInv, NEW t \in DOMAIN thr, NEW pc \in PCs
  PROVE  Moved(t, pc)[t] \in Thread /\ Fields(t, Moved(t, pc)[t], pc, thr[t].stage, NoVal, thr[t].err)
<1>1. thr[t] \in Thread
  BY DEF ThrInv
<1>2. /\ Moved(t, pc)[t] \in Thread
      /\ Moved(t, pc)[t] = [thr[t] EXCEPT !.pc = pc, !.base = NoVal, !.at = 0, !.result = NoVal]
  BY MovedIs
<1>3. QED
  BY <1>1, <1>2 DEF Thread, Fields

\* Moved sets the pc and clears what was read.
LEMMA MovedGoes ==
  ASSUME ThrInv, NEW t \in DOMAIN thr, NEW pc \in PCs, 
         thr' = Moved(t, pc)
  PROVE  Goes(t, pc, thr[t].stage, NoVal, thr[t].err)
<1>0. /\ DOMAIN Moved(t, pc) = DOMAIN thr
      /\ Moved(t, pc) \in [DOMAIN thr -> Thread]
      /\ \A u \in DOMAIN thr : u # t => Moved(t, pc)[u] = thr[u]
  BY MovedIs
<1>1. /\ DOMAIN thr' = DOMAIN thr /\ thr' \in [DOMAIN thr -> Thread]
      /\ \A u \in DOMAIN thr : u # t => thr'[u] = thr[u]
  BY <1>0
<1>2. thr'[t] \in Thread /\ Fields(t, thr'[t], pc, thr[t].stage, NoVal, thr[t].err)
  BY MovedFields
<1>3. QED
  BY <1>1, <1>2 DEF Goes

\* A goroutine whose stage is replaced.
LEMMA SetStage ==
  ASSUME NEW q \in Thread, NEW s \in StageIds, NEW p, p = [q EXCEPT !.stage = s]
  PROVE  /\ p \in Thread /\ p.stage = s
         /\ p.pc = q.pc /\ p.role = q.role /\ p.task = q.task /\ p.prompt = q.prompt
         /\ p.base = q.base /\ p.result = q.result /\ p.err = q.err /\ p.good = q.good
  BY DEF Thread, ResultValues

\* Moved, with another stage.
LEMMA MovedStageGoes ==
  ASSUME ThrInv, NEW t \in DOMAIN thr, NEW pc \in PCs, NEW s \in StageIds,
         thr' = [Moved(t, pc) EXCEPT ![t].stage = s]
  PROVE  Goes(t, pc, s, NoVal, thr[t].err)
<1> DEFINE m == Moved(t, pc)
<1>1. /\ DOMAIN m = DOMAIN thr /\ m \in [DOMAIN thr -> Thread]
      /\ \A u \in DOMAIN thr : u # t => m[u] = thr[u]
  BY MovedIs
<1>2. m[t] \in Thread /\ Fields(t, m[t], pc, thr[t].stage, NoVal, thr[t].err)
  BY MovedFields
<1>3. thr' = [m EXCEPT ![t].stage = s]
  OBVIOUS
<1> DEFINE p == [m[t] EXCEPT !.stage = s]
<1> HIDE DEF m
<1>4. thr'[t] = p
  BY <1>1, <1>3
<1>5. /\ p \in Thread /\ p.stage = s
      /\ p.pc = m[t].pc /\ p.role = m[t].role /\ p.task = m[t].task /\ p.prompt = m[t].prompt
      /\ p.base = m[t].base /\ p.result = m[t].result /\ p.err = m[t].err /\ p.good = m[t].good
  BY <1>2, SetStage
<1> HIDE DEF p
<1>6. Fields(t, p, pc, s, NoVal, thr[t].err)
  BY <1>2, <1>5 DEF Fields
<1>7. DOMAIN thr' = DOMAIN thr /\ thr' \in [DOMAIN thr -> Thread] /\ \A u \in DOMAIN thr : u # t => thr'[u] = thr[u]
  BY <1>1, <1>3, <1>4, <1>5
<1>8. QED
  BY <1>4, <1>6, <1>7 DEF Goes

\* A goroutine whose result is replaced.
LEMMA SetResult ==
  ASSUME NEW q \in Thread, NEW r \in ResultValues, NEW p, p = [q EXCEPT !.result = r]
  PROVE  /\ p \in Thread /\ p.result = r
         /\ p.pc = q.pc /\ p.role = q.role /\ p.stage = q.stage /\ p.task = q.task
         /\ p.prompt = q.prompt /\ p.base = q.base /\ p.err = q.err /\ p.good = q.good
  BY DEF Thread, ResultValues

\* Moved, with a result.
LEMMA MovedResultGoes ==
  ASSUME ThrInv, NEW t \in DOMAIN thr, NEW pc \in PCs, NEW r \in ResultValues,
         thr' = [Moved(t, pc) EXCEPT ![t].result = r]
  PROVE  Goes(t, pc, thr[t].stage, r, thr[t].err)
<1> DEFINE m == Moved(t, pc)
<1>1. /\ DOMAIN m = DOMAIN thr /\ m \in [DOMAIN thr -> Thread]
      /\ \A u \in DOMAIN thr : u # t => m[u] = thr[u]
  BY MovedIs
<1>2. m[t] \in Thread /\ Fields(t, m[t], pc, thr[t].stage, NoVal, thr[t].err)
  BY MovedFields
<1>3. thr' = [m EXCEPT ![t].result = r]
  OBVIOUS
<1> DEFINE p == [m[t] EXCEPT !.result = r]
<1> HIDE DEF m
<1>4. thr'[t] = p
  BY <1>1, <1>3
<1>5. /\ p \in Thread /\ p.result = r
      /\ p.pc = m[t].pc /\ p.role = m[t].role /\ p.stage = m[t].stage /\ p.task = m[t].task
      /\ p.prompt = m[t].prompt /\ p.base = m[t].base /\ p.err = m[t].err /\ p.good = m[t].good
  BY <1>2, SetResult
<1> HIDE DEF p
<1>6. Fields(t, p, pc, thr[t].stage, r, thr[t].err)
  BY <1>2, <1>5 DEF Fields
<1>7. DOMAIN thr' = DOMAIN thr /\ thr' \in [DOMAIN thr -> Thread] /\ \A u \in DOMAIN thr : u # t => thr'[u] = thr[u]
  BY <1>1, <1>3, <1>4, <1>5
<1>8. QED
  BY <1>4, <1>6, <1>7 DEF Goes

\* A goroutine whose error is replaced.
LEMMA SetErr ==
  ASSUME NEW q \in Thread, NEW e \in BOOLEAN, NEW p, p = [q EXCEPT !.err = e]
  PROVE  /\ p \in Thread /\ p.err = e
         /\ p.pc = q.pc /\ p.role = q.role /\ p.stage = q.stage /\ p.task = q.task
         /\ p.prompt = q.prompt /\ p.base = q.base /\ p.result = q.result /\ p.good = q.good
  BY DEF Thread, ResultValues

\* Moved, with an error.
LEMMA MovedErrGoes ==
  ASSUME ThrInv, NEW t \in DOMAIN thr, NEW pc \in PCs, NEW e \in BOOLEAN,
         thr' = [Moved(t, pc) EXCEPT ![t].err = e]
  PROVE  Goes(t, pc, thr[t].stage, NoVal, e)
<1> DEFINE m == Moved(t, pc)
<1>1. /\ DOMAIN m = DOMAIN thr /\ m \in [DOMAIN thr -> Thread]
      /\ \A u \in DOMAIN thr : u # t => m[u] = thr[u]
  BY MovedIs
<1>2. m[t] \in Thread /\ Fields(t, m[t], pc, thr[t].stage, NoVal, thr[t].err)
  BY MovedFields
<1>3. thr' = [m EXCEPT ![t].err = e]
  OBVIOUS
<1> DEFINE p == [m[t] EXCEPT !.err = e]
<1> HIDE DEF m
<1>4. thr'[t] = p
  BY <1>1, <1>3
<1>5. /\ p \in Thread /\ p.err = e
      /\ p.pc = m[t].pc /\ p.role = m[t].role /\ p.stage = m[t].stage /\ p.task = m[t].task
      /\ p.prompt = m[t].prompt /\ p.base = m[t].base /\ p.result = m[t].result /\ p.good = m[t].good
  BY <1>2, SetErr
<1> HIDE DEF p
<1>6. Fields(t, p, pc, thr[t].stage, NoVal, e)
  BY <1>2, <1>5 DEF Fields
<1>7. DOMAIN thr' = DOMAIN thr /\ thr' \in [DOMAIN thr -> Thread] /\ \A u \in DOMAIN thr : u # t => thr'[u] = thr[u]
  BY <1>1, <1>3, <1>4, <1>5
<1>8. QED
  BY <1>4, <1>6, <1>7 DEF Goes

\* Exited removes the worker and reports to its driver.
LEMMA ExitedLeaves ==
  ASSUME ThrInv, NEW t \in DOMAIN thr, t # D, NEW err \in BOOLEAN, NEW branches \in SUBSET Tasks,
         thr' = Exited(t, err, branches),
         \A b \in branches : Verified(b)',
         thr[t].role = "worker" /\ ~err => Is(t[2], "done")' /\ Verified(t[2][2])'
  PROVE  /\ Leaves(t, err, branches) /\ t \notin DOMAIN thr'
         /\ \A u \in DOMAIN thr' : u # D => thr'[u] = thr[u]
         /\ thr'[D].base = thr[D].base
<1>1. D \in DOMAIN thr /\ DriverOf(t) = D /\ thr[D] \in Thread
  BY ThreadIds DEF ThrInv
<1>2. thr' = [u \in DOMAIN thr \ {t} |->
                IF u = D THEN [thr[u] EXCEPT !.err = @ \/ err, !.good = @ \cup branches] ELSE thr[u]]
  BY <1>1 DEF Exited
<1>3. thr'[D] = [thr[D] EXCEPT !.err = @ \/ err, !.good = @ \cup branches]
  BY <1>1, <1>2
<1>4. thr'[D].base = thr[D].base
  BY <1>1, <1>3 DEF Thread
<1>5. DOMAIN thr' = DOMAIN thr \ {t} /\ thr' \in [DOMAIN thr' -> Thread]
  <2>1. thr'[D] \in Thread
    BY ZenonT(60), <1>1, <1>3 DEF Thread
  <2>2. QED
    BY <1>2, <1>3, <2>1 DEF ThrInv
<1>6. \A u \in DOMAIN thr' : u # D => thr'[u] = thr[u]
  BY <1>2
<1>7. QED
  BY <1>3, <1>4, <1>5, <1>6 DEF Leaves

\* Get and Upsert of the others.
LEMMA HeldKept ==
  ASSUME ThrInv, HeldInv, store' = store, SameIndex,
         \A u \in DOMAIN thr' : thr'[u].base = NoVal \/ (u \in DOMAIN thr /\ thr'[u] = thr[u])
  PROVE  HeldInv'
<1>1. ASSUME NEW u \in DOMAIN thr', thr'[u].base # NoVal
      PROVE  /\ thr'[u].base = store' /\ thr'[u].role \in Stalled /\ thr'[u].pc \in WritePCs
             /\ thr'[u].at = stageIndex(store, Subject(u))'
  <2>1. u \in DOMAIN thr /\ thr'[u] = thr[u]
    BY <1>1
  <2>2. Subject(u)' = Subject(u)
    BY <2>1 DEF Subject
  <2>3. Subject(u) \in StageIds
    <3>1. thr[u].stage \in StageIds /\ thr[u].task \in StageIds
      BY <2>1 DEF ThrInv, Thread
    <3>2. QED
      BY <3>1, Kinds DEF Subject
  <2>4. stageIndex(store, Subject(u))' = stageIndex(store, Subject(u))
    BY <2>2, <2>3 DEF SameIndex
  <2>5. QED
    BY <1>1, <2>1, <2>4 DEF HeldInv
<1>2. QED
  BY <1>1 DEF HeldInv

\* Without a write the tables and the indices stay.
LEMMA SameMem ==
  ASSUME UNCHANGED mem
  PROVE  store' = store /\ SameIndex /\ tab' = tab /\ ftab' = ftab /\ file' = file /\ saveFails' = saveFails
  BY DEF mem, SameIndex, tab, ftab, stageIndex

\* Of the others, none has a header of its own to lose.
Bases(t) == \A u \in DOMAIN thr' : thr'[u].base = NoVal \/ (u \in DOMAIN thr /\ thr'[u] = thr[u])

\* A worker that leaves changes no header that others hold.
LEMMA LeavesBases ==
  ASSUME ThrInv, HeldInv, NEW t \in DOMAIN thr, NEW err, NEW branches, Leaves(t, err, branches)
  PROVE  Bases(t) /\ t \notin DOMAIN thr'
<1>1. D \in DOMAIN thr /\ thr[D].pc = "join" /\ thr[D] \in Thread
  BY ThreadIds DEF Leaves, ThrInv
<1>2. thr[D].base = NoVal
  BY <1>1 DEF HeldInv, WritePCs
<1>3. thr'[D].base = NoVal
  BY <1>1, <1>2 DEF Leaves, Thread
<1>4. QED
  BY <1>3 DEF Leaves, Bases

\* A step that writes nothing.
LEMMA QuietShape ==
  ASSUME Inv, NEW t \in DOMAIN thr, UNCHANGED mem, UNCHANGED counts,
         rawRuns' \subseteq StageIds, crashes = 0 => rawRuns' = {},
         trunk \subseteq trunk', trunk' \subseteq Tasks, \A b \in trunk' : b \notin trunk => Verified(b),
         t = D => DOMAIN thr = {D} /\ thr[D].pc \notin {"fanout", "failwf"},
         NoEntry(t), Bases(t),
         saveFails = 0 => \A id : Owns(t, id) /\ Is(id, "running") => t \in DOMAIN thr' /\ Owns(t, id)',
         \A id : WaitsFor(t, id) => t \in DOMAIN thr' /\ WaitsFor(t, id)',
         Stays(t) \/ \E err, branches : Leaves(t, err, branches)
  PROVE  StepShape(t, {})
<1>1. store' = store /\ SameIndex /\ tab' = tab /\ ftab' = ftab /\ file' = file /\ saveFails' = saveFails /\ heap' = heap
  BY SameMem DEF mem
<1>2. MemInv'
  BY <1>1 DEF Inv, MemInv
<1>3. store # NoVal /\ store.status \in {"queued", "running"}
  BY DEF Inv, ThrInv
<1>4. HeldInv'
  BY <1>1, HeldKept DEF Inv, Bases
<1>5. TabStep(t, {})
  BY <1>1 DEF TabStep
<1>6. RunStep(t, {})
  BY <1>1 DEF RunStep, Is
<1>7. PromptStep(t, {})
  BY <1>1 DEF PromptStep
<1>8. QED
  BY <1>1, <1>2, <1>3, <1>4, <1>5, <1>6, <1>7 DEF StepShape, MemStep

\* A step that writes one stage in place, and perhaps the status.
WriteOf(t, x, v, st, ok) ==
  /\ Wrote(x, v, st, ok) /\ UNCHANGED <<trunk, rawRuns, counts>>
  /\ store.status = "running" => st = "running"
  /\ t # D => x \in Own(t) /\ st = store.status
  /\ t = D => thr[D].pc \notin {"join", "fanout", "failwf"}
  /\ tab[x].status = "done" => KindOf(x) = "implement" /\ v.status \in {"done", "failed"}
  /\ x = Merge => v.input = ""
  /\ v.status = "failed" => thr[t].role \notin {"demo", "demoworker"}
  /\ v.status = "running" /\ saveFails' = 0 => t \in DOMAIN thr' /\ Owns(t, x)'
  /\ \A id : Owns(t, id) => id = x
  /\ crashes = 0 /\ ~isDemo /\ v.input = "task" =>
       tab[x].input = "task" /\ tab[x].status # "pending"
  /\ \A id : WaitsFor(t, id) => id = x
  /\ (~ok => NoEntry(t)) /\ Bases(t)
  /\ t \in DOMAIN thr' => thr'[t].base = NoVal
  /\ Stays(t) \/ \E err, branches : Leaves(t, err, branches)

\* A write to one stage has the shape of a step.
LEMMA WriteShape ==
  ASSUME Inv, NEW t \in DOMAIN thr, NEW x \in DOMAIN tab, NEW v \in Stage, NEW ok \in BOOLEAN,
         NEW st \in {"queued", "running"}, WriteOf(t, x, v, st, ok)
  PROVE  StepShape(t, {x})
<1> USE DEF WriteOf
<1>1. /\ MemInv' /\ store' = [store EXCEPT !.status = st] /\ store' # NoVal /\ store'.status = st
      /\ tab' = [tab EXCEPT ![x] = v] /\ SameIndex /\ Saved(ok)
  BY DEF Wrote
<1>2. /\ DOMAIN tab' = DOMAIN tab /\ tab'[x] = v
      /\ \A id \in DOMAIN tab : id # x => tab'[id] = tab[id]
  BY <1>1
<1>3. t = D => DOMAIN thr = {D}
  BY Alone DEF Inv
<1>4. TabStep(t, {x})
  BY <1>2 DEF TabStep
<1>5. RunStep(t, {x})
  BY <1>2 DEF RunStep
<1>6. PromptStep(t, {x})
  <2>1. SUFFICES ASSUME crashes = 0 PROVE PromptStep(t, {x})
    BY DEF PromptStep
  <2>2. rawRuns' = {} /\ (isDemo => thr[t].role \in {"demo", "demoworker"})
    BY <2>1 DEF Inv, PromptInv
  <2>3. \A id \in DOMAIN tab' : id \in {x} /\ tab'[id].status = "failed" => ~isDemo
    BY <1>2, <2>2
  <2>4. ASSUME ~isDemo, NEW id \in DOMAIN tab', tab'[id].input = "task"
        PROVE  /\ id \in DOMAIN tab /\ tab[id].input = "task"
               /\ tab[id].status = "pending" => tab'[id].status = "pending"
               /\ WaitsFor(t, id) => t \in DOMAIN thr' /\ WaitsFor(t, id)'
    <3>1. CASE id = x
      <4>1. tab[x].input = "task" /\ tab[x].status # "pending"
        BY <1>2, <2>1, <2>4, <3>1
      <4>2. ~WaitsFor(t, x)
        <5>1. WaitsFor(t, x) => Is(thr[t].stage, "pending") /\ thr[t].stage = x
          BY DEF WaitsFor, Inv, LocalInv, Local, Worker
        <5>2. QED
          BY <4>1, <5>1 DEF Is
      <4>3. QED
        BY <1>2, <3>1, <4>1, <4>2
    <3>2. CASE id # x
      BY <1>2, <2>4, <3>2
    <3>3. QED
      BY <3>1, <3>2
  <2>5. QED
    BY <2>2, <2>3, <2>4 DEF PromptStep
<1>7. HeldInv'
  <2>1. CASE t = D
    <3>1. \A u \in DOMAIN thr' : u = D \/ u \notin DOMAIN thr
      BY <1>3, <2>1
    <3>2. ~\E err, branches : Leaves(t, err, branches)
      BY <2>1 DEF Leaves
    <3>3. DOMAIN thr' = {D}
      BY <1>3, <2>1, <3>2 DEF Stays
    <3>4. QED
      BY <2>1, <3>3 DEF HeldInv
  <2>2. CASE t # D
    <3>1. store' = store
      <4>1. store \in Header /\ st = store.status
        BY <2>2 DEF Inv, MemInv, ThrInv
      <4>2. QED
        BY <1>1, <4>1 DEF Header
    <3>2. QED
      BY <1>1, <3>1, HeldKept DEF Inv, Bases
  <2>3. QED
    BY <2>1, <2>2
<1>8. trunk \subseteq Tasks /\ rawRuns \subseteq StageIds
  BY DEF Inv, CountInv
<1>9. MemStep(t)
  BY <1>1 DEF MemStep
<1>10. QED
  BY <1>1, <1>3, <1>4, <1>5, <1>6, <1>7, <1>8, <1>9 DEF StepShape

----------------------------------------------------------------------------
(* One action after the other: runStage *)

\* Where a stage is run, and what is known of it there.
LEMMA WorkingAt ==
  ASSUME Inv, NEW t \in DOMAIN thr, thr[t].pc \in {"start"} \cup Busy
  PROVE  /\ \/ t = D /\ thr[t].role = "driver" /\ Driver(t) /\ DOMAIN thr = {D}
            \/ t # D /\ thr[t].role = "worker" /\ Worker(t)
            \/ t # D /\ thr[t].role = "resumed" /\ Resumed(t)
         /\ thr[t].stage \in DOMAIN tab /\ thr[t].stage \in StageIds
         /\ KindOf(thr[t].stage) \in {"research", "plan", "implement", "verify"}
         /\ thr[t].stage # Merge
         /\ tab[thr[t].stage].status = IF thr[t].pc = "start" THEN "pending" ELSE "running"
         /\ t # D => thr[t].stage \in Own(t)
<1>1. thr[t].stage \in StageIds /\ Local(t) /\ D \in DOMAIN thr
  BY ThreadIds DEF Inv, ThrInv, Thread, LocalInv
<1>2. \/ t = D /\ thr[t].role = "driver" /\ Driver(t)
      \/ t # D /\ thr[t].role = "worker" /\ Worker(t)
      \/ t # D /\ thr[t].role = "resumed" /\ Resumed(t)
  BY <1>1 DEF Local, ResumeDriver, DemoDriver, DemoWorker, Busy
<1>3. t = D => DOMAIN thr = {D}
  BY <1>1, Alone DEF Inv, Busy
<1>4. thr[t].pc = "start" => Is(thr[t].stage, "pending")
  BY <1>2 DEF Driver, Worker, Resumed, Busy
<1>5. thr[t].pc # "start" => Is(thr[t].stage, "running")
  BY <1>2 DEF Driver, Worker, Resumed, Busy
<1>6. t # D => thr[t].stage \in Own(t)
  BY <1>2 DEF Worker, Resumed, Own
<1>7. KindOf(thr[t].stage) # "merge" /\ thr[t].stage # Merge
  <2>1. CASE t = D
    BY <2>1, <1>2, Kinds DEF Driver, First, Busy
  <2>2. CASE t # D /\ thr[t].role = "worker"
    BY ZenonT(60), <2>2, <1>1, <1>2, Kinds, ImplementIds DEF Worker, Thread, Inv, ThrInv
  <2>3. CASE t # D /\ thr[t].role = "resumed"
    BY <2>3, <1>2, Kinds DEF Resumed
  <2>4. QED
    BY <1>2, <2>1, <2>2, <2>3
<1>8. KindOf(thr[t].stage) \in {"research", "plan", "implement", "verify"}
  BY <1>1, <1>7 DEF StageIds, KindOf, Research, Plan, Merge
<1>9. QED
  BY <1>1, <1>2, <1>3, <1>4, <1>5, <1>6, <1>7, <1>8 DEF Is

\* The same stages, with the same status and output.
Alike ==
  /\ DOMAIN tab' = DOMAIN tab
  /\ \A id \in DOMAIN tab : tab'[id].status = tab[id].status /\ tab'[id].output = tab[id].output

\* What is known of a stage survives a change of its other fields.
LEMMA AlikeIs ==
  ASSUME Alike
  PROVE  /\ \A id, st : Is(id, st) => Is(id, st)'
         /\ \A b : Verified(b) => Verified(b)'
<1>1. \A id, st : Is(id, st) => Is(id, st)'
  BY DEF Alike, Is
<1>2. ASSUME NEW b, Verified(b)
      PROVE  Verified(b)'
  BY <1>1, <1>2 DEF Verified, Alike, Is
<1>3. QED
  BY <1>1, <1>2

\* A goroutine that goes on keeps the others as they are.
LEMMA GoesStays ==
  ASSUME NEW t \in DOMAIN thr, NEW pc, NEW stage, NEW result, NEW err,
         Goes(t, pc, stage, result, err)
  PROVE  /\ Bases(t) /\ t \in DOMAIN thr' /\ thr'[t].base = NoVal
         /\ Local(t)' => Stays(t)
         /\ pc \notin HasSession => NoEntry(t)
  BY DEF Goes, Fields, Bases, Stays, NoEntry

\* Within runStage.
LEMMA BusyLocal ==
  ASSUME Inv, NEW t \in DOMAIN thr, thr[t].pc \in Busy, NEW pc \in Busy, NEW result,
         Goes(t, pc, thr[t].stage, result, thr[t].err), Alike, UNCHANGED counts,
         pc = "done" => result \in Results(KindOf(thr[t].stage)) \ {LimitText}
  PROVE  Local(t)'
<1>1. /\ thr'[t].pc = pc /\ thr'[t].stage = thr[t].stage /\ thr'[t].result = result
      /\ thr'[t].err = thr[t].err /\ thr'[t].role = thr[t].role /\ thr'[t].task = thr[t].task
      /\ thr'[t].prompt = thr[t].prompt /\ thr'[t].good = thr[t].good /\ DOMAIN thr' = DOMAIN thr
  BY DEF Goes, Fields
<1>2. D' = D /\ (t # D => thr'[D] = thr[D])
  <2>1. D \in DOMAIN thr
    BY ThreadIds DEF Inv
  <2>2. QED
    BY <2>1 DEF counts, D, Goes
<1>3. /\ \A id, st : Is(id, st) => Is(id, st)'
      /\ \A b : Verified(b) => Verified(b)'
      /\ DOMAIN tab' = DOMAIN tab
  BY AlikeIs DEF Alike
<1>4. CASE t = D /\ thr[t].role = "driver" /\ Driver(t)
  <2>1. Driver(t)'
    BY <1>1, <1>3, <1>4 DEF Driver, TwoOnly, Busy, DriverPCs
  <2>2. QED
    BY <1>1, <1>2, <1>4, <2>1 DEF Local
<1>5. CASE t # D /\ thr[t].role = "worker" /\ Worker(t)
  <2>1. Worker(t)'
    BY <1>1, <1>3, <1>5 DEF Worker, Busy, WorkerPCs
  <2>2. thr[D].role = "driver"
    BY <1>5 DEF Inv, LocalInv, Local
  <2>3. QED
    BY <1>1, <1>2, <1>5, <2>1, <2>2 DEF Local
<1>6. CASE t # D /\ thr[t].role = "resumed" /\ Resumed(t)
  <2>1. Resumed(t)'
    BY <1>1, <1>3, <1>6 DEF Resumed, Busy
  <2>2. thr[D].role = "resume"
    BY <1>6 DEF Inv, LocalInv, Local
  <2>3. QED
    BY <1>1, <1>2, <1>6, <2>1, <2>2 DEF Local
<1>7. QED
  BY <1>4, <1>5, <1>6, WorkingAt

\* A step that only moves the goroutine.
LEMMA QuietGoes ==
  ASSUME Inv, NEW t \in DOMAIN thr, UNCHANGED mem, UNCHANGED counts,
         rawRuns' \subseteq StageIds, crashes = 0 => rawRuns' = {},
         trunk \subseteq trunk', trunk' \subseteq Tasks, \A b \in trunk' : b \notin trunk => Verified(b),
         t = D => thr[D].pc \notin {"fanout", "failwf"} /\ DOMAIN thr = {D},
         NEW pc, NEW stage, NEW result, NEW err, Goes(t, pc, stage, result, err), Local(t)',
         pc \in HasSession => thr[t].pc \in HasSession /\ stage = thr[t].stage,
         saveFails = 0 /\ Owns(t, thr[t].stage) /\ Is(thr[t].stage, "running") =>
           /\ stage = thr[t].stage
           /\ pc \in Busy \cup {"demodone"} \/ (thr[t].role = "driver" /\ pc \in {"merging", "finish"}),
         WaitsFor(t, thr[t].stage) => stage = thr[t].stage /\ pc \in {"sem", "start"}
  PROVE  StepShape(t, {})
<1>1. /\ thr'[t].pc = pc /\ thr'[t].stage = stage /\ thr'[t].role = thr[t].role
  BY DEF Goes, Fields
<1>2. Bases(t) /\ t \in DOMAIN thr' /\ Stays(t)
  BY GoesStays
<1>3. NoEntry(t)
  BY <1>1 DEF NoEntry
<1>4. saveFails = 0 => \A id : Owns(t, id) /\ Is(id, "running") => t \in DOMAIN thr' /\ Owns(t, id)'
  BY <1>1, <1>2 DEF Owns
<1>5. \A id : WaitsFor(t, id) => t \in DOMAIN thr' /\ WaitsFor(t, id)'
  BY <1>1, <1>2 DEF WaitsFor
<1>6. QED
  BY <1>2, <1>3, <1>4, <1>5, QuietShape

\* What is left alone by a step that does not merge.
LEMMA Unmerged ==
  ASSUME Inv, UNCHANGED trunk
  PROVE  trunk \subseteq trunk' /\ trunk' \subseteq Tasks /\ \A b \in trunk' : b \notin trunk => Verified(b)
  BY DEF Inv, CountInv
\* No session is started.
LEMMA NotStarted ==
  ASSUME Inv, UNCHANGED rawRuns
  PROVE  rawRuns' \subseteq StageIds /\ (crashes = 0 => rawRuns' = {})
  BY DEF Inv, CountInv, PromptInv

\* A step of a goroutine with a session that writes nothing.
LEMMA BusyQuiet ==
  ASSUME Inv, NEW t \in DOMAIN thr, UNCHANGED <<mem, trunk>>, UNCHANGED counts,
         rawRuns' \subseteq StageIds, crashes = 0 => rawRuns' = {},
         thr[t].pc \in HasSession, NEW pc \in Busy, NEW result,
         Goes(t, pc, thr[t].stage, result, thr[t].err),
         pc = "done" => result \in Results(KindOf(thr[t].stage)) \ {LimitText}
  PROVE  StepShape(t, {})
<1>1. tab' = tab /\ Alike
  BY SameMem DEF Alike
<1>2. thr[t].pc \in Busy /\ thr[t].pc \notin {"fanout", "failwf", "join"}
  BY DEF Busy, HasSession
<1>3. Local(t)'
  BY <1>1, <1>2, BusyLocal
<1>4. t = D => thr[D].pc \notin {"fanout", "failwf"} /\ DOMAIN thr = {D}
  BY <1>2, Alone DEF Inv
<1>5. ~WaitsFor(t, thr[t].stage)
  BY DEF WaitsFor, HasSession
<1>6. QED
  BY <1>3, <1>4, <1>5, Unmerged, QuietGoes

\* StageCreateSession has the shape of a step.
LEMMA CreateShape ==
  ASSUME Inv, NEW t \in DOMAIN thr, StageCreateSession(t)
  PROVE  StepShape(t, {})
<1>1. thr[t].pc \in HasSession /\ UNCHANGED <<mem, trunk, counts>> /\ ThrInv
  BY DEF StageCreateSession, HasSession, Inv
<1>2. "record" \in PCs /\ "failing" \in PCs /\ "record" \in Busy /\ "failing" \in Busy
  BY DEF PCs, Busy, DriverPCs
<1>3. CASE thr' = Moved(t, "record") /\ rawRuns' = rawRuns \cup {s \in {thr[t].stage} : thr[t].prompt = "task"}
  <2>1. Goes(t, "record", thr[t].stage, NoVal, thr[t].err)
    BY <1>1, <1>2, <1>3, MovedGoes
  <2>2. rawRuns \subseteq StageIds /\ thr[t].stage \in StageIds
    BY DEF Inv, CountInv, ThrInv, Thread
  <2>3. crashes = 0 => rawRuns = {} /\ thr[t].prompt # "task"
    BY DEF Inv, PromptInv
  <2>4. rawRuns' \subseteq StageIds /\ (crashes = 0 => rawRuns' = {})
    BY <1>3, <2>2, <2>3
  <2>5. QED
    BY <1>1, <1>2, <2>1, <2>4, BusyQuiet
<1>4. CASE thr' = Moved(t, "failing") /\ UNCHANGED rawRuns
  <2>1. Goes(t, "failing", thr[t].stage, NoVal, thr[t].err)
    BY <1>1, <1>2, <1>4, MovedGoes
  <2>2. QED
    BY <1>1, <1>2, <1>4, <2>1, NotStarted, BusyQuiet
<1>5. QED
  BY <1>3, <1>4 DEF StageCreateSession

\* StageTimeout has the shape of a step.
LEMMA TimeoutShape ==
  ASSUME Inv, NEW t \in DOMAIN thr, StageTimeout(t)
  PROVE  StepShape(t, {})
<1>1. thr[t].pc \in HasSession /\ UNCHANGED <<mem, trunk, counts>> /\ UNCHANGED rawRuns /\ ThrInv
  BY DEF StageTimeout, HasSession, Inv
<1>2. "failing" \in PCs /\ "failing" \in Busy
  BY DEF PCs, Busy, DriverPCs
<1>3. Goes(t, "failing", thr[t].stage, NoVal, thr[t].err)
  BY <1>1, <1>2, MovedGoes DEF StageTimeout
<1>4. QED
  BY <1>1, <1>2, <1>3, NotStarted, BusyQuiet

\* StageSessionEnds has the shape of a step.
LEMMA SessionEndsShape ==
  ASSUME Inv, NEW t \in DOMAIN thr, StageSessionEnds(t)
  PROVE  StepShape(t, {})
<1>1. /\ thr[t].pc \in HasSession /\ UNCHANGED <<mem, trunk, counts>> /\ UNCHANGED rawRuns /\ ThrInv
      /\ thr[t].pc \in Busy
  BY DEF StageSessionEnds, HasSession, Inv, Busy
<1>2. {"failing", "done"} \subseteq PCs /\ {"failing", "done"} \subseteq Busy
  BY DEF PCs, Busy, DriverPCs
<1>3. CASE thr' = Moved(t, "failing")
  <2>1. Goes(t, "failing", thr[t].stage, NoVal, thr[t].err)
    BY <1>1, <1>2, <1>3, MovedGoes
  <2>2. QED
    BY <1>1, <1>2, <2>1, NotStarted, BusyQuiet
<1>4. ASSUME NEW result \in Results(KindOf(thr[t].stage)), result # LimitText,
             thr' = [Moved(t, "done") EXCEPT ![t].result = result]
      PROVE  StepShape(t, {})
  <2>1. KindOf(thr[t].stage) \in {"research", "plan", "implement", "verify"}
    BY <1>1, WorkingAt
  <2>2. result \in ResultValues
    BY <2>1, <1>4 DEF ResultValues
  <2>3. Goes(t, "done", thr[t].stage, result, thr[t].err)
    BY <1>1, <1>2, <1>4, <2>2, MovedResultGoes
  <2>4. QED
    BY <1>1, <1>2, <1>4, <2>3, NotStarted, BusyQuiet
<1>5. QED
  BY <1>3, <1>4 DEF StageSessionEnds, IsUsageLimitError

----------------------------------------------------------------------------
(* The steps between the stages *)

\* StoredOutput reads the table.
LEMMA StoredIs ==
  ASSUME Inv, store # NoVal, NEW id \in DOMAIN tab
  PROVE  /\ StoredOutput(id) = tab[id].output /\ stageIndex(store, id) # 0
         /\ heap[store.arr][stageIndex(store, id)] = tab[id]
<1>1. /\ stageIndex(store, id) \in 1..store.len
      /\ heap[store.arr][stageIndex(store, id)] = tab[id]
  BY IndexOf DEF Inv
<1>2. store.len \in Nat
  BY DEF Inv, MemInv, Header
<1>3. QED
  BY <1>1, <1>2 DEF StoredOutput

\* What Goes says, field by field.
LEMMA GoesFields ==
  ASSUME Inv, NEW t \in DOMAIN thr, NEW pc, NEW stage, NEW result, NEW err,
         Goes(t, pc, stage, result, err), UNCHANGED counts
  PROVE  /\ thr'[t].pc = pc /\ thr'[t].stage = stage /\ thr'[t].result = result
         /\ thr'[t].err = err /\ thr'[t].role = thr[t].role /\ thr'[t].task = thr[t].task
         /\ thr'[t].prompt = thr[t].prompt /\ thr'[t].good = thr[t].good /\ DOMAIN thr' = DOMAIN thr
         /\ D' = D /\ (t # D => thr'[D] = thr[D]) /\ isDemo' = isDemo /\ resumes' = resumes
<1>1. D \in DOMAIN thr
  BY ThreadIds DEF Inv
<1>2. QED
  BY <1>1 DEF counts, D, Goes, Fields

\* FindStage has the shape of a step.
LEMMA FindShape ==
  ASSUME Inv, NEW t \in DOMAIN thr, FindStage(t)
  PROVE  StepShape(t, {})
<1>1. /\ thr[t].pc = "find" /\ UNCHANGED <<mem, trunk, counts>> /\ UNCHANGED counts /\ UNCHANGED rawRuns
      /\ ThrInv /\ MemInv /\ store # NoVal
  BY DEF FindStage, Inv, ThrInv
<1>2. t = D /\ thr[t].role = "driver" /\ Driver(t)
  BY <1>1 DEF Inv, LocalInv, Local, ResumeDriver, DemoDriver, Worker, WorkerPCs, Busy, Resumed, DemoWorker
<1>3. thr[t].stage \in First /\ thr[t].stage \in DOMAIN tab
  BY <1>1, <1>2 DEF Driver, Inv, TabInv, Grows
<1>4. tab' = tab /\ Alike
  BY <1>1, SameMem DEF Alike
<1>5. /\ \A id, st : Is(id, st) => Is(id, st)'
      /\ \A b : Verified(b) => Verified(b)'
  BY <1>4, AlikeIs
<1>6. DOMAIN thr = {D}
  BY <1>1, <1>2, Alone
<1>7. CASE tab[thr[t].stage].status = "pending"
  <2>1. "start" \in PCs
    BY DEF PCs, DriverPCs
  <2>2. thr' = Moved(t, "start")
    BY <1>1, <1>3, <1>7, StoredIs DEF FindStage
  <2>3. Goes(t, "start", thr[t].stage, NoVal, thr[t].err)
    BY <1>1, <2>1, <2>2, MovedGoes
  <2>4. TwoOnly(t)
    <3>1. CASE thr[t].stage = Research
      <4>1. DOMAIN tab = First
        BY <1>1, <1>7, <3>1 DEF Inv, TabInv, Grows
      <4>2. QED
        BY <3>1, <4>1, Kinds DEF TwoOnly
    <3>2. CASE thr[t].stage # Research
      BY <1>1, <1>2, <3>2 DEF Driver
    <3>3. QED
      BY <3>1, <3>2
  <2>5. Driver(t)'
    <3> HIDE <2>2
    <3>1. Is(thr[t].stage, "pending")
      BY <1>3, <1>7 DEF Is
    <3>2. QED
      BY <1>1, <1>2, <1>3, <1>4, <1>5, <2>3, <2>4, <3>1, GoesFields
         DEF Driver, TwoOnly, Busy, DriverPCs
  <2>6. Local(t)'
    BY <1>1, <1>2, <2>3, <2>5, GoesFields DEF Local
  <2>7. QED
    BY <1>1, <1>2, <1>6, <2>3, <2>6, Unmerged, NotStarted, QuietGoes DEF Owns, WaitsFor, Busy, HasSession
<1>8. CASE tab[thr[t].stage].status # "pending"
  <2>1. "failwf" \in PCs
    BY DEF PCs, DriverPCs
  <2>2. thr' = Moved(t, "failwf")
    BY <1>1, <1>3, <1>8, StoredIs DEF FindStage
  <2>3. Goes(t, "failwf", thr[t].stage, NoVal, thr[t].err)
    BY <1>1, <2>1, <2>2, MovedGoes
  <2>4. Driver(t)'
    <3> HIDE <2>2
    <3>1. QED
      BY <1>1, <1>2, <1>4, <1>5, <2>3, GoesFields DEF Driver, Busy, DriverPCs
  <2>5. Local(t)'
    BY <1>1, <1>2, <2>3, <2>4, GoesFields DEF Local
  <2>6. QED
    BY <1>1, <1>2, <1>6, <2>3, <2>5, Unmerged, NotStarted, QuietGoes DEF Owns, WaitsFor, Busy, HasSession
<1>9. QED
  BY <1>7, <1>8

\* ReloadOutput has the shape of a step.
LEMMA ReloadShape ==
  ASSUME Inv, NEW t \in DOMAIN thr, ReloadOutput(t)
  PROVE  StepShape(t, {})
<1>1. /\ thr[t].pc = "reload" /\ UNCHANGED <<mem, trunk, counts>> /\ UNCHANGED counts /\ UNCHANGED rawRuns
      /\ ThrInv /\ MemInv /\ store # NoVal
  BY DEF ReloadOutput, Inv, ThrInv
<1>2. t = D /\ thr[t].role = "driver" /\ Driver(t)
  BY <1>1 DEF Inv, LocalInv, Local, ResumeDriver, DemoDriver, Worker, WorkerPCs, Busy, Resumed, DemoWorker
<1>3. /\ thr[t].stage \in First /\ TwoOnly(t) /\ Is(thr[t].stage, "done")
      /\ thr[t].stage \in DOMAIN tab
      /\ tab[thr[t].stage].output \in Results(KindOf(thr[t].stage)) \ {LimitText}
  BY <1>1, <1>2 DEF Driver, Is
<1>4. tab' = tab /\ Alike
  BY <1>1, SameMem DEF Alike
<1>5. /\ \A id, st : Is(id, st) => Is(id, st)'
      /\ \A b : Verified(b) => Verified(b)'
  BY <1>4, AlikeIs
<1>6. DOMAIN thr = {D}
  BY <1>1, <1>2, Alone
<1>7. StoredOutput(thr[t].stage) = tab[thr[t].stage].output
  BY <1>1, <1>3, StoredIs
<1>8. {"failwf", "find", "addtasks"} \subseteq PCs
  BY DEF PCs, DriverPCs
<1> DEFINE out == tab[thr[t].stage].output
<1>9. \/ thr' = Moved(t, "failwf")
      \/ thr[t].stage = Research /\ thr' = [Moved(t, "find") EXCEPT ![t].stage = Plan]
      \/ thr[t].stage = Plan /\ ValidatePlanOutput(out) /\ thr' = [Moved(t, "addtasks") EXCEPT ![t].result = out]
  BY <1>7 DEF ReloadOutput
<1>10. CASE thr' = Moved(t, "failwf")
  <2>3. Goes(t, "failwf", thr[t].stage, NoVal, thr[t].err)
    BY <1>1, <1>8, <1>10, MovedGoes
  <2>4. Driver(t)'
    <3> HIDE <1>10
    <3>1. QED
      BY <1>1, <1>2, <1>4, <1>5, <2>3, GoesFields DEF Driver, Busy, DriverPCs
  <2>5. Local(t)'
    BY <1>1, <1>2, <2>3, <2>4, GoesFields DEF Local
  <2>6. QED
    BY <1>1, <1>2, <1>6, <2>3, <2>5, Unmerged, NotStarted, QuietGoes DEF Owns, WaitsFor, Busy, HasSession
<1>11. CASE thr[t].stage = Research /\ thr' = [Moved(t, "find") EXCEPT ![t].stage = Plan]
  <2>1. Plan \in StageIds /\ Plan \in First
    BY DEF StageIds, First
  <2>3. Goes(t, "find", Plan, NoVal, thr[t].err)
    BY <1>1, <1>8, <1>11, <2>1, MovedStageGoes
  <2>4. Driver(t)'
    <3>1. thr[t].stage = Research
      BY <1>11
    <3> HIDE <1>11
    <3>2. DOMAIN tab = First /\ Is(Research, "done")
      BY <1>3, <3>1 DEF TwoOnly
    <3>3. QED
      BY <1>1, <1>2, <1>4, <1>5, <2>1, <2>3, <3>2, GoesFields DEF Driver, TwoOnly, Busy, DriverPCs
  <2>5. Local(t)'
    BY <1>1, <1>2, <2>3, <2>4, GoesFields DEF Local
  <2>6. QED
    BY <1>1, <1>2, <1>6, <2>3, <2>5, Unmerged, NotStarted, QuietGoes DEF Owns, WaitsFor, Busy, HasSession
<1>12. CASE thr[t].stage = Plan /\ ValidatePlanOutput(out) /\ thr' = [Moved(t, "addtasks") EXCEPT ![t].result = out]
  <2>1. out \in PlanOutputs /\ out \in ResultValues
    <3>1. KindOf(thr[t].stage) = "plan"
      BY <1>12, Kinds
    <3>2. Results("plan") = {LimitText} \cup PlanOutputs
      BY DEF Results
    <3>3. QED
      BY <1>3, <3>1, <3>2 DEF ResultValues
  <2>3. Goes(t, "addtasks", thr[t].stage, out, thr[t].err)
    BY <1>1, <1>8, <1>12, <2>1, MovedResultGoes
  <2>4. Driver(t)'
    <3>1. thr[t].stage = Plan /\ ValidatePlanOutput(out)
      BY <1>12
    <3> HIDE <1>12
    <3> HIDE DEF out
    <3>2. QED
      BY <1>1, <1>2, <1>3, <1>4, <1>5, <2>1, <2>3, <3>1, GoesFields DEF Driver, TwoOnly, Busy, DriverPCs
  <2>5. Local(t)'
    BY <1>1, <1>2, <2>3, <2>4, GoesFields DEF Local
  <2>6. QED
    BY <1>1, <1>2, <1>6, <2>3, <2>5, Unmerged, NotStarted, QuietGoes DEF Owns, WaitsFor, Busy, HasSession
<1>13. QED
  BY <1>9, <1>10, <1>11, <1>12

\* AcquireWorker has the shape of a step.
LEMMA AcquireShape ==
  ASSUME Inv, NEW t \in DOMAIN thr, AcquireWorker(t)
  PROVE  StepShape(t, {})
<1>1. /\ thr[t].pc = "sem" /\ UNCHANGED <<mem, trunk, counts>> /\ UNCHANGED counts /\ UNCHANGED rawRuns
      /\ ThrInv /\ "start" \in PCs
  BY DEF AcquireWorker, Inv, PCs, DriverPCs
<1>2. /\ t # D
      /\ \/ thr[t].role = "worker" /\ thr[D].role = "driver" /\ Worker(t)
         \/ thr[t].role = "resumed" /\ thr[D].role = "resume" /\ Resumed(t)
  BY <1>1 DEF Inv, LocalInv, Local, Driver, DriverPCs, ResumeDriver, DemoDriver, Busy, DemoWorker
<1>3. tab' = tab /\ Alike
  BY <1>1, SameMem DEF Alike
<1>4. \A id, st : Is(id, st) => Is(id, st)'
  BY <1>3, AlikeIs
<1>5. Goes(t, "start", thr[t].stage, NoVal, thr[t].err)
  BY <1>1, MovedGoes DEF AcquireWorker
<1>6. CASE thr[t].role = "worker" /\ thr[D].role = "driver" /\ Worker(t)
  <2>1. Worker(t)'
    BY <1>1, <1>3, <1>4, <1>5, <1>6, GoesFields DEF Worker, Busy, WorkerPCs
  <2>2. Local(t)'
    BY <1>1, <1>2, <1>5, <1>6, <2>1, GoesFields DEF Local
  <2>3. QED
    BY <1>1, <1>2, <1>5, <2>2, Unmerged, NotStarted, QuietGoes DEF Owns, WaitsFor, Busy, HasSession
<1>7. CASE thr[t].role = "resumed" /\ thr[D].role = "resume" /\ Resumed(t)
  <2>1. Resumed(t)'
    <3>1. /\ thr'[t].pc = "start" /\ thr'[t].stage = thr[t].stage /\ thr'[t].prompt = thr[t].prompt
      BY <1>1, <1>5, GoesFields
    <3>2. Is(thr[t].stage, "pending")'
      BY <1>1, <1>4, <1>7, <3>1 DEF Resumed
    <3>3. QED
      BY <1>7, <3>1, <3>2 DEF Resumed, Busy
  <2>2. Local(t)'
    BY <1>1, <1>2, <1>5, <1>7, <2>1, GoesFields DEF Local
  <2>3. QED
    BY <1>1, <1>2, <1>5, <2>2, Unmerged, NotStarted, QuietGoes DEF Owns, WaitsFor, Busy, HasSession
<1>8. QED
  BY <1>2, <1>6, <1>7

\* WorkerValidates has the shape of a step.
LEMMA ValidateShape ==
  ASSUME Inv, NEW t \in DOMAIN thr, WorkerValidates(t)
  PROVE  StepShape(t, {})
<1>1. /\ thr[t].pc = "validate" /\ UNCHANGED <<mem, trunk, counts>> /\ UNCHANGED counts /\ UNCHANGED rawRuns
      /\ ThrInv /\ store # NoVal /\ {"addverify", "reject"} \subseteq PCs
  BY DEF WorkerValidates, Inv, ThrInv, PCs, WorkerPCs
<1>2. t # D /\ thr[t].role = "worker" /\ thr[D].role = "driver" /\ Worker(t)
  BY <1>1 DEF Inv, LocalInv, Local, Driver, DriverPCs, ResumeDriver, DemoDriver, Busy, Resumed, DemoWorker
<1>3. tab' = tab /\ Alike
  BY <1>1, SameMem DEF Alike
<1>4. \A id, st : Is(id, st) => Is(id, st)'
  BY <1>3, AlikeIs
<1>5. stageIndex(store, thr[t].task) # 0
  BY <1>1, <1>2, StoredIs DEF Worker
<1>6. thr' = Moved(t, "addverify") \/ thr' = Moved(t, "reject")
  BY <1>5 DEF WorkerValidates
<1>7. ASSUME NEW pc \in {"addverify", "reject"}, thr' = Moved(t, pc)
      PROVE  StepShape(t, {})
  <2>1. Goes(t, pc, thr[t].stage, NoVal, thr[t].err)
    BY <1>1, <1>7, MovedGoes
  <2> HIDE <1>7
  <2>2. Worker(t)'
    BY <1>1, <1>2, <1>3, <1>4, <2>1, GoesFields DEF Worker, Busy, WorkerPCs
  <2>3. Local(t)'
    BY <1>1, <1>2, <2>1, <2>2, GoesFields DEF Local
  <2>4. QED
    BY <1>1, <1>2, <2>1, <2>3, Unmerged, NotStarted, QuietGoes DEF Owns, WaitsFor, Busy, HasSession
<1>8. QED
  BY <1>6, <1>7

\* A step that only ends the worker.
LEMMA QuietLeaves ==
  ASSUME Inv, NEW t \in DOMAIN thr, UNCHANGED mem, UNCHANGED counts, UNCHANGED trunk, UNCHANGED rawRuns,
         NEW err \in BOOLEAN, NEW branches \in SUBSET Tasks, Leaves(t, err, branches),
         saveFails = 0 => \A id : ~(Owns(t, id) /\ Is(id, "running")),
         \A id : ~WaitsFor(t, id)
  PROVE  StepShape(t, {})
<1>1. t # D
  BY DEF Leaves
<1>2. Bases(t) /\ t \notin DOMAIN thr'
  BY LeavesBases DEF Inv
<1>3. NoEntry(t)
  BY <1>2 DEF NoEntry
<1>4. QED
  BY <1>1, <1>2, <1>3, Unmerged, NotStarted, QuietShape

\* WorkerJudges has the shape of a step: only a passed branch is reported.
LEMMA JudgeShape ==
  ASSUME Inv, NEW t \in DOMAIN thr, WorkerJudges(t)
  PROVE  StepShape(t, {})
<1>1. /\ thr[t].pc = "judge" /\ UNCHANGED <<mem, trunk, counts>> /\ UNCHANGED counts /\ UNCHANGED rawRuns
      /\ ThrInv /\ store # NoVal /\ "reject" \in PCs
  BY DEF WorkerJudges, Inv, ThrInv, PCs, WorkerPCs
<1>2. t # D /\ thr[t].role = "worker" /\ thr[D].role = "driver" /\ Worker(t)
  BY <1>1 DEF Inv, LocalInv, Local, Driver, DriverPCs, ResumeDriver, DemoDriver, Busy, Resumed, DemoWorker
<1>3. tab' = tab /\ Alike
  BY <1>1, SameMem DEF Alike
<1>4. \A id, st : Is(id, st) => Is(id, st)'
  BY <1>3, AlikeIs
<1>5. /\ thr[t].stage = VerifyOf(t[2]) /\ thr[t].task = t[2] /\ t[2] \in StageIds /\ KindOf(t[2]) = "implement"
      /\ Is(thr[t].stage, "done")
  BY <1>1, <1>2, ThreadIds DEF Worker, Inv
<1>6. Is(t[2], "done") /\ thr[t].stage \in DOMAIN tab /\ t[2][2] \in Tasks
  BY <1>2, <1>5, ImplementIds DEF Worker, Is
<1>7. CASE VerifierPasses(StoredOutput(thr[t].stage))
  <2>1. thr' = Exited(t, FALSE, {t[2][2]})
    BY <1>5, <1>7 DEF WorkerJudges, BranchOf
  <2>2. Verified(t[2][2])
    <3>1. VerifierPasses(tab[thr[t].stage].output)
      BY <1>1, <1>6, <1>7, StoredIs
    <3>2. thr[t].stage = <<"verify", t[2][2]>>
      BY <1>5 DEF VerifyOf
    <3>3. QED
      BY <1>5, <3>1, <3>2 DEF Verified
  <2>3. Verified(t[2][2])' /\ Is(t[2], "done")'
    BY <1>3, <1>4, <1>6, <2>2, AlikeIs
  <2>4. Leaves(t, FALSE, {t[2][2]})
    BY <1>1, <1>2, <1>6, <2>1, <2>3, ExitedLeaves
  <2>5. {t[2][2]} \in SUBSET Tasks
    BY <1>6
  <2>6. (\A id : ~Owns(t, id)) /\ \A id : ~WaitsFor(t, id)
    BY <1>1, <1>2 DEF Owns, WaitsFor, Busy
  <2> HIDE <2>1
  <2>7. QED
    BY <1>1, <2>4, <2>5, <2>6, QuietLeaves
<1>8. CASE ~VerifierPasses(StoredOutput(thr[t].stage))
  <2>1. Goes(t, "reject", thr[t].stage, NoVal, thr[t].err)
    BY <1>1, <1>8, MovedGoes DEF WorkerJudges
  <2>2. Worker(t)'
    BY <1>1, <1>2, <1>3, <1>4, <2>1, GoesFields DEF Worker, Busy, WorkerPCs
  <2>3. Local(t)'
    BY <1>1, <1>2, <2>1, <2>2, GoesFields DEF Local
  <2>4. QED
    BY <1>1, <1>2, <2>1, <2>3, Unmerged, NotStarted, QuietGoes DEF Owns, WaitsFor, Busy, HasSession
<1>9. QED
  BY <1>7, <1>8

\* Join has the shape of a step: all workers have reported.
LEMMA JoinShape ==
  ASSUME Inv, NEW t \in DOMAIN thr, Join(t)
  PROVE  StepShape(t, {})
<1>1. /\ thr[t].pc = "join" /\ UNCHANGED <<mem, trunk, counts>> /\ UNCHANGED counts /\ UNCHANGED rawRuns
      /\ ThrInv /\ {"addmerge", "finish", "demofinish"} \subseteq PCs
  BY DEF Join, Inv, PCs, DriverPCs
<1>2. /\ t = D
      /\ \/ thr[t].role = "driver" /\ Driver(t)
         \/ thr[t].role = "resume" /\ ResumeDriver(t)
         \/ thr[t].role = "demo" /\ DemoDriver(t)
  BY <1>1 DEF Inv, LocalInv, Local, Worker, WorkerPCs, Busy, Resumed, DemoWorker
<1>3. DOMAIN thr = {D}
  BY <1>1, <1>2, ThreadIds DEF Join, Workers, D
<1>4. tab' = tab /\ Alike /\ store' = store
  BY <1>1, SameMem DEF Alike
<1>5. /\ \A id, st : Is(id, st) => Is(id, st)'
      /\ \A b : Verified(b) => Verified(b)'
  BY <1>4, AlikeIs
<1>6. CASE thr[t].role = "driver" /\ Driver(t)
  <2>1. thr' = Moved(t, "addmerge")
    BY <1>6 DEF Join
  <2>2. Goes(t, "addmerge", thr[t].stage, NoVal, thr[t].err)
    BY <1>1, <2>1, MovedGoes
  <2> HIDE <2>1
  <2>3. Driver(t)'
    BY <1>1, <1>2, <1>4, <1>5, <1>6, <2>2, GoesFields DEF Driver, Busy, DriverPCs
  <2>4. Local(t)'
    BY <1>1, <1>2, <1>6, <2>2, <2>3, GoesFields DEF Local
  <2>5. QED
    BY <1>1, <1>2, <1>3, <2>2, <2>4, Unmerged, NotStarted, QuietGoes DEF Owns, WaitsFor, Busy, HasSession
<1>7. CASE thr[t].role = "resume" /\ ResumeDriver(t)
  <2>1. thr' = Moved(t, "finish")
    BY <1>7 DEF Join
  <2>2. Goes(t, "finish", thr[t].stage, NoVal, thr[t].err)
    BY <1>1, <2>1, MovedGoes
  <2> HIDE <2>1
  <2>3. ResumeDriver(t)'
    BY <1>1, <1>7, <2>2, GoesFields DEF ResumeDriver
  <2>4. Local(t)'
    BY <1>1, <1>2, <1>7, <2>2, <2>3, GoesFields DEF Local
  <2>5. QED
    BY <1>1, <1>2, <1>3, <1>7, <2>2, <2>4, Unmerged, NotStarted, QuietGoes DEF Owns, WaitsFor, Busy, HasSession
<1>8. CASE thr[t].role = "demo" /\ DemoDriver(t)
  <2>1. thr' = Moved(t, "demofinish")
    BY <1>8 DEF Join
  <2>2. Goes(t, "demofinish", thr[t].stage, NoVal, thr[t].err)
    BY <1>1, <2>1, MovedGoes
  <2> HIDE <2>1
  <2>3. DemoDriver(t)'
    <3>1. isDemo'
      BY <1>1, <1>8 DEF DemoDriver, counts
    <3>2. thr[t].stage \in First /\ store.status = "running"
      BY <1>1, <1>8 DEF DemoDriver
    <3>3. thr'[t].pc = "demofinish" /\ thr'[t].stage \in First /\ store'.status = "running"
      BY <1>1, <1>4, <2>2, <3>2, GoesFields
    <3>4. QED
      BY <3>1, <3>3 DEF DemoDriver
  <2>4. Local(t)'
    BY <1>1, <1>2, <1>8, <2>2, <2>3, GoesFields DEF Local
  <2>5. QED
    BY <1>1, <1>2, <1>3, <2>2, <2>4, Unmerged, NotStarted, QuietGoes DEF Owns, WaitsFor, Busy, HasSession
<1>9. QED
  BY <1>2, <1>6, <1>7, <1>8

\* The merge pushes only branches it was given.
LEMMA OutcomeIs ==
  ASSUME NEW g \in SUBSET Tasks, NEW o \in MergeOutcomes(g)
  PROVE  o \in MergeResults /\ o.merged \subseteq g
<1>1. \E m \in SUBSET g, e \in BOOLEAN : o = [merged |-> m, err |-> e]
  <2>1. CASE g = {}
    BY <2>1 DEF MergeOutcomes
  <2>2. CASE g # {}
    <3>1. CASE o = [merged |-> {}, err |-> TRUE]
      BY <3>1
    <3>2. CASE \E m \in SUBSET g : o = [merged |-> m, err |-> FALSE]
      BY <3>2
    <3>3. QED
      BY <2>2, <3>1, <3>2 DEF MergeOutcomes
  <2>3. QED
    BY <2>1, <2>2
<1>2. PICK m \in SUBSET g, e \in BOOLEAN : o = [merged |-> m, err |-> e]
  BY <1>1
<1>3. m \in SUBSET Tasks /\ o.merged = m
  BY <1>2
<1>4. QED
  BY <1>2, <1>3 DEF MergeResults

\* The results of the merge are results.
LEMMA MergeResultValues ==
  MergeResults \subseteq ResultValues
  BY Zenon DEF ResultValues

\* MergeBranches has the shape of a step: it pushes verified branches only.
LEMMA MergeShape ==
  ASSUME Inv, NEW t \in DOMAIN thr, MergeBranches(t)
  PROVE  StepShape(t, {})
<1>1. /\ thr[t].pc = "merging" /\ UNCHANGED mem /\ UNCHANGED counts /\ UNCHANGED rawRuns
      /\ ThrInv /\ "finish" \in PCs
  BY DEF MergeBranches, Inv, PCs, DriverPCs
<1>2. t = D /\ thr[t].role = "driver" /\ Driver(t)
  BY <1>1 DEF Inv, LocalInv, Local, ResumeDriver, DemoDriver, Worker, WorkerPCs, Busy, Resumed, DemoWorker
<1>3. DOMAIN thr = {D}
  BY <1>1, <1>2, Alone
<1>4. tab' = tab /\ Alike
  BY <1>1, SameMem DEF Alike
<1>5. /\ \A id, st : Is(id, st) => Is(id, st)'
      /\ \A b : Verified(b) => Verified(b)'
  BY <1>4, AlikeIs
<1>6. PICK o \in MergeOutcomes(thr[t].good) :
        trunk' = trunk \cup o.merged /\ thr' = [Moved(t, "finish") EXCEPT ![t].result = o]
  BY DEF MergeBranches
<1>7. thr[t].good \subseteq Tasks /\ trunk \subseteq Tasks
  BY DEF Inv, ThrInv, Thread, CountInv
<1>8. o \in MergeResults /\ o.merged \subseteq thr[t].good
  BY <1>7, OutcomeIs
<1>9. Goes(t, "finish", thr[t].stage, o, thr[t].err)
  <2>1. o \in ResultValues
    BY <1>8, MergeResultValues
  <2>2. QED
    BY <1>1, <1>6, <2>1, MovedResultGoes
<1>10. trunk \subseteq trunk' /\ trunk' \subseteq Tasks /\ \A b \in trunk' : b \notin trunk => Verified(b)
  BY <1>2, <1>6, <1>7, <1>8 DEF Driver
<1> HIDE <1>6
<1>11. Driver(t)'
  BY <1>1, <1>2, <1>4, <1>5, <1>8, <1>9, GoesFields DEF Driver, Busy, DriverPCs
<1>12. Local(t)'
  BY <1>1, <1>2, <1>9, <1>11, GoesFields DEF Local
<1>13. QED
  BY <1>1, <1>2, <1>3, <1>9, <1>10, <1>12, NotStarted, QuietGoes DEF Owns, WaitsFor, Busy, HasSession

----------------------------------------------------------------------------
(* The steps that write one stage *)

\* The stage that t is about to write, found where stageIndex says.
LEMMA PutAt ==
  ASSUME Inv, NEW t \in DOMAIN thr, Subject(t) \in DOMAIN tab
  PROVE  /\ Base(t) = store /\ At(t) = stageIndex(store, Subject(t)) /\ At(t) # 0
         /\ heap[store.arr][stageIndex(store, Subject(t))] = tab[Subject(t)]
         /\ tab[Subject(t)] \in Stage /\ tab[Subject(t)].id = Subject(t)
         /\ store # NoVal /\ store.status \in {"queued", "running"}
         /\ [store EXCEPT !.status = store.status] = store
         /\ MemInv /\ HeldInv /\ ThrInv
<1>1. /\ store # NoVal /\ store.status \in {"queued", "running"} /\ store \in Header
      /\ MemInv /\ HeldInv /\ ThrInv
  BY DEF Inv, ThrInv, MemInv
<1>2. Base(t) = store /\ At(t) = stageIndex(store, Subject(t))
  BY <1>1, BaseIs
<1>3. stageIndex(store, Subject(t)) # 0 /\ heap[store.arr][stageIndex(store, Subject(t))] = tab[Subject(t)]
  BY <1>1, StoredIs
<1>4. tab[Subject(t)] \in Stage /\ tab[Subject(t)].id = Subject(t)
  BY <1>1, TabFacts
<1>5. [store EXCEPT !.status = store.status] = store
  BY <1>1 DEF Header
<1>6. QED
  BY <1>1, <1>2, <1>3, <1>4, <1>5

\* A write to a stage that is not done keeps all that is known of the others.
LEMMA WroteKeeps ==
  ASSUME NEW x \in DOMAIN tab, NEW v, NEW st, NEW ok, Wrote(x, v, st, ok), tab[x].status # "done"
  PROVE  /\ DOMAIN tab' = DOMAIN tab /\ tab'[x] = v
         /\ \A id, s : id # x /\ Is(id, s) => Is(id, s)'
         /\ Is(x, v.status)'
         /\ \A b : Verified(b) => Verified(b)'
<1>1. tab' = [tab EXCEPT ![x] = v]
  BY DEF Wrote
<1>2. DOMAIN tab' = DOMAIN tab /\ tab'[x] = v /\ \A id \in DOMAIN tab : id # x => tab'[id] = tab[id]
  BY <1>1
<1>3. \A id, s : id # x /\ Is(id, s) => Is(id, s)'
  BY <1>2 DEF Is
<1>4. Is(x, v.status)'
  BY <1>2 DEF Is
<1>5. ASSUME NEW b, Verified(b)
      PROVE  Verified(b)'
  <2>1. <<"verify", b>> # x
    BY <1>5 DEF Verified, Is
  <2>2. QED
    BY <1>2, <1>3, <1>5, <2>1 DEF Verified, Is
<1>6. QED
  BY <1>2, <1>3, <1>4, <1>5

\* What runStage's caller relies on when it goes on.
Continues(t) ==
  /\ Bases(t) /\ NoEntry(t)
  /\ t \in DOMAIN thr' => thr'[t].base = NoVal
  /\ Stays(t) \/ \E err, branches : Leaves(t, err, branches)

\* A goroutine that goes on without a session continues.
LEMMA GoesContinues ==
  ASSUME NEW t \in DOMAIN thr, NEW pc, NEW stage, NEW result, NEW err,
         Goes(t, pc, stage, result, err), Local(t)', pc \notin HasSession
  PROVE  Continues(t)
  BY GoesStays DEF Continues

\* A worker that leaves continues.
LEMMA LeavesContinues ==
  ASSUME Inv, NEW t \in DOMAIN thr, NEW err, NEW branches, Leaves(t, err, branches)
  PROVE  Continues(t)
<1>1. Bases(t) /\ t \notin DOMAIN thr'
  BY LeavesBases DEF Inv
<1>2. QED
  BY <1>1 DEF Continues, NoEntry

\* Whatever runStage returned, its caller finds what it relies on.
LEMMA ReturnsTo ==
  ASSUME Inv, NEW t \in DOMAIN thr, thr[t].pc \in {"start"} \cup Busy, UNCHANGED counts,
         NEW x, x = thr[t].stage, NEW v, NEW st, NEW ok, Wrote(x, v, st, ok),
         NEW good \in BOOLEAN, thr' = Returned(t, good),
         good => v.status = "done" /\ v.output \in Results(KindOf(thr[t].stage)) \ {LimitText},
         v.status = "running" => saveFails' # 0
  PROVE  Continues(t)
<1>1. /\ \/ t = D /\ thr[t].role = "driver" /\ Driver(t) /\ DOMAIN thr = {D}
         \/ t # D /\ thr[t].role = "worker" /\ Worker(t)
         \/ t # D /\ thr[t].role = "resumed" /\ Resumed(t)
      /\ x \in DOMAIN tab /\ x \in StageIds
      /\ tab[x].status # "done" /\ ThrInv
  BY WorkingAt DEF Inv
<1>2. /\ DOMAIN tab' = DOMAIN tab /\ tab'[x] = v
      /\ \A id, s : id # x /\ Is(id, s) => Is(id, s)'
      /\ Is(x, v.status)'
      /\ \A b : Verified(b) => Verified(b)'
  BY <1>1, WroteKeeps
<1>3. {"reload", "failwf", "validate", "note"} \subseteq PCs /\ {"reload", "failwf", "validate", "note"} \cap HasSession = {}
  BY DEF PCs, DriverPCs, WorkerPCs, HasSession
<1>4. CASE t = D /\ thr[t].role = "driver" /\ Driver(t)
  <2> DEFINE pc == IF good THEN "reload" ELSE "failwf"
  <2>1. thr' = Moved(t, pc)
    BY <1>4 DEF Returned
  <2>2. Goes(t, pc, x, NoVal, thr[t].err)
    BY <1>1, <1>3, <2>1, MovedGoes
  <2> HIDE <2>1
  <2>3. /\ thr'[t].pc = pc /\ thr'[t].stage = x /\ thr'[t].role = thr[t].role
        /\ thr'[t].prompt = thr[t].prompt /\ thr'[t].good = thr[t].good /\ D' = D
    BY <2>2, GoesFields
  <2>4. Driver(t)'
    <3>1. x \in First /\ TwoOnly(t)
      BY <1>1, <1>4 DEF Driver
    <3>2. TwoOnly(t)'
      BY <1>2, <2>3, <3>1, Kinds DEF TwoOnly
    <3>3. CASE good
      BY <1>2, <1>4, <2>3, <3>1, <3>2, <3>3 DEF Driver, Busy, DriverPCs
    <3>4. CASE ~good
      BY <1>2, <1>4, <2>3, <3>4 DEF Driver, Busy, DriverPCs
    <3>5. QED
      BY <3>3, <3>4
  <2>5. Local(t)'
    BY <1>4, <2>3, <2>4 DEF Local
  <2>6. QED
    BY <1>3, <2>2, <2>5, GoesContinues
<1>5. CASE t # D /\ thr[t].role = "resumed" /\ Resumed(t)
  <2>1. thr' = Exited(t, ~good, {})
    BY <1>5 DEF Returned
  <2>2. Leaves(t, ~good, {})
    BY <1>1, <1>5, <2>1, ExitedLeaves
  <2> HIDE <2>1
  <2>3. QED
    BY <2>2, LeavesContinues
<1>6. CASE t # D /\ thr[t].role = "worker" /\ Worker(t) /\ x = thr[t].task
  <2>1. KindOf(x) = "implement"
    BY <1>6 DEF Worker
  <2>2. CASE good
    <3>1. thr' = Moved(t, "validate")
      BY <1>6, <2>1, <2>2 DEF Returned
    <3>2. Goes(t, "validate", x, NoVal, thr[t].err)
      BY <1>1, <1>3, <3>1, MovedGoes
    <3> HIDE <3>1
    <3>a. /\ thr'[t].pc = "validate" /\ thr'[t].stage = x /\ thr'[t].task = thr[t].task
          /\ thr'[t].err = thr[t].err /\ thr'[t].prompt = thr[t].prompt
      BY <3>2, GoesFields
    <3>b. Is(x, "done")'
      BY <1>2, <2>2
    <3>c. ~thr[t].err
      BY <1>6 DEF Worker, Busy
    <3>3. Worker(t)'
      BY <1>2, <1>6, <3>a, <3>b, <3>c DEF Worker, Busy, WorkerPCs
    <3>4. thr[D].role = "driver"
      BY <1>6 DEF Inv, LocalInv, Local
    <3>5. Local(t)'
      BY <1>6, <3>2, <3>3, <3>4, GoesFields DEF Local
    <3>6. QED
      BY <1>3, <3>2, <3>5, GoesContinues
  <2>3. CASE ~good
    <3>1. thr' = Exited(t, TRUE, {})
      BY <1>6, <2>1, <2>3 DEF Returned
    <3>2. Leaves(t, TRUE, {})
      BY <1>1, <1>6, <3>1, ExitedLeaves
    <3> HIDE <3>1
    <3>3. QED
      BY <3>2, LeavesContinues
  <2>4. QED
    BY <2>2, <2>3
<1>7. CASE t # D /\ thr[t].role = "worker" /\ Worker(t) /\ x # thr[t].task
  <2>1. x = VerifyOf(thr[t].task) /\ KindOf(x) = "verify" /\ Is(thr[t].task, "done")
    <3>1. thr[t].task \in StageIds /\ KindOf(thr[t].task) = "implement"
      BY <1>1, <1>7 DEF Worker, ThrInv, Thread
    <3>2. QED
      BY <1>7, <3>1, ImplementIds DEF Worker
  <2>2. thr' = [Moved(t, "note") EXCEPT ![t].err = ~good]
    BY <1>7, <2>1 DEF Returned
  <2>3. Goes(t, "note", x, NoVal, ~good)
    BY <1>1, <1>3, <2>2, MovedErrGoes
  <2> HIDE <2>2
  <2>4. Worker(t)'
    <3>1. Is(thr[t].task, "done")'
      <4>1. ASSUME NEW k, k # x, Is(k, "done")
            PROVE  Is(k, "done")'
        BY <1>2, <4>1
      <4>2. thr[t].task # x /\ Is(thr[t].task, "done")
        BY <1>7, <2>1
      <4>3. thr'[t].task = thr[t].task
        BY <2>3, GoesFields
      <4>4. QED
        BY <4>1, <4>2, <4>3 DEF Is
    <3>2. /\ thr'[t].pc = "note" /\ thr'[t].stage = x /\ thr'[t].task = thr[t].task /\ thr'[t].err = ~good
          /\ thr'[t].prompt = thr[t].prompt
      BY <2>3, GoesFields
    <3>3. good => Is(x, "done")'
      BY <1>2
    <3>4. saveFails' = 0 => tab'[x].status # "running"
      BY <1>2
    <3>5. QED
      BY <1>1, <1>2, <1>7, <2>1, <3>1, <3>2, <3>3, <3>4 DEF Worker, Busy, WorkerPCs
  <2>5. thr[D].role = "driver"
    BY <1>7 DEF Inv, LocalInv, Local
  <2>6. Local(t)'
    BY <1>7, <2>3, <2>4, <2>5, GoesFields DEF Local
  <2>7. QED
    BY <1>3, <2>3, <2>6, GoesContinues
<1>8. QED
  BY <1>1, <1>4, <1>5, <1>6, <1>7

\* A save succeeds or fails.
LEMMA SaveIsBoolean == SaveResults \subseteq BOOLEAN
  BY DEF SaveResults

\* A failed save is counted.
LEMMA FailedSave ==
  ASSUME Inv, NEW ok \in BOOLEAN, Saved(ok), ~ok
  PROVE  saveFails' # 0
  BY DEF Inv, MemInv, Saved

\* A write of runStage.
LEMMA StageWriteShape ==
  ASSUME Inv, NEW t \in DOMAIN thr, thr[t].pc \in {"start"} \cup Busy,
         NEW x, x = thr[t].stage, NEW v \in Stage, NEW ok \in BOOLEAN,
         Wrote(x, v, store.status, ok), UNCHANGED <<trunk, rawRuns, counts>>,
         v.status = "running" /\ saveFails' = 0 => t \in DOMAIN thr' /\ Owns(t, x)',
         crashes = 0 /\ v.input = "task" => tab[x].input = "task" /\ tab[x].status # "pending",
         ~ok => NoEntry(t), Bases(t), t \in DOMAIN thr' => thr'[t].base = NoVal,
         Stays(t) \/ \E err, branches : Leaves(t, err, branches)
  PROVE  x \in DOMAIN tab /\ StepShape(t, {x})
<1> PICK st : st = store.status
  OBVIOUS
<1>1. /\ \/ t = D /\ thr[t].role = "driver" /\ Driver(t) /\ DOMAIN thr = {D}
         \/ t # D /\ thr[t].role = "worker" /\ Worker(t)
         \/ t # D /\ thr[t].role = "resumed" /\ Resumed(t)
      /\ x \in DOMAIN tab /\ x \in StageIds /\ x # Merge
      /\ tab[x].status # "done"
      /\ t # D => x \in Own(t)
  BY WorkingAt
<1>2. st \in {"queued", "running"} /\ (store.status = "running" => st = "running")
  BY DEF Inv, ThrInv
<1>3. t # D => x \in Own(t) /\ st = store.status
  BY <1>1
<1>4. t = D => thr[D].pc \notin {"join", "fanout", "failwf"}
  BY DEF Busy
<1>5. tab[x].status = "done" => KindOf(x) = "implement" /\ v.status \in {"done", "failed"}
  BY <1>1
<1>6. x = Merge => v.input = ""
  BY <1>1
<1>7. v.status = "failed" => thr[t].role \notin {"demo", "demoworker"}
  BY <1>1
<1>8. (\A id : Owns(t, id) => id = x) /\ (\A id : WaitsFor(t, id) => id = x)
  BY DEF Owns, WaitsFor
<1>9. crashes = 0 /\ ~isDemo /\ v.input = "task" => tab[x].input = "task" /\ tab[x].status # "pending"
  OBVIOUS
<1>10. Wrote(x, v, st, ok)
  OBVIOUS
<1>11. WriteOf(t, x, v, st, ok)
  BY <1>2, <1>3, <1>4, <1>5, <1>6, <1>7, <1>8, <1>9, <1>10 DEF WriteOf
<1>12. QED
  BY <1>1, <1>2, <1>11, WriteShape

\* StageStart has the shape of a step.
LEMMA StartShape ==
  ASSUME Inv, NEW t \in DOMAIN thr, StageStart(t)
  PROVE  \E x \in DOMAIN tab : StepShape(t, {x})
<1>1. PICK x : x = thr[t].stage
  OBVIOUS
<1>2. thr[t].pc = "start" /\ UNCHANGED <<trunk, rawRuns, counts>> /\ UNCHANGED counts /\ thr[t].pc \notin HasSession
  BY DEF StageStart, HasSession
<1>3. /\ \/ t = D /\ thr[t].role = "driver" /\ Driver(t) /\ DOMAIN thr = {D}
         \/ t # D /\ thr[t].role = "worker" /\ Worker(t)
         \/ t # D /\ thr[t].role = "resumed" /\ Resumed(t)
      /\ x \in DOMAIN tab /\ x \in StageIds /\ x # Merge
      /\ tab[x].status = "pending"
      /\ t # D => x \in Own(t)
  BY <1>1, <1>2, WorkingAt
<1>4. Subject(t) = x
  BY <1>1, <1>2 DEF Subject
<1>5. /\ Base(t) = store /\ At(t) = stageIndex(store, x) /\ At(t) # 0
      /\ heap[store.arr][stageIndex(store, x)] = tab[x]
      /\ tab[x] \in Stage /\ tab[x].id = x
      /\ store # NoVal /\ store.status \in {"queued", "running"}
      /\ [store EXCEPT !.status = store.status] = store
      /\ MemInv /\ HeldInv /\ ThrInv
  BY <1>3, <1>4, PutAt
<1>6. PICK v : v = [tab[x] EXCEPT !.status = "running", !.input = thr[t].prompt]
  OBVIOUS
<1>7. PICK ok \in BOOLEAN :
        /\ Upsert([heap EXCEPT ![store.arr][stageIndex(store, x)] = v], store, ok)
        /\ thr' = IF ok THEN Moved(t, "create") ELSE Returned(t, FALSE)
  BY <1>5, <1>6, SaveIsBoolean DEF StageStart, InPlace
<1>8. v \in Stage /\ v.id = x /\ v.status = "running" /\ v.input = thr[t].prompt
  <2>1. thr[t].prompt \in {"", "task", StagePrompt}
    BY <1>5 DEF ThrInv, Thread
  <2>2. QED
    BY <1>5, <1>6, <2>1 DEF Stage
<1>9. Wrote(x, v, store.status, ok)
  <2>1. store.status \in Statuses
    BY <1>5 DEF Statuses
  <2>2. Upsert([heap EXCEPT ![store.arr][stageIndex(store, x)] = v], [store EXCEPT !.status = store.status], ok)
    BY <1>5, <1>7
  <2>3. QED
    BY <1>3, <1>5, <1>8, <2>1, <2>2, PutEffect
<1>10. Saved(ok)
  BY <1>9 DEF Wrote
<1>11. crashes = 0 => v.input # "task"
  BY <1>8 DEF Inv, PromptInv
<1>14. CASE ~ok
  <2>1. thr' = Returned(t, FALSE)
    BY <1>7, <1>14
  <2>2. saveFails' # 0
    BY <1>10, <1>14, FailedSave
  <2>3. Continues(t)
    BY <1>1, <1>2, <1>8, <1>9, <2>1, <2>2, ReturnsTo
  <2> HIDE <1>7, <2>1
  <2>4. StepShape(t, {x})
    BY <1>1, <1>2, <1>8, <1>9, <1>11, <2>2, <2>3, StageWriteShape DEF Continues
  <2>5. QED
    BY <1>3, <2>4
<1>15. CASE ok
  <2>1. "create" \in PCs /\ "create" \in Busy
    BY DEF PCs, DriverPCs, Busy
  <2>2. Goes(t, "create", x, NoVal, thr[t].err)
    BY <1>1, <1>5, <1>7, <1>15, <2>1, MovedGoes
  <2> HIDE <1>7
  <2>3. /\ thr'[t].pc = "create" /\ thr'[t].stage = x /\ thr'[t].role = thr[t].role
        /\ thr'[t].prompt = thr[t].prompt /\ thr'[t].good = thr[t].good /\ thr'[t].task = thr[t].task
        /\ thr'[t].err = thr[t].err /\ D' = D /\ (t # D => thr'[D] = thr[D])
    BY <1>2, <2>2, GoesFields
  <2>4. /\ DOMAIN tab' = DOMAIN tab /\ tab'[x] = v
        /\ \A id, s : id # x /\ Is(id, s) => Is(id, s)'
        /\ Is(x, v.status)'
        /\ \A b : Verified(b) => Verified(b)'
    BY <1>3, <1>9, WroteKeeps
  <2>5. Is(x, "running")'
    BY <1>8, <2>4
  <2>6. Local(t)'
    <3>1. CASE t = D /\ thr[t].role = "driver" /\ Driver(t)
      <4>1. x \in First /\ TwoOnly(t)
        BY <1>1, <1>2, <3>1 DEF Driver
      <4>2. TwoOnly(t)'
        BY <1>1, <2>3, <2>4, <4>1, Kinds DEF TwoOnly
      <4>3. Driver(t)'
        BY <2>3, <2>4, <2>5, <3>1, <4>1, <4>2 DEF Driver, Busy, DriverPCs
      <4>4. QED
        BY <2>3, <3>1, <4>3 DEF Local
    <3>2. CASE t # D /\ thr[t].role = "worker" /\ Worker(t)
      <4>1. thr[D].role = "driver"
        BY <3>2 DEF Inv, LocalInv, Local
      <4>2. x # thr[t].task => Is(thr[t].task, "done")'
        BY <1>1, <2>3, <2>4, <3>2 DEF Worker
      <4>3. Worker(t)'
        BY <1>1, <1>2, <2>3, <2>4, <2>5, <3>2, <4>2 DEF Worker, Busy, WorkerPCs
      <4>4. QED
        BY <2>3, <3>2, <4>1, <4>3 DEF Local
    <3>3. CASE t # D /\ thr[t].role = "resumed" /\ Resumed(t)
      <4>1. thr[D].role = "resume"
        BY <3>3 DEF Inv, LocalInv, Local
      <4>2. Resumed(t)'
        BY <1>1, <2>3, <2>5, <3>3 DEF Resumed, Busy
      <4>3. QED
        BY <2>3, <3>3, <4>1, <4>2 DEF Local
    <3>4. QED
      BY <1>3, <3>1, <3>2, <3>3
  <2>7. Bases(t) /\ t \in DOMAIN thr' /\ thr'[t].base = NoVal /\ Stays(t)
    BY <2>2, <2>6, GoesStays
  <2>8. Owns(t, x)'
    BY <2>1, <2>3 DEF Owns
  <2>9. StepShape(t, {x})
    BY <1>1, <1>2, <1>8, <1>9, <1>11, <1>15, <2>7, <2>8, StageWriteShape
  <2>10. QED
    BY <1>3, <2>9
<1>16. QED
  BY <1>14, <1>15

\* StageRecordSession has the shape of a step.
LEMMA RecordShape ==
  ASSUME Inv, NEW t \in DOMAIN thr, StageRecordSession(t)
  PROVE  \E x \in DOMAIN tab : StepShape(t, {x})
<1>1. PICK x : x = thr[t].stage
  OBVIOUS
<1>2. /\ thr[t].pc = "record" /\ UNCHANGED <<trunk, rawRuns, counts>> /\ UNCHANGED counts
      /\ thr[t].pc \in HasSession /\ thr[t].pc \in Busy /\ thr' = Moved(t, "wait")
  BY DEF StageRecordSession, HasSession, Busy
<1>3. x \in DOMAIN tab /\ tab[x].status = "running"
  BY <1>1, <1>2, WorkingAt
<1>4. Subject(t) = x
  BY <1>1, <1>2 DEF Subject
<1>5. /\ Base(t) = store /\ At(t) = stageIndex(store, x) /\ At(t) # 0
      /\ heap[store.arr][stageIndex(store, x)] = tab[x]
      /\ tab[x] \in Stage /\ tab[x].id = x
      /\ store # NoVal /\ store.status \in {"queued", "running"}
      /\ [store EXCEPT !.status = store.status] = store
      /\ MemInv /\ HeldInv /\ ThrInv
  BY <1>3, <1>4, PutAt
<1>6. PICK v : v = [tab[x] EXCEPT !.session = TRUE]
  OBVIOUS
<1>7. PICK ok \in BOOLEAN :
        Upsert([heap EXCEPT ![store.arr][stageIndex(store, x)] = v], store, ok)
  BY <1>5, <1>6, SaveIsBoolean DEF StageRecordSession, InPlace
<1>8. /\ v \in Stage /\ v.id = x /\ v.status = "running" /\ v.input = tab[x].input
      /\ v.output = tab[x].output
  BY <1>3, <1>5, <1>6 DEF Stage
<1>9. Wrote(x, v, store.status, ok)
  <2>1. store.status \in Statuses
    BY <1>5 DEF Statuses
  <2>2. Upsert([heap EXCEPT ![store.arr][stageIndex(store, x)] = v], [store EXCEPT !.status = store.status], ok)
    BY <1>5, <1>7
  <2>3. QED
    BY <1>3, <1>5, <1>8, <2>1, <2>2, PutEffect
<1>10. "wait" \in PCs /\ "wait" \in Busy /\ "wait" \in HasSession
  BY DEF PCs, DriverPCs, Busy, HasSession
<1>11. Goes(t, "wait", thr[t].stage, NoVal, thr[t].err)
  BY <1>2, <1>5, <1>10, MovedGoes
<1>12. thr'[t].pc = "wait" /\ thr'[t].stage = x
  BY <1>1, <1>2, <1>11, GoesFields
<1>13. Alike
  BY <1>3, <1>8, <1>9 DEF Wrote, Alike
<1>14. Local(t)'
  BY <1>2, <1>10, <1>11, <1>13, BusyLocal
<1>15. Bases(t) /\ t \in DOMAIN thr' /\ thr'[t].base = NoVal /\ Stays(t)
  BY <1>11, <1>14, GoesStays
<1>16. Owns(t, x)' /\ NoEntry(t)
  BY <1>1, <1>2, <1>10, <1>12 DEF Owns, NoEntry
<1>17. x \in DOMAIN tab /\ StepShape(t, {x})
  BY <1>1, <1>2, <1>3, <1>8, <1>9, <1>15, <1>16, StageWriteShape
<1>18. QED
  BY <1>17

\* StageDone has the shape of a step.
LEMMA DoneShape ==
  ASSUME Inv, NEW t \in DOMAIN thr, StageDone(t)
  PROVE  \E x \in DOMAIN tab : StepShape(t, {x})
<1>1. PICK x : x = thr[t].stage
  OBVIOUS
<1>2. /\ thr[t].pc = "done" /\ UNCHANGED <<trunk, rawRuns, counts>> /\ UNCHANGED counts
      /\ thr[t].pc \in Busy
  BY DEF StageDone, Busy
<1>3. x \in DOMAIN tab /\ tab[x].status = "running"
  BY <1>1, <1>2, WorkingAt
<1>4. Subject(t) = x
  BY <1>1, <1>2 DEF Subject
<1>5. /\ Base(t) = store /\ At(t) = stageIndex(store, x) /\ At(t) # 0
      /\ heap[store.arr][stageIndex(store, x)] = tab[x]
      /\ tab[x] \in Stage /\ tab[x].id = x
      /\ store # NoVal /\ store.status \in {"queued", "running"}
      /\ [store EXCEPT !.status = store.status] = store
      /\ MemInv /\ HeldInv /\ ThrInv
  BY <1>3, <1>4, PutAt
<1>6. PICK v : v = [tab[x] EXCEPT !.status = "done", !.output = thr[t].result]
  OBVIOUS
<1>7. PICK ok \in BOOLEAN :
        /\ Upsert([heap EXCEPT ![store.arr][stageIndex(store, x)] = v], store, ok)
        /\ thr' = Returned(t, ok)
  BY <1>5, <1>6, SaveIsBoolean DEF StageDone, InPlace
<1>8. thr[t].result \in Results(KindOf(x)) \ {LimitText}
      /\ KindOf(x) \in {"research", "plan", "implement", "verify"}
  <2>1. thr[t].result \in Results(KindOf(x)) \ {LimitText}
    BY <1>1, <1>2, WorkingAt DEF Driver, Worker, Resumed
  <2>2. QED
    BY <1>1, <1>2, <2>1, WorkingAt
<1>9. /\ v \in Stage /\ v.id = x /\ v.status = "done" /\ v.input = tab[x].input
      /\ v.output = thr[t].result
  <2>1. thr[t].result \in UNION {Results(k) : k \in {"research", "plan", "implement", "verify"}}
    BY <1>8
  <2>2. QED
    BY <1>3, <1>5, <1>6, <2>1 DEF Stage
<1>10. Wrote(x, v, store.status, ok)
  <2>1. store.status \in Statuses
    BY <1>5 DEF Statuses
  <2>2. Upsert([heap EXCEPT ![store.arr][stageIndex(store, x)] = v], [store EXCEPT !.status = store.status], ok)
    BY <1>5, <1>7
  <2>3. QED
    BY <1>3, <1>5, <1>9, <2>1, <2>2, PutEffect
<1>11. Continues(t)
  <2>1. v.output \in Results(KindOf(thr[t].stage)) \ {LimitText}
    BY <1>1, <1>8, <1>9
  <2>2. QED
    BY <1>1, <1>2, <1>7, <1>9, <1>10, <2>1, ReturnsTo
<1> HIDE <1>7
<1>12. x \in DOMAIN tab /\ StepShape(t, {x})
  BY <1>1, <1>2, <1>3, <1>9, <1>10, <1>11, StageWriteShape DEF Continues
<1>13. QED
  BY <1>12

\* markStageFailed has the shape of a step.
LEMMA FailedShape ==
  ASSUME Inv, NEW t \in DOMAIN thr, markStageFailed(t)
  PROVE  \E x \in DOMAIN tab : StepShape(t, {x})
<1>1. PICK x : x = Subject(t)
  OBVIOUS
<1>2. /\ thr[t].pc \in {"failing", "reject"} /\ UNCHANGED <<trunk, rawRuns, counts>> /\ UNCHANGED counts
  BY DEF markStageFailed
<1>3. /\ thr[t].pc = "failing" => x = thr[t].stage /\ x \in DOMAIN tab /\ tab[x].status = "running"
                                  /\ thr[t].pc \in Busy
      /\ thr[t].pc = "reject" => x = thr[t].task /\ x \in DOMAIN tab /\ tab[x].status = "done"
  <2>1. CASE thr[t].pc = "failing"
    <3>1. thr[t].pc \in Busy
      BY <2>1 DEF Busy
    <3>2. x = thr[t].stage
      BY <1>1, <2>1 DEF Subject
    <3>3. QED
      BY <2>1, <3>1, <3>2, WorkingAt
  <2>2. CASE thr[t].pc = "reject"
    <3>1. x = thr[t].task
      BY <1>1, <2>2 DEF Subject
    <3>2. thr[t].role = "worker" /\ Worker(t)
      BY <2>2 DEF Inv, LocalInv, Local, Driver, DriverPCs, ResumeDriver, DemoDriver, Busy, Resumed, DemoWorker
    <3>3. QED
      BY <2>2, <3>1, <3>2 DEF Worker, Is
  <2>3. QED
    BY <1>2, <2>1, <2>2
<1>4. x \in DOMAIN tab
  BY <1>2, <1>3
<1>5. /\ Base(t) = store /\ At(t) = stageIndex(store, x) /\ At(t) # 0
      /\ heap[store.arr][stageIndex(store, x)] = tab[x]
      /\ tab[x] \in Stage /\ tab[x].id = x
      /\ store # NoVal /\ store.status \in {"queued", "running"}
      /\ [store EXCEPT !.status = store.status] = store
      /\ MemInv /\ HeldInv /\ ThrInv
  BY <1>1, <1>4, PutAt
<1>6. PICK v : v = [tab[x] EXCEPT !.status = "failed"]
  OBVIOUS
<1>7. PICK ok \in BOOLEAN :
        Upsert([heap EXCEPT ![store.arr][stageIndex(store, x)] = v], store, ok)
  BY <1>5, <1>6, SaveIsBoolean DEF markStageFailed, InPlace
<1>8. v \in Stage /\ v.id = x /\ v.status = "failed" /\ v.input = tab[x].input
  BY <1>5, <1>6 DEF Stage
<1>9. Wrote(x, v, store.status, ok)
  <2>1. store.status \in Statuses
    BY <1>5 DEF Statuses
  <2>2. Upsert([heap EXCEPT ![store.arr][stageIndex(store, x)] = v], [store EXCEPT !.status = store.status], ok)
    BY <1>5, <1>7
  <2>3. QED
    BY <1>4, <1>5, <1>8, <2>1, <2>2, PutEffect
<1>10. CASE thr[t].pc = "failing"
  <2>1. thr' = Returned(t, FALSE)
    BY <1>10 DEF markStageFailed
  <2>2. Continues(t)
    BY <1>2, <1>3, <1>8, <1>9, <1>10, <2>1, ReturnsTo
  <2> HIDE <2>1
  <2>3. x \in DOMAIN tab /\ StepShape(t, {x})
    BY <1>2, <1>3, <1>8, <1>9, <1>10, <2>2, StageWriteShape DEF Continues
  <2>4. QED
    BY <2>3
<1>11. CASE thr[t].pc = "reject"
  <2>1. t # D /\ thr[t].role = "worker" /\ Worker(t)
    BY <1>11 DEF Inv, LocalInv, Local, Driver, DriverPCs, ResumeDriver, DemoDriver, Busy, Resumed, DemoWorker
  <2>2. thr' = Exited(t, TRUE, {})
    BY <1>11 DEF markStageFailed
  <2>3. Leaves(t, TRUE, {})
    BY <1>5, <2>1, <2>2, ExitedLeaves
  <2> HIDE <2>2
  <2>4. Continues(t)
    BY <2>3, LeavesContinues
  <2>5. x \in Own(t) /\ KindOf(x) = "implement" /\ x # Merge
    BY <1>3, <1>11, <2>1, Kinds DEF Worker, Own
  <2>6. (\A id : ~Owns(t, id)) /\ \A id : ~WaitsFor(t, id)
    BY <1>11, <2>1 DEF Owns, WaitsFor, Busy
  <2>7. PICK st : st = store.status
    OBVIOUS
  <2>8. st \in {"queued", "running"} /\ Wrote(x, v, st, ok)
    BY <1>5, <1>9, <2>7
  <2>9. WriteOf(t, x, v, st, ok)
    BY <1>2, <1>3, <1>8, <1>11, <2>1, <2>4, <2>5, <2>6, <2>7, <2>8 DEF WriteOf, Continues
  <2>10. StepShape(t, {x})
    BY <1>4, <1>8, <2>8, <2>9, WriteShape
  <2>11. QED
    BY <1>4, <2>10
<1>12. QED
  BY <1>2, <1>10, <1>11

\* WorkerNotesVerifySession has the shape of a step.
LEMMA NoteShape ==
  ASSUME Inv, NEW t \in DOMAIN thr, WorkerNotesVerifySession(t)
  PROVE  \E x \in DOMAIN tab : StepShape(t, {x})
<1>1. PICK x : x = thr[t].task
  OBVIOUS
<1>2. /\ thr[t].pc = "note" /\ UNCHANGED <<trunk, rawRuns, counts>> /\ UNCHANGED counts
      /\ "judge" \in PCs /\ "judge" \notin HasSession
  BY DEF WorkerNotesVerifySession, PCs, WorkerPCs, HasSession
<1>3. t # D /\ thr[t].role = "worker" /\ thr[D].role = "driver" /\ Worker(t)
  BY <1>2 DEF Inv, LocalInv, Local, Driver, DriverPCs, ResumeDriver, DemoDriver, Busy, Resumed, DemoWorker
<1>4. Subject(t) = x
  BY <1>1, <1>2 DEF Subject
<1>5. /\ x \in DOMAIN tab /\ x \in Own(t) /\ KindOf(x) = "implement" /\ x # Merge
      /\ thr[t].stage \in DOMAIN tab /\ thr[t].stage # x /\ tab[x].status = "done" /\ thr[t].stage = VerifyOf(x)
  <2>1. x \in StageIds
    BY <1>1 DEF Inv, ThrInv, Thread
  <2>2. QED
    BY <1>1, <1>2, <1>3, <2>1, Kinds, ImplementIds DEF Worker, Own, Is
<1>6. /\ Base(t) = store /\ At(t) = stageIndex(store, x) /\ At(t) # 0
      /\ heap[store.arr][stageIndex(store, x)] = tab[x]
      /\ tab[x] \in Stage /\ tab[x].id = x
      /\ store # NoVal /\ store.status \in {"queued", "running"}
      /\ [store EXCEPT !.status = store.status] = store
      /\ MemInv /\ HeldInv /\ ThrInv
  BY <1>4, <1>5, PutAt
<1>7. /\ stageIndex(store, thr[t].stage) # 0
      /\ heap[store.arr][stageIndex(store, thr[t].stage)] = tab[thr[t].stage]
      /\ tab[thr[t].stage] \in Stage
  BY <1>5, <1>6, StoredIs, TabFacts
<1>8. PICK v : v = [tab[x] EXCEPT !.verifySession = tab[thr[t].stage].session]
  OBVIOUS
<1>9. PICK ok \in BOOLEAN :
        Upsert([heap EXCEPT ![store.arr][stageIndex(store, x)] = v], store, ok)
  BY <1>6, <1>7, <1>8, SaveIsBoolean DEF WorkerNotesVerifySession, InPlace
<1>10. v \in Stage /\ v.id = x /\ v.status = "done" /\ v.input = tab[x].input /\ v.output = tab[x].output
  <2>1. tab[thr[t].stage].session \in BOOLEAN
    BY <1>7 DEF Stage
  <2>2. QED
    BY <1>5, <1>6, <1>8, <2>1 DEF Stage
<1>11. PICK st : st = store.status
  OBVIOUS
<1>12. st \in {"queued", "running"} /\ Wrote(x, v, st, ok)
  <2>1. st \in Statuses /\ st \in {"queued", "running"}
    BY <1>6, <1>11 DEF Statuses
  <2>2. Upsert([heap EXCEPT ![store.arr][stageIndex(store, x)] = v], [store EXCEPT !.status = st], ok)
    BY <1>6, <1>9, <1>11
  <2>3. QED
    BY <1>5, <1>6, <1>10, <2>1, <2>2, PutEffect
<1>13. Continues(t)
  <2>1. CASE thr[t].err
    <3>1. thr' = Exited(t, TRUE, {})
      BY <2>1 DEF WorkerNotesVerifySession
    <3>2. Leaves(t, TRUE, {})
      BY <1>3, <1>6, <3>1, ExitedLeaves
    <3> HIDE <3>1
    <3>3. QED
      BY <3>2, LeavesContinues
  <2>2. CASE ~thr[t].err
    <3>1. thr' = Moved(t, "judge")
      BY <2>2 DEF WorkerNotesVerifySession
    <3>2. Goes(t, "judge", thr[t].stage, NoVal, thr[t].err)
      BY <1>2, <1>6, <3>1, MovedGoes
    <3> HIDE <3>1
    <3>3. Alike
      BY <1>5, <1>10, <1>12 DEF Wrote, Alike
    <3>4. /\ thr'[t].pc = "judge" /\ thr'[t].stage = thr[t].stage /\ thr'[t].task = thr[t].task
          /\ thr'[t].err = thr[t].err /\ thr'[t].prompt = thr[t].prompt /\ thr'[t].role = thr[t].role
          /\ D' = D /\ thr'[D] = thr[D]
      BY <1>2, <1>3, <3>2, GoesFields
    <3>5. Is(thr[t].stage, "done")' /\ Is(thr[t].task, "done")' /\ DOMAIN tab' = DOMAIN tab
      BY <1>2, <1>3, <1>5, <1>1, <2>2, <3>3, <3>4, AlikeIs DEF Worker, Alike
    <3>6. Worker(t)'
      BY <1>1, <1>2, <1>3, <1>5, <2>2, <3>4, <3>5 DEF Worker, Busy, WorkerPCs
    <3>7. Local(t)'
      BY <1>3, <3>4, <3>6 DEF Local
    <3>8. QED
      BY <1>2, <3>2, <3>7, GoesContinues
  <2>3. QED
    BY <2>1, <2>2
<1>14. (\A id : ~Owns(t, id)) /\ \A id : ~WaitsFor(t, id)
  BY <1>2, <1>3 DEF Owns, WaitsFor, Busy
<1>15. WriteOf(t, x, v, st, ok)
  BY <1>2, <1>3, <1>5, <1>10, <1>11, <1>12, <1>13, <1>14 DEF WriteOf, Continues
<1>16. StepShape(t, {x})
  BY <1>5, <1>10, <1>12, <1>15, WriteShape
<1>17. QED
  BY <1>5, <1>16

\* Where a stage of the demo is played, and what is known of it there.
LEMMA DemoAt ==
  ASSUME Inv, NEW t \in DOMAIN thr, thr[t].pc \in {"demostart", "demodone"}
  PROVE  /\ \/ t = D /\ thr[t].role = "demo" /\ DemoDriver(t) /\ DOMAIN thr = {D} /\ thr[t].stage \in First
            \/ /\ t # D /\ thr[t].role = "demoworker" /\ DemoWorker(t) /\ thr[D].role = "demo"
               /\ store.status = "running" /\ thr[t].stage \notin First
         /\ isDemo
         /\ thr[t].stage \in DOMAIN tab /\ thr[t].stage # Merge
         /\ tab[thr[t].stage].status = IF thr[t].pc = "demostart" THEN "pending" ELSE "running"
         /\ t # D => thr[t].stage \in Own(t)
         /\ Subject(t) = thr[t].stage
<1>1. Local(t) /\ D \in DOMAIN thr /\ Local(D) /\ thr[t].stage \in StageIds
  BY ThreadIds DEF Inv, LocalInv, ThrInv, Thread
<1>2. \/ t = D /\ thr[t].role = "demo" /\ DemoDriver(t)
      \/ t # D /\ thr[t].role = "demoworker" /\ DemoWorker(t) /\ thr[D].role = "demo"
  BY <1>1 DEF Local, Driver, DriverPCs, ResumeDriver, Worker, WorkerPCs, Resumed, Busy
<1>3. Subject(t) = thr[t].stage
  BY DEF Subject
<1>4. CASE t = D /\ thr[t].role = "demo" /\ DemoDriver(t)
  <2>1. DOMAIN thr = {D}
    BY <1>1, <1>4, Alone DEF Inv
  <2>2. isDemo
    BY <1>4 DEF DemoDriver
  <2>3. thr[t].stage \in First /\ Is(thr[t].stage, IF thr[t].pc = "demostart" THEN "pending" ELSE "running")
    BY <1>4 DEF DemoDriver
  <2>4. QED
    BY <1>3, <1>4, <2>1, <2>2, <2>3, Kinds DEF Is
<1>5. CASE t # D /\ thr[t].role = "demoworker" /\ DemoWorker(t) /\ thr[D].role = "demo"
  <2>1. thr[D].pc = "join" /\ DemoDriver(D)
    BY <1>1, <1>5 DEF Inv, ThrInv, Local
  <2>2. isDemo
    BY <2>1 DEF DemoDriver
  <2>3. store.status = "running"
    BY <2>1 DEF DemoDriver
  <2>4. Is(thr[t].stage, IF thr[t].pc = "demostart" THEN "pending" ELSE "running")
    BY <1>5 DEF DemoWorker
  <2>5. thr[t].stage \notin First /\ thr[t].stage # Merge /\ thr[t].stage \in Own(t)
    BY <1>1, <1>5, ImplementIds DEF DemoWorker, Own
  <2>6. QED
    BY <1>3, <1>5, <2>2, <2>3, <2>4, <2>5 DEF Is
<1>6. QED
  BY <1>2, <1>4, <1>5

\* DemoStart has the shape of a step.
LEMMA DemoStartShape ==
  ASSUME Inv, NEW t \in DOMAIN thr, DemoStart(t)
  PROVE  \E x \in DOMAIN tab : StepShape(t, {x})
<1>1. PICK x : x = thr[t].stage
  OBVIOUS
<1>2. /\ thr[t].pc = "demostart" /\ UNCHANGED <<trunk, rawRuns, counts>> /\ UNCHANGED counts
      /\ "demodone" \in PCs /\ "demodone" \notin HasSession /\ thr' = Moved(t, "demodone")
  BY DEF DemoStart, PCs, HasSession
<1>3. /\ \/ t = D /\ thr[t].role = "demo" /\ DemoDriver(t) /\ DOMAIN thr = {D} /\ x \in First
         \/ /\ t # D /\ thr[t].role = "demoworker" /\ DemoWorker(t) /\ thr[D].role = "demo"
            /\ store.status = "running" /\ x \notin First
      /\ isDemo
      /\ x \in DOMAIN tab /\ x # Merge /\ tab[x].status = "pending"
      /\ t # D => x \in Own(t)
      /\ Subject(t) = x
  BY <1>1, <1>2, DemoAt
<1>4. /\ Base(t) = store /\ At(t) = stageIndex(store, x) /\ At(t) # 0
      /\ heap[store.arr][stageIndex(store, x)] = tab[x]
      /\ tab[x] \in Stage /\ tab[x].id = x
      /\ store # NoVal /\ store.status \in {"queued", "running"}
      /\ MemInv /\ HeldInv /\ ThrInv
  BY <1>3, PutAt
<1>5. PICK v : v = [tab[x] EXCEPT !.status = "running", !.session = TRUE]
  OBVIOUS
<1>6. PICK ok \in BOOLEAN :
        Upsert([heap EXCEPT ![store.arr][stageIndex(store, x)] = v], [store EXCEPT !.status = "running"], ok)
  BY <1>4, <1>5, SaveIsBoolean DEF DemoStart, InPlace
<1>7. v \in Stage /\ v.id = x /\ v.status = "running"
  BY <1>4, <1>5 DEF Stage
<1>8. Wrote(x, v, "running", ok)
  <2>1. "running" \in Statuses
    BY DEF Statuses
  <2>2. QED
    BY <1>3, <1>4, <1>6, <1>7, <2>1, PutEffect
<1>9. Goes(t, "demodone", x, NoVal, thr[t].err)
  BY <1>1, <1>2, <1>4, MovedGoes
<1> HIDE <1>2
<1>10. /\ thr'[t].pc = "demodone" /\ thr'[t].stage = x /\ thr'[t].role = thr[t].role
       /\ D' = D /\ (t # D => thr'[D] = thr[D])
  BY <1>2, <1>9, GoesFields
<1>11. /\ DOMAIN tab' = DOMAIN tab /\ tab'[x] = v
       /\ \A id, s : id # x /\ Is(id, s) => Is(id, s)'
       /\ Is(x, v.status)'
  BY <1>3, <1>8, WroteKeeps
<1>12. Is(x, "running")' /\ store'.status = "running"
  BY <1>7, <1>8, <1>11 DEF Wrote
<1>13. Local(t)'
  <2>1. CASE t = D /\ thr[t].role = "demo" /\ DemoDriver(t) /\ x \in First
    <3>1. isDemo'
      BY <1>2, <1>3 DEF counts
    <3>2. TwoOnly(t)
      BY <1>2, <2>1 DEF DemoDriver
    <3>3. TwoOnly(t)'
      BY <1>1, <1>10, <1>11, <3>2, Kinds DEF TwoOnly
    <3>4. x = Research => Is(Plan, "pending")'
      <4>1. x = Research => Is(Plan, "pending")
        BY <1>1, <1>2, <2>1 DEF DemoDriver
      <4>2. QED
        BY <1>11, <4>1, Kinds
    <3>5. DemoDriver(t)'
      BY <1>10, <1>12, <2>1, <3>1, <3>3, <3>4 DEF DemoDriver
    <3>6. QED
      BY <1>10, <2>1, <3>5 DEF Local
  <2>2. CASE t # D /\ thr[t].role = "demoworker" /\ DemoWorker(t) /\ thr[D].role = "demo"
    <3>1. DemoWorker(t)'
      BY <1>1, <1>10, <1>12, <2>2 DEF DemoWorker
    <3>2. QED
      BY <1>10, <2>2, <3>1 DEF Local
  <2>3. QED
    BY <1>3, <2>1, <2>2
<1>14. Continues(t) /\ t \in DOMAIN thr'
  BY <1>2, <1>9, <1>13, GoesContinues, GoesStays
<1>15. Owns(t, x)' /\ (\A id : ~Owns(t, id)) /\ \A id : ~WaitsFor(t, id)
  BY <1>2, <1>3, <1>10 DEF Owns, WaitsFor, Busy
<1>16. WriteOf(t, x, v, "running", ok)
  BY <1>2, <1>3, <1>7, <1>8, <1>14, <1>15 DEF WriteOf, Continues
<1>17. StepShape(t, {x})
  BY <1>3, <1>7, <1>16, WriteShape
<1>18. QED
  BY <1>3, <1>17

\* DemoDone has the shape of a step.
LEMMA DemoDoneShape ==
  ASSUME Inv, NEW t \in DOMAIN thr, DemoDone(t)
  PROVE  \E x \in DOMAIN tab : StepShape(t, {x})
<1>1. PICK x : x = thr[t].stage
  OBVIOUS
<1>2. /\ thr[t].pc = "demodone" /\ UNCHANGED <<trunk, rawRuns, counts>> /\ UNCHANGED counts
      /\ {"demostart", "demotasks"} \subseteq PCs /\ {"demostart", "demotasks"} \cap HasSession = {}
  BY DEF DemoDone, PCs, HasSession
<1>3. /\ \/ t = D /\ thr[t].role = "demo" /\ DemoDriver(t) /\ DOMAIN thr = {D} /\ x \in First
         \/ /\ t # D /\ thr[t].role = "demoworker" /\ DemoWorker(t) /\ thr[D].role = "demo"
            /\ store.status = "running" /\ x \notin First
      /\ isDemo
      /\ x \in DOMAIN tab /\ x # Merge /\ tab[x].status = "running"
      /\ t # D => x \in Own(t)
      /\ Subject(t) = x
  BY <1>1, <1>2, DemoAt
<1>4. /\ Base(t) = store /\ At(t) = stageIndex(store, x) /\ At(t) # 0
      /\ heap[store.arr][stageIndex(store, x)] = tab[x]
      /\ tab[x] \in Stage /\ tab[x].id = x
      /\ store # NoVal /\ store.status \in {"queued", "running"}
      /\ [store EXCEPT !.status = store.status] = store
      /\ MemInv /\ HeldInv /\ ThrInv
  BY <1>3, PutAt
<1>5. PICK v : v = [tab[x] EXCEPT !.status = "done", !.output = [demo |-> TRUE]]
  OBVIOUS
<1>6. PICK ok \in BOOLEAN :
        Upsert([heap EXCEPT ![store.arr][stageIndex(store, x)] = v], store, ok)
  BY <1>4, <1>5, SaveIsBoolean DEF DemoDone, InPlace
<1>7. v \in Stage /\ v.id = x /\ v.status = "done"
  BY <1>4, <1>5 DEF Stage
<1>8. PICK st : st = store.status
  OBVIOUS
<1>9. st \in {"queued", "running"} /\ Wrote(x, v, st, ok)
  <2>1. st \in Statuses /\ st \in {"queued", "running"}
    BY <1>4, <1>8 DEF Statuses
  <2>2. Upsert([heap EXCEPT ![store.arr][stageIndex(store, x)] = v], [store EXCEPT !.status = st], ok)
    BY <1>4, <1>6, <1>8
  <2>3. QED
    BY <1>3, <1>4, <1>7, <2>1, <2>2, PutEffect
<1>10. /\ DOMAIN tab' = DOMAIN tab /\ tab'[x] = v
       /\ \A id, s : id # x /\ Is(id, s) => Is(id, s)'
       /\ Is(x, v.status)'
  BY <1>3, <1>9, WroteKeeps
<1>11. Is(x, "done")' /\ store'.status = st
  BY <1>7, <1>9, <1>10 DEF Wrote
<1>12. Continues(t)
  <2>1. CASE t = D /\ thr[t].role = "demo" /\ DemoDriver(t) /\ x \in First
    <3>1. isDemo'
      BY <1>2, <1>3 DEF counts
    <3>2. TwoOnly(t) /\ st = "running"
      BY <1>2, <1>8, <2>1 DEF DemoDriver
    <3>3. CASE x = Research
      <4>1. thr' = [Moved(t, "demostart") EXCEPT ![t].stage = Plan]
        BY <1>1, <3>3, Kinds DEF DemoDone
      <4>2. Goes(t, "demostart", Plan, NoVal, thr[t].err)
        BY <1>2, <1>4, <4>1, MovedStageGoes, Kinds
      <4> HIDE <4>1
      <4>3. thr'[t].pc = "demostart" /\ thr'[t].stage = Plan /\ thr'[t].role = thr[t].role /\ D' = D
        BY <1>2, <4>2, GoesFields
      <4>4. Is(Plan, "pending")'
        <5>1. Is(Plan, "pending")
          BY <1>1, <1>2, <2>1, <3>3 DEF DemoDriver
        <5>2. QED
          BY <1>10, <3>3, <5>1, Kinds
      <4>5. TwoOnly(t)'
        BY <1>10, <1>11, <3>2, <3>3 DEF TwoOnly
      <4>6. DemoDriver(t)'
        BY <1>11, <3>1, <3>2, <4>3, <4>4, <4>5, Kinds DEF DemoDriver, First
      <4>7. Local(t)'
        BY <2>1, <4>3, <4>6 DEF Local
      <4>8. QED
        BY <1>2, <4>2, <4>7, GoesContinues
    <3>4. CASE x = Plan
      <4>1. thr' = Moved(t, "demotasks")
        BY <1>1, <3>4, Kinds DEF DemoDone
      <4>a. Goes(t, "demotasks", thr[t].stage, NoVal, thr[t].err)
        BY <1>2, <1>4, <4>1, MovedGoes
      <4>2. Goes(t, "demotasks", Plan, NoVal, thr[t].err)
        BY <1>1, <3>4, <4>a
      <4> HIDE <4>1
      <4>3. thr'[t].pc = "demotasks" /\ thr'[t].stage = Plan /\ thr'[t].role = thr[t].role /\ D' = D
        BY <1>2, <4>2, GoesFields
      <4>4. TwoOnly(t)'
        BY <1>1, <1>10, <3>2, <3>4, <4>3, Kinds DEF TwoOnly
      <4>5. DemoDriver(t)'
        BY <1>11, <3>1, <3>2, <3>4, <4>3, <4>4, Kinds DEF DemoDriver, First
      <4>6. Local(t)'
        BY <2>1, <4>3, <4>5 DEF Local
      <4>7. QED
        BY <1>2, <4>2, <4>6, GoesContinues
    <3>5. QED
      BY <2>1, <3>3, <3>4 DEF First
  <2>2. CASE t # D /\ thr[t].role = "demoworker" /\ x \notin First
    <3>1. thr' = Exited(t, FALSE, {})
      BY <1>1, <2>2 DEF DemoDone, First
    <3>2. Leaves(t, FALSE, {})
      BY <1>4, <2>2, <3>1, ExitedLeaves
    <3> HIDE <3>1
    <3>3. QED
      BY <3>2, LeavesContinues
  <2>3. QED
    BY <1>3, <2>1, <2>2
<1>13. (\A id : Owns(t, id) => id = x) /\ \A id : ~WaitsFor(t, id)
  BY <1>1, <1>2, <1>3 DEF Owns, WaitsFor
<1>14. WriteOf(t, x, v, st, ok)
  BY <1>2, <1>3, <1>7, <1>8, <1>9, <1>12, <1>13 DEF WriteOf, Continues
<1>15. StepShape(t, {x})
  BY <1>3, <1>7, <1>9, <1>14, WriteShape
<1>16. QED
  BY <1>3, <1>15

----------------------------------------------------------------------------
(* The steps that add stages *)

\* The stages S are added, all alike.
Added(S, st, in, ok) ==
  /\ MemInv' /\ store' # NoVal /\ store'.status = store.status /\ Saved(ok)
  /\ DOMAIN tab' = DOMAIN tab \cup S /\ S \cap DOMAIN tab = {}
  /\ \A id \in DOMAIN tab : tab'[id] = tab[id]
  /\ \A id \in S : tab'[id] = NewStage(id, st, in)

\* Appended stages with new ids are added to the table.
LEMMA AddMany ==
  ASSUME MemInv, HeldInv, store # NoVal, NEW new \in Seq(Stage), Distinct(new, Len(new)),
         NEW st, NEW in, NEW ok \in BOOLEAN,
         \A i \in 1..Len(new) : new[i].id \notin DOMAIN tab /\ new[i] = NewStage(new[i].id, st, in),
         Upsert(appended(store, new).heap, appended(store, new).hdr, ok),
         NEW S, S = {new[i].id : i \in 1..Len(new)}
  PROVE  Added(S, st, in, ok)
<1>1. Len(new) \in Nat
  OBVIOUS
<1>2. /\ MemInv' /\ store' # NoVal /\ store'.status = store.status
      /\ tab' = Extended(tab, Table(new, Len(new))) /\ Saved(ok)
  BY AppendEffect
<1>3. /\ DOMAIN Table(new, Len(new)) = {new[i].id : i \in 1..Len(new)}
      /\ \A i \in 1..Len(new) : Table(new, Len(new))[new[i].id] = new[i]
  BY <1>1, TableAt
<1>4. /\ DOMAIN Table(new, Len(new)) = S
      /\ \A id \in S : Table(new, Len(new))[id] = NewStage(id, st, in)
  BY <1>3
<1>5. S \cap DOMAIN tab = {}
  OBVIOUS
<1>6. QED
  BY <1>2, <1>4, <1>5 DEF Added, Extended

\* An interval of one number.
LEMMA Singleton ==
  ASSUME NEW n, n = 1
  PROVE  1..n = {1}
<1>1. \A i \in Int : i \in 1..1 <=> i = 1
  BY SMT
<1>2. \A i \in 1..1 : i \in Int
  BY SMT
<1>3. 1..1 = {1}
  BY <1>1, <1>2
<1>4. QED
  BY <1>3

\* One appended stage.
LEMMA AddOne ==
  ASSUME MemInv, HeldInv, store # NoVal, NEW id \in StageIds, id \notin DOMAIN tab,
         NEW st \in {"pending", "running"}, NEW in \in {"", "task"}, NEW ok \in BOOLEAN,
         NEW new \in Seq(Stage), Len(new) = 1, new[1] = NewStage(id, st, in),
         Upsert(appended(store, new).heap, appended(store, new).hdr, ok)
  PROVE  Added({id}, st, in, ok)
<1>1. NewStage(id, st, in).id = id
  BY NewStageType
<1>2. 1..Len(new) = {1}
  BY Singleton
<1>3. /\ Distinct(new, Len(new))
      /\ \A i \in 1..Len(new) : new[i].id \notin DOMAIN tab /\ new[i] = NewStage(new[i].id, st, in)
  BY <1>1, <1>2 DEF Distinct
<1>4. {id} = {new[i].id : i \in 1..Len(new)}
  BY <1>1, <1>2
<1>5. QED
  BY ZenonT(60), <1>3, <1>4, AddMany

TaskIds(n) == {<<"implement", i>> : i \in 1..n}

\* The appended stages of n tasks.
LEMMA AddTasks ==
  ASSUME MemInv, HeldInv, store # NoVal, NEW n \in 0..MaxTasks,
         \A i \in 1..n : <<"implement", i>> \notin DOMAIN tab, NEW ok \in BOOLEAN,
         NEW new \in Seq(Stage), Len(new) = n,
         \A i \in 1..n : new[i] = NewStage(<<"implement", i>>, "pending", "task"),
         Upsert(appended(store, new).heap, appended(store, new).hdr, ok)
  PROVE  Added(TaskIds(n), "pending", "task", ok) /\ TaskIds(n) \subseteq StageIds
<1>1. MaxTasks \in Nat /\ n \in Nat /\ \A i \in 1..n : i \in Tasks
  BY EngineAssumption DEF Tasks
<1>2. \A i \in 1..n : <<"implement", i>> \in StageIds
  BY <1>1, ImplementIds
<1>3. \A i \in 1..n : NewStage(<<"implement", i>>, "pending", "task").id = <<"implement", i>>
  BY <1>2, NewStageType
<1>4. \A i \in 1..n : new[i].id = <<"implement", i>> /\ new[i] = NewStage(new[i].id, "pending", "task")
  BY <1>3
<1>5. Distinct(new, Len(new))
  BY <1>4 DEF Distinct
<1>6. TaskIds(n) = {new[i].id : i \in 1..Len(new)}
  BY <1>4 DEF TaskIds
<1>7. \A i \in 1..Len(new) : new[i].id \notin DOMAIN tab /\ new[i] = NewStage(new[i].id, "pending", "task")
  BY <1>4
<1>8. Added(TaskIds(n), "pending", "task", ok)
  BY <1>5, <1>6, <1>7, AddMany
<1>9. QED
  BY <1>2, <1>8 DEF TaskIds

\* The slices that are appended.
LEMMA OneStage ==
  ASSUME NEW s \in Stage
  PROVE  <<s>> \in Seq(Stage) /\ Len(<<s>>) = 1 /\ <<s>>[1] = s
  OBVIOUS

\* The stages of n tasks, as a sequence.
LEMMA TaskStages ==
  ASSUME NEW n \in 0..MaxTasks,
         NEW new, new = [i \in 1..n |-> NewStage(<<"implement", i>>, "pending", "task")]
  PROVE  /\ new \in Seq(Stage) /\ Len(new) = n
         /\ \A i \in 1..n : new[i] = NewStage(<<"implement", i>>, "pending", "task")
<1>1. MaxTasks \in Nat /\ n \in Nat /\ \A i \in 1..n : i \in Tasks
  BY EngineAssumption DEF Tasks
<1>2. \A i \in 1..n : NewStage(<<"implement", i>>, "pending", "task") \in Stage
  BY <1>1, ImplementIds, NewStageType
<1>3. new \in [1..n -> Stage]
  BY <1>2
<1>4. new \in Seq(Stage) /\ Len(new) = n
  BY <1>1, <1>3
<1>5. QED
  BY <1>4

\* What is known of the stages survives an append.
LEMMA AddedKeeps ==
  ASSUME NEW S, NEW st, NEW in, NEW ok, Added(S, st, in, ok)
  PROVE  /\ \A id, s : Is(id, s) => Is(id, s)'
         /\ \A b : Verified(b) => Verified(b)'
         /\ \A id \in S : Is(id, st)' /\ tab'[id].input = in /\ tab'[id].status = st
<1>1. \A id, s : Is(id, s) => Is(id, s)'
  BY DEF Added, Is
<1>2. ASSUME NEW b, Verified(b)
      PROVE  Verified(b)'
  BY <1>1, <1>2 DEF Verified, Added, Is
<1>3. \A id \in S : Is(id, st)' /\ tab'[id].input = in /\ tab'[id].status = st
  BY DEF Added, Is, NewStage
<1>4. QED
  BY <1>1, <1>2, <1>3

AddOf(t, S, st, in, ok) ==
  /\ Added(S, st, in, ok) /\ UNCHANGED <<trunk, rawRuns, counts>>
  /\ t # D => S \subseteq Own(t)
  /\ t = D => thr[D].pc \notin {"join", "fanout", "failwf"}
  /\ Merge \in S => in = ""
  /\ DOMAIN tab = First => Is(Research, "done") /\ Is(Plan, "done")
  /\ st = "running" => t \in DOMAIN thr' /\ \A id \in S : Owns(t, id)'
  /\ \A id : ~Owns(t, id) /\ ~WaitsFor(t, id)
  /\ crashes = 0 /\ ~isDemo /\ in = "task" => \A id \in S : Awaited(id)'
  /\ NoEntry(t) /\ HeldInv' /\ Stays(t)

\* An append has the shape of a step.
LEMMA AddShape ==
  ASSUME Inv, NEW t \in DOMAIN thr, NEW S, NEW st \in {"pending", "running"}, NEW in, NEW ok \in BOOLEAN,
         AddOf(t, S, st, in, ok)
  PROVE  StepShape(t, S)
<1> USE DEF AddOf
<1>0. Added(S, st, in, ok)
  OBVIOUS
<1>1. /\ MemInv' /\ store' # NoVal /\ store'.status = store.status /\ Saved(ok)
      /\ DOMAIN tab' = DOMAIN tab \cup S /\ S \cap DOMAIN tab = {}
      /\ \A id \in DOMAIN tab : tab'[id] = tab[id]
  BY DEF Added
<1>2. \A id \in S : tab'[id].input = in /\ tab'[id].status = st
  <2> HIDE DEF AddOf
  <2>1. QED
    BY <1>0, AddedKeeps
<1>3. t = D => DOMAIN thr = {D}
  BY Alone DEF Inv
<1>4. TabStep(t, S)
  BY <1>1, <1>2 DEF TabStep
<1>5. RunStep(t, S)
  BY <1>1, <1>2 DEF RunStep
<1>6. PromptStep(t, S)
  <2>1. SUFFICES ASSUME crashes = 0 PROVE PromptStep(t, S)
    BY DEF PromptStep
  <2>2. rawRuns' = {}
    BY <2>1 DEF Inv, PromptInv
  <2>3. \A id \in DOMAIN tab' : id \in S => tab'[id].status # "failed"
    BY <1>2
  <2>4. ASSUME ~isDemo, NEW id \in DOMAIN tab', tab'[id].input = "task"
        PROVE  \/ Awaited(id)'
               \/ /\ id \in DOMAIN tab /\ tab[id].input = "task"
                  /\ tab[id].status = "pending" => tab'[id].status = "pending"
                  /\ WaitsFor(t, id) => t \in DOMAIN thr' /\ WaitsFor(t, id)'
    <3>1. CASE id \in S
      BY <1>2, <2>1, <2>4, <3>1
    <3>2. CASE id \notin S
      BY <1>1, <2>4, <3>2
    <3>3. QED
      BY <3>1, <3>2
  <2>5. QED
    BY <2>2, <2>3, <2>4 DEF PromptStep
<1>7. trunk \subseteq Tasks /\ rawRuns \subseteq StageIds /\ store.status \in {"queued", "running"}
  BY DEF Inv, CountInv, ThrInv
<1>8. MemStep(t)
  BY <1>1 DEF MemStep
<1>9. QED
  BY <1>1, <1>3, <1>4, <1>5, <1>6, <1>7, <1>8 DEF StepShape

\* AddImplementStages has the shape of a step.
LEMMA AddTasksShape ==
  ASSUME Inv, NEW t \in DOMAIN thr, AddImplementStages(t)
  PROVE  \E S : StepShape(t, S)
<1>1. /\ thr[t].pc = "addtasks" /\ UNCHANGED <<trunk, rawRuns, counts>> /\ UNCHANGED counts
      /\ {"fanout", "failwf"} \subseteq PCs /\ {"fanout", "failwf"} \cap HasSession = {}
      /\ ThrInv /\ MemInv /\ HeldInv /\ store # NoVal
  BY DEF AddImplementStages, PCs, DriverPCs, HasSession, Inv, ThrInv
<1>2. t = D /\ thr[t].role = "driver" /\ Driver(t)
  BY <1>1 DEF Inv, LocalInv, Local, ResumeDriver, DemoDriver, Worker, WorkerPCs, Busy, Resumed, DemoWorker
<1>3. /\ DOMAIN tab = First /\ Is(Research, "done") /\ Is(Plan, "done")
      /\ thr[t].result \in PlanOutputs /\ ValidatePlanOutput(thr[t].result)
  BY <1>1, <1>2 DEF Driver, TwoOnly
<1>4. DOMAIN thr = {D}
  BY <1>1, <1>2, Alone
<1>5. PICK n \in 1..MaxTasks : DOMAIN thr[t].result.tasks = 1..n
  <2>1. PICK n \in 0..MaxTasks : thr[t].result.tasks \in [1..n -> [id : BOOLEAN, description : BOOLEAN]]
    BY <1>3, EngineAssumption
  <2>2. n # 0
    <3>1. SUFFICES ASSUME n = 0 PROVE FALSE
      OBVIOUS
    <3>2. 1..0 = {}
      OBVIOUS
    <3>3. thr[t].result.tasks \in [{} -> [id : BOOLEAN, description : BOOLEAN]]
      BY <2>1, <3>1, <3>2
    <3>4. thr[t].result.tasks = <<>>
      BY <3>3
    <3>5. QED
      BY <1>3, <3>4 DEF ValidatePlanOutput
  <2>3. n \in 1..MaxTasks
    BY <2>2, EngineAssumption
  <2>4. QED
    BY <2>1, <2>3
<1>6. n \in 0..MaxTasks /\ n \in Nat
  BY <1>5, EngineAssumption
<1>7. PICK new : new = [i \in 1..n |-> NewStage(<<"implement", i>>, "pending", "task")]
  OBVIOUS
<1>8. /\ new \in Seq(Stage) /\ Len(new) = n
      /\ \A i \in 1..n : new[i] = NewStage(<<"implement", i>>, "pending", "task")
  BY <1>6, <1>7, TaskStages
<1>9. Base(t) = store
  BY <1>1, BaseIs
<1>10. PICK ok \in BOOLEAN :
         /\ Upsert(appended(store, new).heap, appended(store, new).hdr, ok)
         /\ thr' = Moved(t, IF ok THEN "fanout" ELSE "failwf")
  BY <1>5, <1>7, <1>9, SaveIsBoolean DEF AddImplementStages
<1> HIDE <1>7
<1>11. TaskIds(n) \subseteq StageIds /\ TaskIds(n) \cap First = {} /\ Merge \notin TaskIds(n)
       /\ \A id \in TaskIds(n) : KindOf(id) = "implement"
  <2>1. \A i \in 1..n : i \in Tasks
    BY <1>5, EngineAssumption DEF Tasks
  <2>2. QED
    BY <2>1, ImplementIds DEF TaskIds
<1>12. Added(TaskIds(n), "pending", "task", ok)
  <2>1. \A i \in 1..n : <<"implement", i>> \notin DOMAIN tab
    BY <1>3, <1>11 DEF TaskIds
  <2>2. QED
    BY <1>1, <1>6, <1>8, <1>10, <2>1, AddTasks
<1>13. PICK pc : pc = IF ok THEN "fanout" ELSE "failwf"
  OBVIOUS
<1>14. Goes(t, pc, thr[t].stage, NoVal, thr[t].err)
  BY <1>1, <1>10, <1>13, MovedGoes
<1> HIDE <1>10
<1>15. /\ thr'[t].pc = pc /\ thr'[t].stage = thr[t].stage /\ thr'[t].role = thr[t].role
       /\ thr'[t].prompt = thr[t].prompt /\ thr'[t].good = thr[t].good /\ thr'[t].task = thr[t].task
       /\ thr'[t].err = thr[t].err /\ D' = D /\ DOMAIN thr' = DOMAIN thr
  BY <1>1, <1>14, GoesFields
<1>16. /\ \A id, s : Is(id, s) => Is(id, s)'
       /\ \A b : Verified(b) => Verified(b)'
       /\ \A id \in TaskIds(n) : Is(id, "pending")' /\ tab'[id].input = "task" /\ tab'[id].status = "pending"
       /\ DOMAIN tab' = DOMAIN tab \cup TaskIds(n)
  BY <1>12, AddedKeeps DEF Added
<1>17. /\ <<"implement", 1>> \in TaskIds(n)
       /\ Merge \notin DOMAIN tab' /\ First \subseteq DOMAIN tab'
  <2>1. 1 \in 1..n
    BY <1>5, EngineAssumption
  <2>2. QED
    BY <1>3, <1>11, <1>16, <2>1, Kinds DEF TaskIds
<1>18. Driver(t)'
  <2>1. \E id \in DOMAIN tab' : KindOf(id) = "implement"
    BY <1>11, <1>16, <1>17
  <2>2. \A id \in DOMAIN tab' : (KindOf(id) = "implement" /\ Is(id, "pending")') \/ id \in First
    BY <1>3, <1>11, <1>16
  <2>3. \A b \in thr[t].good : Verified(b)'
    BY <1>2, <1>16 DEF Driver
  <2>4. pc \in {"fanout", "failwf"}
    BY <1>13
  <2>5. QED
    BY <1>2, <1>15, <1>17, <2>1, <2>2, <2>3, <2>4 DEF Driver, Busy, DriverPCs
<1>19. Local(t)'
  BY <1>2, <1>15, <1>18 DEF Local
<1>20. Stays(t) /\ NoEntry(t) /\ HeldInv'
  <2>1. thr'[t].base = NoVal /\ pc \notin HasSession
    BY <1>1, <1>13, <1>14, GoesStays
  <2>2. HeldInv'
    BY <1>2, <1>4, <1>15, <2>1 DEF HeldInv
  <2>3. QED
    BY <1>14, <1>19, <2>1, <2>2, GoesStays
<1>21. \A id \in TaskIds(n) : Awaited(id)'
  <2>1. NoFailed'
    <3>1. ASSUME NEW id \in DOMAIN tab'
          PROVE  tab'[id].status # "failed"
      <4>1. CASE id \in TaskIds(n)
        BY <1>16, <4>1
      <4>2. CASE id \in First
        BY <1>3, <1>16, <4>2 DEF First, Is
      <4>3. QED
        BY <1>3, <1>16, <4>1, <4>2
    <3>2. QED
      BY <3>1 DEF NoFailed
  <2>2. thr'[D'].role = "driver" /\ thr'[D'].pc \in {"fanout", "failwf"}
    BY <1>2, <1>13, <1>15
  <2>3. QED
    BY <1>16, <2>1, <2>2 DEF Awaited
<1>22. \A id : ~Owns(t, id) /\ ~WaitsFor(t, id)
  BY <1>1, <1>2 DEF Owns, WaitsFor, Busy
<1>23. AddOf(t, TaskIds(n), "pending", "task", ok)
  BY <1>1, <1>2, <1>3, <1>11, <1>12, <1>20, <1>21, <1>22 DEF AddOf
<1>24. StepShape(t, TaskIds(n))
  BY <1>23, AddShape
<1>25. QED
  BY <1>24

\* WorkerAddsVerify has the shape of a step: no other worker appended meanwhile.
LEMMA AddVerifyShape ==
  ASSUME Inv, NobodyOvertaken', NEW t \in DOMAIN thr, WorkerAddsVerify(t)
  PROVE  \E S : StepShape(t, S)
<1>1. /\ thr[t].pc = "addverify" /\ UNCHANGED <<trunk, rawRuns, counts>> /\ UNCHANGED counts
      /\ "start" \in PCs /\ "start" \notin HasSession
      /\ ThrInv /\ MemInv /\ HeldInv /\ store # NoVal
  BY DEF WorkerAddsVerify, PCs, DriverPCs, HasSession, Inv, ThrInv
<1>2. t # D /\ thr[t].role = "worker" /\ thr[D].role = "driver" /\ Worker(t)
  BY <1>1 DEF Inv, LocalInv, Local, Driver, DriverPCs, ResumeDriver, DemoDriver, Busy, Resumed, DemoWorker
<1>3. PICK v : v = VerifyOf(thr[t].task)
  OBVIOUS
<1>4. /\ v \in StageIds /\ v \notin DOMAIN tab /\ v # thr[t].task /\ v # Merge /\ v \in Own(t)
      /\ thr[t].task \in DOMAIN tab /\ thr[t].task \notin First /\ Is(thr[t].task, "done")
  <2>1. thr[t].task \in StageIds
    BY <1>1 DEF ThrInv, Thread
  <2>2. QED
    BY <1>1, <1>2, <1>3, <2>1, ImplementIds DEF Worker, Own
<1>5. Base(t) = store
  BY <1>1, BaseIs
<1>6. PICK new : new = <<NewStage(v, "pending", "")>>
  OBVIOUS
<1>7. new \in Seq(Stage) /\ Len(new) = 1 /\ new[1] = NewStage(v, "pending", "")
  <2>1. NewStage(v, "pending", "") \in Stage
    BY <1>4, NewStageType
  <2>2. QED
    BY <1>6, <2>1, OneStage
<1>8. PICK ok \in BOOLEAN : Upsert(appended(store, new).heap, appended(store, new).hdr, ok)
  BY <1>3, <1>5, <1>6, SaveIsBoolean DEF WorkerAddsVerify
<1> HIDE <1>6
<1>9. Added({v}, "pending", "", ok)
  BY <1>1, <1>4, <1>7, <1>8, AddOne
<1>10. Goes(t, "start", v, NoVal, thr[t].err)
  <2>1. thr' = [Moved(t, "start") EXCEPT ![t].stage = v]
    BY <1>3 DEF WorkerAddsVerify
  <2>2. QED
    BY <1>1, <1>4, <2>1, MovedStageGoes
<1>11. /\ thr'[t].pc = "start" /\ thr'[t].stage = v /\ thr'[t].role = thr[t].role
       /\ thr'[t].prompt = thr[t].prompt /\ thr'[t].task = thr[t].task
       /\ thr'[t].err = thr[t].err /\ D' = D /\ DOMAIN thr' = DOMAIN thr /\ thr'[D] = thr[D]
  BY <1>1, <1>2, <1>10, GoesFields
<1>12. /\ \A id, s : Is(id, s) => Is(id, s)'
       /\ Is(v, "pending")' /\ DOMAIN tab' = DOMAIN tab \cup {v}
  <2>1. /\ \A id, s : Is(id, s) => Is(id, s)'
        /\ \A b : Verified(b) => Verified(b)'
        /\ \A id \in {v} : Is(id, "pending")'
    BY <1>9, AddedKeeps
  <2>2. DOMAIN tab' = DOMAIN tab \cup {v}
    BY <1>9 DEF Added
  <2>3. QED
    BY <2>1, <2>2
<1>13. Worker(t)'
  <2>1. Is(thr[t].task, "done")'
    BY <1>4, <1>11, <1>12 DEF Is
  <2>2. QED
    BY <1>1, <1>2, <1>3, <1>4, <1>11, <1>12, <2>1 DEF Worker, Busy, WorkerPCs
<1>14. Local(t)'
  BY <1>2, <1>11, <1>13 DEF Local
<1>15. Stays(t) /\ NoEntry(t) /\ thr'[t].base = NoVal
  BY <1>1, <1>10, <1>14, GoesStays
<1>16. HeldInv'
  <2>1. ASSUME NEW u \in DOMAIN thr'
        PROVE  thr'[u].base = NoVal
    <3>1. CASE u = t
      BY <1>15, <3>1
    <3>2. CASE u # t
      <4>1. u \in DOMAIN thr /\ thr'[u] = thr[u]
        BY <1>10, <1>11, <3>2 DEF Goes
      <4>2. CASE u = D
        <5>1. thr[D].pc = "join"
          BY <1>1, <1>2 DEF ThrInv
        <5>2. QED
          BY <1>1, <4>1, <4>2, <5>1 DEF HeldInv, WritePCs
      <4>3. CASE u # D
        <5>1. thr[u].role = "worker"
          BY <1>2, <4>1, <4>3 DEF Inv, LocalInv, Local
        <5>2. QED
          <6>1. thr[u].base # NoVal => thr[u].base = store /\ thr[u].base = store'
            BY <1>1, <2>1, <4>1 DEF HeldInv, NobodyOvertaken
          <6>2. store' # store
            <7>1. store \in Header
              BY <1>1 DEF MemInv
            <7>2. store'.len = store.len + 1 /\ store.len \in Nat
              BY <1>7, <1>8, <7>1 DEF Upsert, appended, Header
            <7>3. QED
              BY <7>2
          <6>3. QED
            BY <4>1, <6>1, <6>2
      <4>4. QED
        BY <4>2, <4>3
    <3>3. QED
      BY <3>1, <3>2
  <2>2. QED
    BY <2>1 DEF HeldInv
<1>17. \A id : ~Owns(t, id) /\ ~WaitsFor(t, id)
  BY <1>1, <1>2 DEF Owns, WaitsFor, Busy
<1>18. AddOf(t, {v}, "pending", "", ok)
  BY <1>1, <1>2, <1>4, <1>9, <1>15, <1>16, <1>17 DEF AddOf
<1>19. StepShape(t, {v})
  BY <1>18, AddShape
<1>20. QED
  BY <1>19

\* AddMergeStage has the shape of a step.
LEMMA AddMergeShape ==
  ASSUME Inv, NEW t \in DOMAIN thr, AddMergeStage(t)
  PROVE  \E S : StepShape(t, S)
<1>1. /\ thr[t].pc = "addmerge" /\ UNCHANGED <<trunk, rawRuns, counts>> /\ UNCHANGED counts
      /\ "merging" \in PCs /\ "merging" \notin HasSession
      /\ ThrInv /\ MemInv /\ HeldInv /\ store # NoVal
  BY DEF AddMergeStage, PCs, DriverPCs, HasSession, Inv, ThrInv
<1>2. t = D /\ thr[t].role = "driver" /\ Driver(t)
  BY <1>1 DEF Inv, LocalInv, Local, ResumeDriver, DemoDriver, Worker, WorkerPCs, Busy, Resumed, DemoWorker
<1>3. Merge \in StageIds /\ Merge \notin DOMAIN tab /\ DOMAIN tab # First
  <2>1. \A id \in First : KindOf(id) # "implement"
    BY Kinds DEF First
  <2>2. QED
    BY <1>1, <1>2, <2>1, Kinds DEF Driver
<1>4. DOMAIN thr = {D}
  BY <1>1, <1>2, Alone
<1>5. Base(t) = store
  BY <1>1, BaseIs
<1>6. PICK new : new = <<NewStage(Merge, "running", "")>>
  OBVIOUS
<1>7. new \in Seq(Stage) /\ Len(new) = 1 /\ new[1] = NewStage(Merge, "running", "")
  <2>1. NewStage(Merge, "running", "") \in Stage
    BY <1>3, NewStageType
  <2>2. QED
    BY <1>6, <2>1, OneStage
<1>8. PICK ok \in BOOLEAN : Upsert(appended(store, new).heap, appended(store, new).hdr, ok)
  BY <1>5, <1>6, SaveIsBoolean DEF AddMergeStage
<1> HIDE <1>6
<1>9. Added({Merge}, "running", "", ok)
  BY <1>1, <1>3, <1>7, <1>8, AddOne
<1>10. Goes(t, "merging", Merge, NoVal, thr[t].err)
  BY <1>1, <1>3, MovedStageGoes DEF AddMergeStage
<1>11. /\ thr'[t].pc = "merging" /\ thr'[t].stage = Merge /\ thr'[t].role = thr[t].role
       /\ thr'[t].prompt = thr[t].prompt /\ thr'[t].good = thr[t].good
       /\ thr'[t].err = thr[t].err /\ D' = D /\ DOMAIN thr' = DOMAIN thr
  BY <1>1, <1>2, <1>10, GoesFields
<1>12. /\ \A id, s : Is(id, s) => Is(id, s)'
       /\ \A b : Verified(b) => Verified(b)'
       /\ Is(Merge, "running")' /\ DOMAIN tab' = DOMAIN tab \cup {Merge}
  <2>1. /\ \A id, s : Is(id, s) => Is(id, s)'
        /\ \A b : Verified(b) => Verified(b)'
        /\ \A id \in {Merge} : Is(id, "running")'
    BY <1>9, AddedKeeps
  <2>2. DOMAIN tab' = DOMAIN tab \cup {Merge}
    BY <1>9 DEF Added
  <2>3. QED
    BY <2>1, <2>2
<1>13. Driver(t)'
  <2>1. \E id \in DOMAIN tab' : KindOf(id) = "implement"
    BY <1>1, <1>2, <1>12 DEF Driver
  <2>2. \A b \in thr[t].good : Verified(b)'
    BY <1>2, <1>12 DEF Driver
  <2>3. ASSUME ~thr[t].err, NEW id \in DOMAIN tab', KindOf(id) = "implement"
        PROVE  <<t[1], id>> \in DOMAIN thr' \/ (Is(id, "done")' /\ Verified(id[2])')
    <3>1. id \in DOMAIN tab
      BY <1>12, <2>3, Kinds
    <3>2. <<t[1], id>> \in DOMAIN thr \/ (Is(id, "done") /\ Verified(id[2]))
      BY <1>1, <1>2, <2>3, <3>1 DEF Driver
    <3>3. QED
      BY <1>11, <1>12, <3>2
  <2>4. QED
    BY <1>2, <1>11, <1>12, <2>1, <2>2, <2>3 DEF Driver, Busy, DriverPCs
<1>14. Local(t)'
  BY <1>2, <1>11, <1>13 DEF Local
<1>15. Stays(t) /\ NoEntry(t) /\ HeldInv'
  <2>1. thr'[t].base = NoVal
    BY <1>10, GoesStays
  <2>2. HeldInv'
    BY <1>2, <1>4, <1>11, <2>1 DEF HeldInv
  <2>3. QED
    BY <1>1, <1>10, <1>14, <2>2, GoesStays
<1>16. Owns(t, Merge)' /\ \A id : ~Owns(t, id) /\ ~WaitsFor(t, id)
  BY <1>1, <1>2, <1>11 DEF Owns, WaitsFor, Busy
<1>17. AddOf(t, {Merge}, "running", "", ok)
  BY <1>1, <1>2, <1>3, <1>9, <1>11, <1>15, <1>16 DEF AddOf
<1>18. StepShape(t, {Merge})
  BY <1>17, AddShape
<1>19. QED
  BY <1>18

----------------------------------------------------------------------------
(* A Get, and steps that change nothing *)

SameThread(u) ==
  /\ thr'[u].pc = thr[u].pc /\ thr'[u].role = thr[u].role /\ thr'[u].stage = thr[u].stage
  /\ thr'[u].task = thr[u].task /\ thr'[u].prompt = thr[u].prompt /\ thr'[u].result = thr[u].result
  /\ thr'[u].err = thr[u].err /\ thr'[u].good = thr[u].good

\* What a goroutine relies on does not depend on what it read.
LEMMA SameLocal ==
  ASSUME Inv, UNCHANGED mem, UNCHANGED counts, DOMAIN thr' = DOMAIN thr,
         \A u \in DOMAIN thr : SameThread(u), NEW t \in DOMAIN thr
  PROVE  Local(t)'
<1>1. tab' = tab /\ Alike /\ store' = store /\ saveFails' = saveFails
  BY SameMem DEF Alike
<1>2. D' = D /\ isDemo' = isDemo /\ resumes' = resumes /\ D \in DOMAIN thr
  BY ThreadIds DEF counts, D, Inv
<1>3. /\ \A id, st : Is(id, st) => Is(id, st)'
      /\ \A b : Verified(b) => Verified(b)'
  BY <1>1, AlikeIs
<1>4. SameThread(t) /\ thr'[D].role = thr[D].role
  BY <1>2 DEF SameThread
<1>5. Local(t)
  BY DEF Inv, LocalInv
<1>6. CASE t = D
  <2>1. CASE thr[t].role = "driver" /\ Driver(t)
    <3>1. Driver(t)'
      BY <1>1, <1>3, <1>4, <2>1 DEF Driver, TwoOnly, SameThread
    <3>2. QED
      BY <1>2, <1>4, <1>6, <2>1, <3>1 DEF Local, SameThread
  <2>2. CASE thr[t].role = "resume" /\ ResumeDriver(t)
    <3>1. ResumeDriver(t)'
      BY <1>2, <1>4, <2>2 DEF ResumeDriver, SameThread
    <3>2. QED
      BY <1>2, <1>4, <1>6, <2>2, <3>1 DEF Local, SameThread
  <2>3. CASE thr[t].role = "demo" /\ DemoDriver(t)
    <3>1. isDemo'
      BY <1>2, <2>3 DEF DemoDriver
    <3>2. DemoDriver(t)'
      BY <1>1, <1>3, <1>4, <2>3, <3>1 DEF DemoDriver, TwoOnly, SameThread
    <3>3. QED
      BY <1>2, <1>4, <1>6, <2>3, <3>2 DEF Local, SameThread
  <2>4. QED
    BY <1>5, <1>6, <2>1, <2>2, <2>3 DEF Local
<1>7. CASE t # D
  <2>1. CASE thr[t].role = "worker" /\ thr[D].role = "driver" /\ Worker(t)
    <3>1. Worker(t)'
      BY <1>1, <1>3, <1>4, <2>1 DEF Worker, SameThread
    <3>2. QED
      BY <1>2, <1>4, <1>7, <2>1, <3>1 DEF Local, SameThread
  <2>2. CASE thr[t].role = "resumed" /\ thr[D].role = "resume" /\ Resumed(t)
    <3>1. Resumed(t)'
      BY <1>3, <1>4, <2>2 DEF Resumed, SameThread
    <3>2. QED
      BY <1>2, <1>4, <1>7, <2>2, <3>1 DEF Local, SameThread
  <2>3. CASE thr[t].role = "demoworker" /\ thr[D].role = "demo" /\ DemoWorker(t)
    <3>1. DemoWorker(t)'
      BY <1>3, <1>4, <2>3 DEF DemoWorker, SameThread
    <3>2. QED
      BY <1>2, <1>4, <1>7, <2>3, <3>1 DEF Local, SameThread
  <2>4. QED
    BY <1>5, <1>7, <2>1, <2>2, <2>3 DEF Local
<1>8. QED
  BY <1>6, <1>7

\* A step that only reads the store keeps the invariant.
LEMMA SameKeeps ==
  ASSUME Inv, UNCHANGED mem, UNCHANGED counts, UNCHANGED <<trunk, rawRuns>>,
         DOMAIN thr' = DOMAIN thr, thr' \in [DOMAIN thr -> Thread],
         \A u \in DOMAIN thr : SameThread(u), HeldInv'
  PROVE  Inv'
<1>1. tab' = tab /\ ftab' = ftab /\ store' = store /\ file' = file /\ heap' = heap /\ saveFails' = saveFails
  BY SameMem DEF mem
<1>2. D' = D /\ gen' = gen /\ isDemo' = isDemo /\ resumes' = resumes /\ crashes' = crashes
  BY DEF counts, D
<1>3. LocalInv'
  BY SameLocal DEF LocalInv
<1>4. MemInv' /\ TabInv' /\ Synced' /\ CountInv'
  BY <1>1, <1>2 DEF Inv, MemInv, TabInv, Synced, CountInv
<1>5. ThrInv'
  <2>1. \A u \in DOMAIN thr' : u # D => thr'[D].pc = "join"
    <3>1. \A u \in DOMAIN thr : u # D => thr[D].pc = "join" /\ D \in DOMAIN thr
      BY DEF Inv, ThrInv
    <3>2. QED
      BY <3>1 DEF SameThread
  <2>2. QED
    BY <1>1, <1>2, <2>1 DEF Inv, ThrInv
<1>6. RunInv'
  BY <1>1, <1>2 DEF Inv, RunInv, Owns, SameThread
<1>7. PersistInv'
  BY <1>1 DEF Inv, PersistInv, SameThread
<1>8. TrunkInv'
  BY <1>1 DEF Inv, TrunkInv, Verified, Is
<1>9. PromptInv'
  <2>1. ASSUME NEW id, Awaited(id)
        PROVE  Awaited(id)'
    <3>1. CASE \E u \in DOMAIN thr : WaitsFor(u, id)
      BY <1>1, <2>1, <3>1 DEF Awaited, WaitsFor, SameThread
    <3>2. CASE NoFailed /\ (DOMAIN thr # {} => thr[D].role = "driver" /\ thr[D].pc \in {"fanout", "failwf"})
      <4>1. DOMAIN thr # {} => D \in DOMAIN thr
        BY DEF Inv, ThrInv
      <4>2. NoFailed'
        BY <1>1, <3>2 DEF NoFailed
      <4>3. DOMAIN thr' # {} => thr'[D'].role = "driver" /\ thr'[D'].pc \in {"fanout", "failwf"}
        BY <1>2, <3>2, <4>1 DEF SameThread
      <4>4. QED
        BY <1>1, <2>1, <4>2, <4>3 DEF Awaited
    <3>3. QED
      BY <2>1, <3>1, <3>2 DEF Awaited
  <2>2. SUFFICES ASSUME crashes = 0
                 PROVE  /\ rawRuns' = {}
                        /\ \A t \in DOMAIN thr' : thr'[t].prompt # "task"
                        /\ isDemo => NoFailed' /\ \A t \in DOMAIN thr' : thr'[t].role \in {"demo", "demoworker"}
                        /\ ~isDemo => \A id \in DOMAIN tab' : tab'[id].input = "task" => Awaited(id)'
    BY <1>2 DEF PromptInv
  <2>3. rawRuns' = {} /\ \A t \in DOMAIN thr' : thr'[t].prompt # "task"
    BY <2>2 DEF Inv, PromptInv, SameThread
  <2>4. isDemo => NoFailed' /\ \A t \in DOMAIN thr' : thr'[t].role \in {"demo", "demoworker"}
    BY <1>1, <2>2 DEF Inv, PromptInv, SameThread, NoFailed
  <2>5. ~isDemo => \A id \in DOMAIN tab' : tab'[id].input = "task" => Awaited(id)'
    BY <1>1, <2>1, <2>2 DEF Inv, PromptInv
  <2>6. QED
    BY <2>3, <2>4, <2>5
<1>10. QED
  BY <1>3, <1>4, <1>5, <1>6, <1>7, <1>8, <1>9 DEF Inv

\* Get keeps the invariant.
LEMMA GetKeeps ==
  ASSUME Inv, NEW t \in DOMAIN thr, Get(t)
  PROVE  Inv'
<1>1. /\ thr' = [thr EXCEPT ![t].base = store, ![t].at = stageIndex(store, Subject(t))]
      /\ UNCHANGED mem /\ UNCHANGED counts /\ UNCHANGED <<trunk, rawRuns>>
      /\ thr[t].role \in Stalled /\ thr[t].pc \in WritePCs
  BY DEF Get
<1>2. PICK i : i = stageIndex(store, Subject(t))
  OBVIOUS
<1>3. i \in Nat /\ store \in Header
  <2>1. MemInv /\ store # NoVal /\ store \in Header
    BY DEF Inv, ThrInv, MemInv
  <2>2. i \in 1..store.len \/ i = 0
    BY <1>2, <2>1, IndexOf
  <2>3. store.len \in Nat
    BY <2>1 DEF Header
  <2>4. QED
    BY <2>1, <2>2, <2>3
<1>4. \A u \in DOMAIN thr : thr[u] \in Thread
  BY DEF Inv, ThrInv
<1>5. PICK q : q = [thr[t] EXCEPT !.base = store, !.at = i]
  OBVIOUS
<1>6. /\ q \in Thread /\ q.base = store /\ q.at = i
      /\ q.pc = thr[t].pc /\ q.role = thr[t].role /\ q.stage = thr[t].stage
      /\ q.task = thr[t].task /\ q.prompt = thr[t].prompt /\ q.result = thr[t].result
      /\ q.err = thr[t].err /\ q.good = thr[t].good
  BY <1>3, <1>4, <1>5 DEF Thread
<1>7. thr' = [thr EXCEPT ![t] = q]
  BY <1>1, <1>2, <1>5
<1>8. /\ DOMAIN thr' = DOMAIN thr /\ thr'[t] = q /\ \A u \in DOMAIN thr : u # t => thr'[u] = thr[u]
      /\ thr' \in [DOMAIN thr -> Thread]
  BY <1>6, <1>7 DEF Inv, ThrInv
<1> HIDE <1>1, <1>7, <1>5
<1>9. \A u \in DOMAIN thr : SameThread(u)
  BY <1>6, <1>8 DEF SameThread
<1>10. store' = store /\ SameIndex
  BY <1>1, SameMem
<1>11. HeldInv'
  <2>1. ASSUME NEW u \in DOMAIN thr', thr'[u].base # NoVal
        PROVE  /\ thr'[u].base = store' /\ thr'[u].role \in Stalled /\ thr'[u].pc \in WritePCs
               /\ thr'[u].at = stageIndex(store, Subject(u))'
    <3>1. u \in DOMAIN thr /\ SameThread(u)
      BY <1>8, <1>9
    <3>2. Subject(u)' = Subject(u) /\ Subject(u) \in StageIds
      <4>1. thr[u].stage \in StageIds /\ thr[u].task \in StageIds
        BY <1>4, <3>1 DEF Thread
      <4>2. QED
        BY <3>1, <4>1, Kinds DEF Subject, SameThread
    <3>3. stageIndex(store, Subject(u))' = stageIndex(store, Subject(u))
      BY <1>10, <3>2 DEF SameIndex
    <3>4. CASE u = t
      BY <1>1, <1>2, <1>6, <1>8, <1>10, <3>3, <3>4
    <3>5. CASE u # t
      BY <1>8, <1>10, <2>1, <3>1, <3>3, <3>5 DEF Inv, HeldInv
    <3>6. QED
      BY <3>4, <3>5
  <2>2. QED
    BY <2>1 DEF HeldInv
<1>12. QED
  BY <1>1, <1>8, <1>9, <1>11, SameKeeps

\* A stuttering step keeps the invariant.
LEMMA StutterKeeps ==
  ASSUME Inv, UNCHANGED vars
  PROVE  Inv'
<1>1. UNCHANGED mem /\ UNCHANGED counts /\ UNCHANGED <<trunk, rawRuns>> /\ thr' = thr
  BY DEF vars, mem, counts
<1>2. (\A u \in DOMAIN thr : SameThread(u)) /\ DOMAIN thr' = DOMAIN thr /\ thr' \in [DOMAIN thr -> Thread]
  BY <1>1 DEF SameThread, Inv, ThrInv
<1>3. HeldInv'
  BY <1>1, SameMem, HeldKept DEF Inv
<1>4. QED
  BY <1>1, <1>2, <1>3, SameKeeps

----------------------------------------------------------------------------
(* The driver starts its workers *)

\* The stored stages, as a set, are those of the table.
LEMMA StageSet ==
  ASSUME MemInv, store # NoVal
  PROVE  {heap[store.arr][i] : i \in 1..store.len} = {tab[id] : id \in DOMAIN tab}
<1>1. Slice(heap[store.arr], store.len) /\ tab = Table(heap[store.arr], store.len)
  BY DEF MemInv, tab
<1>2. \A id \in DOMAIN tab : \E i \in 1..store.len : tab[id] = heap[store.arr][i]
  BY <1>1, TableTypes
<1>3. \A i \in 1..store.len : heap[store.arr][i].id \in DOMAIN tab /\ tab[heap[store.arr][i].id] = heap[store.arr][i]
  BY <1>1, SliceAt
<1>4. QED
  BY <1>2, <1>3

\* The goroutines after a driver has started its workers.
LEMMA ForkIs ==
  ASSUME ThrInv, DOMAIN thr = {D}, NEW new, D \notin DOMAIN new,
         \A w \in DOMAIN new : new[w] \in Thread,
         thr' = [Joined(new) EXCEPT ![D].pc = "join"]
  PROVE  /\ DOMAIN thr' = {D} \cup DOMAIN new /\ thr' \in [DOMAIN thr' -> Thread]
         /\ \A w \in DOMAIN new : thr'[w] = new[w]
         /\ thr'[D] = [thr[D] EXCEPT !.pc = "join"]
<1>0. PICK f : f = Joined(new) /\ thr' = [f EXCEPT ![D].pc = "join"]
  OBVIOUS
<1>1. /\ DOMAIN f = {D} \cup DOMAIN new /\ f[D] = thr[D]
      /\ \A w \in DOMAIN new : f[w] = new[w]
  BY <1>0 DEF Joined
<1>2. f = [w \in {D} \cup DOMAIN new |-> f[w]]
  BY <1>0 DEF Joined
<1>3. PICK q : q = [thr[D] EXCEPT !.pc = "join"]
  OBVIOUS
<1>4. q \in Thread
  <2>1. thr[D] \in Thread
    BY DEF ThrInv
  <2>2. "join" \in PCs
    BY DEF PCs, DriverPCs
  <2>3. QED
    BY <1>3, <2>1, <2>2 DEF Thread
<1>5. thr' = [f EXCEPT ![D] = q]
  BY <1>0, <1>1, <1>3
<1> HIDE <1>0
<1>6. /\ DOMAIN thr' = {D} \cup DOMAIN new /\ thr'[D] = q
      /\ \A w \in DOMAIN new : thr'[w] = new[w]
  BY <1>1, <1>2, <1>5
<1>7. thr' = [w \in DOMAIN thr' |-> thr'[w]]
  BY <1>1, <1>2, <1>5
<1>8. thr' \in [DOMAIN thr' -> Thread]
  BY <1>4, <1>6, <1>7
<1>9. QED
  BY <1>3, <1>6, <1>8

\* What is left to show when a driver starts its workers.
LEMMA ForkKeeps ==
  ASSUME Inv, DOMAIN thr = {D}, UNCHANGED mem, UNCHANGED counts, UNCHANGED <<trunk, rawRuns>>,
         DOMAIN thr' \subseteq {gen} \X (StageIds \cup {Main}), D \in DOMAIN thr',
         thr' \in [DOMAIN thr' -> Thread], thr'[D].pc = "join",
         \A u \in DOMAIN thr' : thr'[u].base = NoVal /\ thr'[u].pc \in {"join", "sem"},
         LocalInv', PromptInv', \A id : ~Owns(D, id)
  PROVE  Inv'
<1>1. tab' = tab /\ ftab' = ftab /\ store' = store /\ file' = file /\ heap' = heap /\ saveFails' = saveFails
  BY SameMem DEF mem
<1>2. D' = D /\ gen' = gen /\ isDemo' = isDemo /\ resumes' = resumes /\ crashes' = crashes
  BY DEF counts, D
<1>3. MemInv' /\ TabInv' /\ Synced' /\ CountInv'
  BY <1>1, <1>2 DEF Inv, MemInv, TabInv, Synced, CountInv
<1>4. ThrInv'
  BY <1>1, <1>2 DEF Inv, ThrInv
<1>5. HeldInv'
  BY DEF HeldInv
<1>6. RunInv'
  <2>1. crashes = 0 /\ saveFails = 0 => \A id \in DOMAIN tab : tab[id].status # "running"
    BY DEF Inv, RunInv
  <2>2. QED
    BY <1>1, <1>2, <2>1 DEF RunInv
<1>7. PersistInv'
  BY DEF PersistInv
<1>8. TrunkInv'
  BY <1>1 DEF Inv, TrunkInv, Verified, Is
<1>9. QED
  BY <1>3, <1>4, <1>5, <1>6, <1>7, <1>8 DEF Inv

\* FanOut keeps the invariant: every implement stage gets its worker.
LEMMA FanOutKeeps ==
  ASSUME Inv, NEW t \in DOMAIN thr, FanOut(t)
  PROVE  Inv'
<1>1. /\ thr[t].pc = "fanout" /\ UNCHANGED mem /\ UNCHANGED counts /\ UNCHANGED <<trunk, rawRuns>>
      /\ ThrInv /\ MemInv /\ store # NoVal
  BY DEF FanOut, Inv, ThrInv
<1>2. t = D /\ thr[t].role = "driver" /\ Driver(t)
  BY <1>1 DEF Inv, LocalInv, Local, ResumeDriver, DemoDriver, Worker, WorkerPCs, Busy, Resumed, DemoWorker
<1>3. DOMAIN thr = {D}
  BY <1>1, <1>2, Alone
<1>4. PICK I : I = {id \in DOMAIN tab : KindOf(id) = "implement"}
  OBVIOUS
<1>5. I \subseteq StageIds /\ Main \notin I
  BY <1>1, <1>4, TabFacts, Kinds
<1>6. PICK new : new = [w \in {<<gen, id>> : id \in I} |-> Goroutine("sem", "worker", w[2], StagePrompt)]
  OBVIOUS
<1>7. thr' = [Joined(new) EXCEPT ![D].pc = "join"]
  <2>1. t[1] = gen
    BY <1>1, ThreadIds
  <2>2. {s.id : s \in {heap[store.arr][i] : i \in 1..store.len}} = DOMAIN tab
    <3>1. {heap[store.arr][i] : i \in 1..store.len} = {tab[id] : id \in DOMAIN tab}
      BY <1>1, StageSet
    <3>2. \A id \in DOMAIN tab : tab[id].id = id
      BY <1>1, TabFacts
    <3>3. {s.id : s \in {tab[id] : id \in DOMAIN tab}} = DOMAIN tab
      BY <3>2
    <3>4. QED
      BY <3>1, <3>3
  <2>3. {x \in DOMAIN tab : KindOf(x) = "implement"} = I
    BY <1>4
  <2>4. QED
    BY <1>2, <1>6, <2>1, <2>2, <2>3 DEF FanOut
<1>8. /\ DOMAIN new = {<<gen, id>> : id \in I} /\ D \notin DOMAIN new
      /\ \A id \in I : new[<<gen, id>>] = Goroutine("sem", "worker", id, StagePrompt)
  BY <1>5, <1>6 DEF D
<1> HIDE <1>6
<1>9. \A id \in I : Goroutine("sem", "worker", id, StagePrompt) \in Thread
  <2>1. "sem" \in PCs
    BY DEF PCs, WorkerPCs
  <2>2. QED
    BY <1>5, <2>1 DEF Goroutine, Thread
<1>10. /\ DOMAIN thr' = {D} \cup DOMAIN new /\ thr' \in [DOMAIN thr' -> Thread]
       /\ \A w \in DOMAIN new : thr'[w] = new[w]
       /\ thr'[D] = [thr[D] EXCEPT !.pc = "join"]
  <2>1. \A w \in DOMAIN new : new[w] \in Thread
    BY <1>8, <1>9
  <2>2. QED
    BY <1>1, <1>3, <1>7, <1>8, <2>1, ForkIs
<1> HIDE <1>7
<1>11. /\ thr'[D].pc = "join" /\ thr'[D].role = "driver" /\ thr'[D].prompt = thr[D].prompt
       /\ thr'[D].base = NoVal /\ thr'[D].good = thr[D].good /\ thr'[D].err = thr[D].err
  <2>1. thr[D] \in Thread /\ thr[D].base = NoVal
    BY <1>1, <1>2 DEF Inv, ThrInv, HeldInv, WritePCs
  <2>2. QED
    BY <1>2, <1>10, <2>1 DEF Thread
<1>12. ASSUME NEW id \in I
       PROVE  /\ <<gen, id>> \in DOMAIN thr' /\ thr'[<<gen, id>>].pc = "sem" /\ thr'[<<gen, id>>].role = "worker"
              /\ thr'[<<gen, id>>].stage = id /\ thr'[<<gen, id>>].task = id
              /\ thr'[<<gen, id>>].prompt = StagePrompt /\ thr'[<<gen, id>>].base = NoVal
              /\ thr'[<<gen, id>>].err = FALSE
  <2>1. <<gen, id>> \in DOMAIN new /\ new[<<gen, id>>] = Goroutine("sem", "worker", id, StagePrompt)
    BY <1>8
  <2>2. <<gen, id>> \in DOMAIN thr' /\ thr'[<<gen, id>>] = Goroutine("sem", "worker", id, StagePrompt)
    BY <1>10, <2>1
  <2>3. QED
    BY <2>2 DEF Goroutine
<1>13. \A u \in DOMAIN thr' : u = D \/ \E id \in I : u = <<gen, id>>
  BY <1>8, <1>10
<1>14. tab' = tab /\ Alike /\ D' = D /\ store' = store
  BY <1>1, SameMem DEF Alike, D, counts
<1>15. /\ \A id, st : Is(id, st) => Is(id, st)'
       /\ \A b : Verified(b) => Verified(b)'
  BY <1>14, AlikeIs
<1>16. LocalInv'
  <2>1. Driver(D)'
    <3>1. \A id \in DOMAIN tab' : KindOf(id) = "implement" => <<D[1], id>> \in DOMAIN thr'
      BY <1>4, <1>12, <1>14 DEF D
    <3>2. QED
      BY <1>1, <1>2, <1>11, <1>14, <1>15, <3>1 DEF Driver, Busy, DriverPCs
  <2>2. ASSUME NEW id \in I, NEW w, w = <<gen, id>>
        PROVE  Worker(w)' /\ w # D
    <3>1. KindOf(id) = "implement" /\ id \in DOMAIN tab /\ Is(id, "pending")
      BY <1>1, <1>2, <1>4, <1>5, ImplementIds DEF Driver
    <3>2. VerifyOf(id) \notin DOMAIN tab /\ VerifyOf(id) # id
      BY <1>1, <1>2, <1>5, <3>1, ImplementIds DEF Driver
    <3>3. w[2] = id /\ w # D
      BY <2>2, <1>5 DEF D
    <3>4. Is(id, "pending")' /\ DOMAIN tab' = DOMAIN tab
      BY <1>14, <1>15, <3>1
    <3>5. /\ thr'[w].pc = "sem" /\ thr'[w].stage = id /\ thr'[w].task = id
          /\ thr'[w].prompt = StagePrompt /\ thr'[w].err = FALSE
      BY <1>12, <2>2
    <3> HIDE <2>2
    <3>6. QED
      BY <3>1, <3>2, <3>3, <3>4, <3>5 DEF Worker, Busy, WorkerPCs
  <2>3. ASSUME NEW u \in DOMAIN thr'
        PROVE  Local(u)'
    <3>1. CASE u = D
      BY <1>11, <1>14, <2>1, <3>1 DEF Local
    <3>2. CASE \E id \in I : u = <<gen, id>>
      <4>1. PICK id \in I : u = <<gen, id>>
        BY <3>2
      <4>2. Worker(u)' /\ u # D /\ thr'[u].role = "worker"
        BY <1>12, <2>2, <4>1
      <4>3. QED
        BY <1>11, <1>14, <4>2 DEF Local
    <3>3. QED
      BY <1>13, <3>1, <3>2
  <2>4. QED
    BY <2>3 DEF LocalInv
<1>17. PromptInv'
  <2>1. SUFFICES ASSUME crashes = 0
                 PROVE  PromptInv'
    BY <1>1 DEF PromptInv, counts
  <2>2. rawRuns' = {} /\ ~isDemo /\ thr[D].prompt # "task"
    BY <1>1, <1>2, <2>1 DEF Inv, PromptInv
  <2>3. \A u \in DOMAIN thr' : thr'[u].prompt # "task"
    BY ZenonT(60), <1>11, <1>12, <1>13, <2>2 DEF StagePrompt
  <2>4. ASSUME NEW id \in DOMAIN tab', tab'[id].input = "task"
        PROVE  Awaited(id)'
    <3>1. Awaited(id) /\ id \in DOMAIN tab
      BY <1>14, <2>1, <2>2, <2>4 DEF Inv, PromptInv
    <3>2. tab[id].status = "pending"
      BY <3>1 DEF Awaited
    <3>3. id \notin First
      <4>1. DOMAIN tab # First
        <5>1. \A x \in First : KindOf(x) # "implement"
          BY Kinds DEF First
        <5>2. QED
          BY <1>1, <1>2, <5>1 DEF Driver
      <4>2. QED
        BY <1>1, <3>2, <4>1 DEF Inv, TabInv, Grows, First
    <3>4. id \in I
      BY <1>1, <1>2, <1>4, <3>1, <3>3 DEF Driver
    <3>5. WaitsFor(<<gen, id>>, id)' /\ <<gen, id>> \in DOMAIN thr'
      BY <1>1, <1>12, <3>4 DEF WaitsFor, counts
    <3>6. QED
      BY <1>1, <1>14, <3>2, <3>5 DEF Awaited, counts
  <2>5. ~isDemo'
    BY <1>1, <2>2 DEF counts
  <2>6. QED
    BY <2>2, <2>3, <2>4, <2>5 DEF PromptInv
<1>18. \A u \in DOMAIN thr' : thr'[u].base = NoVal /\ thr'[u].pc \in {"join", "sem"}
  <2>1. \A id \in I : thr'[<<gen, id>>].base = NoVal /\ thr'[<<gen, id>>].pc = "sem"
    BY <1>12
  <2>2. QED
    BY <1>11, <1>13, <2>1
<1>19. DOMAIN thr' \subseteq {gen} \X (StageIds \cup {Main}) /\ D \in DOMAIN thr'
  BY <1>5, <1>10, <1>13 DEF D
<1>20. \A id : ~Owns(D, id)
  BY <1>1, <1>2 DEF Owns, Busy
<1>21. QED
  BY <1>1, <1>3, <1>10, <1>11, <1>16, <1>17, <1>18, <1>19, <1>20, ForkKeeps

\* ResumeFanOut keeps the invariant: the inputs it runs on are prompts.
LEMMA ResumeFanOutKeeps ==
  ASSUME Inv, NEW t \in DOMAIN thr, ResumeFanOut(t)
  PROVE  Inv'
<1>1. /\ thr[t].pc = "resumefan" /\ UNCHANGED mem /\ UNCHANGED counts /\ UNCHANGED <<trunk, rawRuns>>
      /\ ThrInv /\ MemInv /\ store # NoVal
  BY DEF ResumeFanOut, Inv, ThrInv
<1>2. t = D /\ thr[t].role = "resume" /\ ResumeDriver(t)
  BY <1>1 DEF Inv, LocalInv, Local, Driver, DriverPCs, DemoDriver, Worker, WorkerPCs, Busy, Resumed, DemoWorker
<1>3. DOMAIN thr = {D} /\ t[1] = gen
  BY SMTT(40), <1>1, <1>2, Alone DEF D
<1> DEFINE ss == {s \in {heap[store.arr][i] : i \in 1..store.len} : s.status = "pending" /\ s.input # ""}
<1> DEFINE new == [w \in {<<t[1], s.id>> : s \in ss} |->
                     Goroutine("sem", "resumed", w[2], (CHOOSE s \in ss : s.id = w[2]).input)]
<1>4. thr' = [Joined(new) EXCEPT ![t].pc = "join"]
  BY DEF ResumeFanOut
<1> HIDE DEF new
<1>5. PICK I : I = {id \in DOMAIN tab : tab[id].status = "pending" /\ tab[id].input # ""}
  OBVIOUS
<1>6. /\ \A id \in DOMAIN tab : tab[id] \in Stage /\ tab[id].id = id /\ id \in StageIds
      /\ I \subseteq StageIds /\ Main \notin I
  BY <1>1, <1>5, TabFacts, Kinds
<1>7. ss = {tab[id] : id \in I}
  <2>1. {heap[store.arr][i] : i \in 1..store.len} = {tab[id] : id \in DOMAIN tab}
    BY <1>1, StageSet
  <2>2. QED
    BY <1>5, <2>1
<1> HIDE DEF ss
<1>8. \A id \in I : tab[id] \in ss /\ (CHOOSE s \in ss : s.id = id) = tab[id]
  <2>1. \A id \in I : tab[id] \in ss /\ tab[id].id = id /\ \A s \in ss : s.id = id => s = tab[id]
    <3>1. \A s \in ss : \E x \in I : s = tab[x]
      BY <1>7
    <3>2. \A id \in I : tab[id] \in ss
      BY <1>7
    <3>3. \A id \in I : tab[id].id = id
      BY <1>5, <1>6
    <3>4. QED
      BY <3>1, <3>2, <3>3
  <2>2. QED
    BY <2>1
<1>9. {<<t[1], s.id>> : s \in ss} = {<<gen, id>> : id \in I}
  <2>1. \A id \in I : tab[id].id = id
    BY <1>5, <1>6
  <2>2. QED
    BY <1>3, <1>7, <2>1
<1>11. thr' = [Joined(new) EXCEPT ![D].pc = "join"]
  BY <1>2, <1>4
<1> HIDE <1>4
<1>12. /\ DOMAIN new = {<<gen, id>> : id \in I} /\ D \notin DOMAIN new
       /\ \A id \in I : new[<<gen, id>>] = Goroutine("sem", "resumed", id, tab[id].input)
  <2>1. DOMAIN new = {<<gen, id>> : id \in I}
    BY <1>9 DEF new
  <2>2. ASSUME NEW id \in I
        PROVE  new[<<gen, id>>] = Goroutine("sem", "resumed", id, tab[id].input)
    <3>1. PICK w : w = <<gen, id>>
      OBVIOUS
    <3>0. w \in {<<t[1], s.id>> : s \in ss} /\ w[2] = id
      BY <1>9, <3>1
    <3>2. new[w] = Goroutine("sem", "resumed", w[2], (CHOOSE s \in ss : s.id = w[2]).input)
      BY <3>0 DEF new
    <3>3. (CHOOSE s \in ss : s.id = w[2]) = tab[id]
      BY <1>8, <3>0
    <3>4. QED
      BY <3>0, <3>1, <3>2, <3>3
  <2>3. D \notin DOMAIN new
    BY <1>6, <2>1 DEF D
  <2>4. QED
    BY <2>1, <2>2, <2>3
<1>13. \A id \in I : Goroutine("sem", "resumed", id, tab[id].input) \in Thread
  <2>1. "sem" \in PCs
    BY DEF PCs, WorkerPCs
  <2>2. \A id \in I : id \in StageIds /\ tab[id].input \in {"", "task", StagePrompt}
    BY <1>5, <1>6 DEF Stage
  <2>3. QED
    BY <2>1, <2>2 DEF Goroutine, Thread
<1>14. /\ DOMAIN thr' = {D} \cup DOMAIN new /\ thr' \in [DOMAIN thr' -> Thread]
       /\ \A w \in DOMAIN new : thr'[w] = new[w]
       /\ thr'[D] = [thr[D] EXCEPT !.pc = "join"]
  <2>1. \A w \in DOMAIN new : new[w] \in Thread
    BY <1>12, <1>13
  <2>2. QED
    BY <1>1, <1>3, <1>11, <1>12, <2>1, ForkIs
<1> HIDE <1>11
<1>15. /\ thr'[D].pc = "join" /\ thr'[D].role = "resume" /\ thr'[D].prompt = thr[D].prompt
       /\ thr'[D].base = NoVal /\ thr'[D].stage = Merge
  <2>1. thr[D] \in Thread /\ thr[D].base = NoVal /\ thr[D].stage = Merge
    BY <1>1, <1>2 DEF Inv, ThrInv, HeldInv, WritePCs, ResumeDriver
  <2>2. QED
    BY <1>2, <1>14, <2>1 DEF Thread
<1>16. ASSUME NEW id \in I
       PROVE  /\ <<gen, id>> \in DOMAIN thr' /\ thr'[<<gen, id>>].pc = "sem" /\ thr'[<<gen, id>>].role = "resumed"
              /\ thr'[<<gen, id>>].stage = id
              /\ thr'[<<gen, id>>].prompt = tab[id].input /\ thr'[<<gen, id>>].base = NoVal
  <2>1. <<gen, id>> \in DOMAIN new /\ new[<<gen, id>>] = Goroutine("sem", "resumed", id, tab[id].input)
    BY <1>12
  <2>2. <<gen, id>> \in DOMAIN thr' /\ thr'[<<gen, id>>] = Goroutine("sem", "resumed", id, tab[id].input)
    BY <1>14, <2>1
  <2>3. QED
    BY <2>2 DEF Goroutine
<1>17. \A u \in DOMAIN thr' : u = D \/ \E id \in I : u = <<gen, id>>
  BY <1>12, <1>14
<1>18. tab' = tab /\ Alike /\ D' = D /\ resumes' = resumes
  BY <1>1, SameMem DEF Alike, D, counts
<1>19. LocalInv'
  <2>1. ResumeDriver(D)'
    BY <1>2, <1>15, <1>18 DEF ResumeDriver
  <2>2. ASSUME NEW id \in I, NEW w, w = <<gen, id>>
        PROVE  Resumed(w)' /\ w # D
    <3>1. Is(id, "pending") /\ tab[id].input # ""
      BY <1>5 DEF Is
    <3>2. KindOf(id) # "merge"
      <4>1. id # Merge
        BY <1>1, <1>5, <3>1 DEF Inv, TabInv, Grows
      <4>2. id \in StageIds
        BY <1>6
      <4>3. QED
        BY <4>1, <4>2 DEF StageIds, KindOf, Merge, Research, Plan
    <3>3. w[2] = id /\ w # D
      BY <2>2, <1>6 DEF D
    <3>4. Is(id, "pending")'
      BY <1>18, <3>1, AlikeIs
    <3>5. thr'[w].pc = "sem" /\ thr'[w].stage = id /\ thr'[w].prompt # ""
      BY <1>16, <2>2, <3>1
    <3> HIDE <2>2
    <3>6. QED
      BY <3>2, <3>3, <3>4, <3>5 DEF Resumed, Busy
  <2>3. ASSUME NEW u \in DOMAIN thr'
        PROVE  Local(u)'
    <3>1. CASE u = D
      BY <1>15, <1>18, <2>1, <3>1 DEF Local
    <3>2. CASE \E id \in I : u = <<gen, id>>
      <4>1. PICK id \in I : u = <<gen, id>>
        BY <3>2
      <4>2. Resumed(u)' /\ u # D /\ thr'[u].role = "resumed"
        BY <1>16, <2>2, <4>1
      <4>3. QED
        BY <1>15, <1>18, <4>2 DEF Local
    <3>3. QED
      BY <1>17, <3>1, <3>2
  <2>4. QED
    BY <2>3 DEF LocalInv
<1>20. PromptInv'
  <2>1. SUFFICES ASSUME crashes = 0
                 PROVE  PromptInv'
    BY <1>1 DEF PromptInv, counts
  <2>2. rawRuns' = {} /\ ~isDemo /\ thr[D].prompt # "task"
    BY <1>1, <1>2, <2>1 DEF Inv, PromptInv
  <2>3. \A id \in DOMAIN tab : tab[id].input # "task"
    <3>1. \A id : ~Awaited(id)
      <4>1. \A u \in DOMAIN thr : thr[u].role = "resume"
        BY <1>2, <1>3
      <4>2. QED
        BY <1>2, <4>1 DEF Awaited, WaitsFor
    <3>2. QED
      BY <2>1, <2>2, <3>1 DEF Inv, PromptInv
  <2>4. \A u \in DOMAIN thr' : thr'[u].prompt # "task"
    <3>1. \A id \in I : thr'[<<gen, id>>].prompt # "task"
      BY ZenonT(60), <1>5, <1>16, <2>3
    <3>2. QED
      BY <1>15, <1>17, <2>2, <3>1
  <2>5. ~isDemo'
    BY <1>1, <2>2 DEF counts
  <2>6. QED
    BY <1>18, <2>2, <2>3, <2>4, <2>5 DEF PromptInv
<1>21. \A u \in DOMAIN thr' : thr'[u].base = NoVal /\ thr'[u].pc \in {"join", "sem"}
  <2>1. \A id \in I : thr'[<<gen, id>>].base = NoVal /\ thr'[<<gen, id>>].pc = "sem"
    BY <1>16
  <2>2. QED
    BY <1>15, <1>17, <2>1
<1>22. DOMAIN thr' \subseteq {gen} \X (StageIds \cup {Main}) /\ D \in DOMAIN thr'
  BY <1>6, <1>14, <1>17 DEF D
<1>23. \A id : ~Owns(D, id)
  BY <1>1, <1>2 DEF Owns, Busy
<1>24. QED
  BY SMTT(40), <1>1, <1>3, <1>14, <1>15, <1>19, <1>20, <1>21, <1>22, <1>23, ForkKeeps

\* No stage is dropped, and none that is done is taken back.
TabKept ==
  \A id \in DOMAIN tab :
    id \in DOMAIN tab' /\ (tab[id].status = "done" => tab'[id].status \in {"done", "failed"})

\* The goroutines after the demo has started its workers.
LEMMA DemoForkIs ==
  ASSUME ThrInv, DOMAIN thr = {D}, NEW new, D \notin DOMAIN new,
         \A w \in DOMAIN new : new[w] \in Thread,
         thr' = [Joined(new) EXCEPT ![D].pc = "join", ![D].base = NoVal]
  PROVE  /\ DOMAIN thr' = {D} \cup DOMAIN new /\ thr' \in [DOMAIN thr' -> Thread]
         /\ \A w \in DOMAIN new : thr'[w] = new[w]
         /\ thr'[D] = [thr[D] EXCEPT !.pc = "join", !.base = NoVal]
<1>0. PICK f : f = Joined(new) /\ thr' = [f EXCEPT ![D].pc = "join", ![D].base = NoVal]
  OBVIOUS
<1>1. /\ DOMAIN f = {D} \cup DOMAIN new /\ f[D] = thr[D]
      /\ \A w \in DOMAIN new : f[w] = new[w]
  BY <1>0 DEF Joined
<1>2. f = [w \in {D} \cup DOMAIN new |-> f[w]]
  BY <1>0 DEF Joined
<1>3. PICK q : q = [thr[D] EXCEPT !.pc = "join", !.base = NoVal]
  OBVIOUS
<1>4. q \in Thread
  <2>1. thr[D] \in Thread
    BY DEF ThrInv
  <2>2. "join" \in PCs
    BY DEF PCs, DriverPCs
  <2>3. QED
    BY <1>3, <2>1, <2>2 DEF Thread
<1>5. thr' = [f EXCEPT ![D] = q]
  BY <1>0, <1>1, <1>3
<1> HIDE <1>0
<1>6. /\ DOMAIN thr' = {D} \cup DOMAIN new /\ thr'[D] = q
      /\ \A w \in DOMAIN new : thr'[w] = new[w]
  BY <1>1, <1>2, <1>5
<1>7. thr' = [w \in DOMAIN thr' |-> thr'[w]]
  BY <1>1, <1>2, <1>5
<1>8. thr' \in [DOMAIN thr' -> Thread]
  BY <1>4, <1>6, <1>7
<1>9. QED
  BY <1>3, <1>6, <1>8

\* DemoAddTasks keeps the invariant.
LEMMA DemoAddTasksKeeps ==
  ASSUME Inv, NEW t \in DOMAIN thr, DemoAddTasks(t)
  PROVE  Inv' /\ TabKept
<1>1. /\ thr[t].pc = "demotasks" /\ UNCHANGED counts /\ UNCHANGED <<trunk, rawRuns>>
      /\ ThrInv /\ MemInv /\ HeldInv /\ store # NoVal /\ file # NoVal
  BY DEF DemoAddTasks, Inv, ThrInv
<1>2. t = D /\ thr[t].role = "demo" /\ DemoDriver(t)
  BY <1>1 DEF Inv, LocalInv, Local, Driver, DriverPCs, ResumeDriver, Worker, WorkerPCs, Busy, Resumed, DemoWorker
<1>3. DOMAIN thr = {D} /\ t[1] = gen
  BY <1>1, <1>2, Alone DEF D
<1>4. isDemo /\ isDemo' /\ 3 \in 0..MaxTasks
  <2>1. isDemo
    BY <1>2 DEF DemoDriver
  <2>2. isDemo'
    BY <1>1, <2>1, Zenon DEF counts
  <2>3. TRUE \in Demos
    BY <2>1 DEF Inv, CountInv
  <2>4. 3 \in 0..MaxTasks
    BY <2>3, EngineAssumption
  <2>5. QED
    BY <2>1, <2>2, <2>4
<1>5. /\ DOMAIN tab = First /\ Is(Research, "done") /\ Is(Plan, "done")
      /\ store.status = "running" /\ thr[t].stage \in First
  BY <1>1, <1>2 DEF DemoDriver, TwoOnly
<1>6. PICK S : S = TaskIds(3)
  OBVIOUS
<1>7. \E ok \in BOOLEAN : Added(S, "pending", "task", ok)
  <2> DEFINE new == [i \in 1..DemoTasks |-> NewStage(<<"implement", i>>, "pending", "task")]
  <2>1. PICK ok \in SaveResults : Upsert(appended(Base(t), new).heap, appended(Base(t), new).hdr, ok)
    BY DEF DemoAddTasks
  <2>2. new = [i \in 1..3 |-> NewStage(<<"implement", i>>, "pending", "task")]
    BY DEF DemoTasks
  <2>3. ok \in BOOLEAN /\ Base(t) = store
    BY <1>1, SaveIsBoolean, BaseIs
  <2> HIDE DEF new
  <2>4. /\ new \in Seq(Stage) /\ Len(new) = 3
        /\ \A i \in 1..3 : new[i] = NewStage(<<"implement", i>>, "pending", "task")
    BY <1>4, <2>2, TaskStages
  <2>5. \A i \in 1..3 : <<"implement", i>> \notin DOMAIN tab
    BY <1>5 DEF First, Research, Plan
  <2>6. Upsert(appended(store, new).heap, appended(store, new).hdr, ok)
    BY <2>1, <2>3
  <2>7. Added(TaskIds(3), "pending", "task", ok)
    BY <1>1, <1>4, <2>3, <2>4, <2>5, <2>6, AddTasks
  <2>8. QED
    BY <1>6, <2>3, <2>7
<1>8. PICK ok \in BOOLEAN : Added(S, "pending", "task", ok)
  BY <1>7
<1>9. S \subseteq StageIds /\ Main \notin S /\ \A id \in S : KindOf(id) = "implement" /\ id \notin First /\ id # Merge
  <2>1. \A i \in 1..3 : i \in Tasks
    BY <1>4, EngineAssumption DEF Tasks
  <2>2. QED
    BY <1>6, <2>1, ImplementIds, Kinds DEF TaskIds
<1>10. /\ DOMAIN thr' = {D} \cup {<<gen, id>> : id \in S} /\ thr' \in [DOMAIN thr' -> Thread]
       /\ \A id \in S : thr'[<<gen, id>>] = Goroutine("demostart", "demoworker", id, "")
       /\ thr'[D] = [thr[D] EXCEPT !.pc = "join", !.base = NoVal]
  <2> DEFINE ws == [w \in {<<t[1], <<"implement", i>>>> : i \in 1..DemoTasks} |->
                      Goroutine("demostart", "demoworker", w[2], "")]
  <2>1. thr' = [Joined(ws) EXCEPT ![t].pc = "join", ![t].base = NoVal]
    BY DEF DemoAddTasks
  <2>2. {<<t[1], <<"implement", i>>>> : i \in 1..DemoTasks} = {<<gen, id>> : id \in S}
    BY <1>3, <1>6 DEF TaskIds, DemoTasks
  <2>3. ws = [w \in {<<gen, id>> : id \in S} |-> Goroutine("demostart", "demoworker", w[2], "")]
    BY <2>2
  <2> HIDE DEF ws
  <2>4. /\ DOMAIN ws = {<<gen, id>> : id \in S} /\ D \notin DOMAIN ws
        /\ \A id \in S : ws[<<gen, id>>] = Goroutine("demostart", "demoworker", id, "")
    BY <1>9, <2>3 DEF D
  <2>5. \A id \in S : Goroutine("demostart", "demoworker", id, "") \in Thread
    <3>1. "demostart" \in PCs
      BY DEF PCs
    <3>2. QED
      BY <1>9, <3>1 DEF Goroutine, Thread
  <2>6. \A w \in DOMAIN ws : ws[w] \in Thread
    BY <2>4, <2>5
  <2>7. thr' = [Joined(ws) EXCEPT ![D].pc = "join", ![D].base = NoVal]
    BY <1>2, <2>1
  <2> HIDE <2>1
  <2>8. /\ DOMAIN thr' = {D} \cup DOMAIN ws /\ thr' \in [DOMAIN thr' -> Thread]
        /\ \A w \in DOMAIN ws : thr'[w] = ws[w]
        /\ thr'[D] = [thr[D] EXCEPT !.pc = "join", !.base = NoVal]
    BY <1>1, <1>3, <2>4, <2>6, <2>7, DemoForkIs
  <2> HIDE <2>7
  <2>9. QED
    BY <2>4, <2>8
<1>11. /\ thr'[D].pc = "join" /\ thr'[D].role = "demo" /\ thr'[D].prompt = thr[D].prompt
       /\ thr'[D].base = NoVal /\ thr'[D].stage = thr[D].stage
  <2>1. thr[D] \in Thread
    BY <1>1, <1>2 DEF ThrInv
  <2>2. QED
    BY <1>2, <1>10, <2>1 DEF Thread
<1>12. ASSUME NEW id \in S
       PROVE  /\ thr'[<<gen, id>>].pc = "demostart" /\ thr'[<<gen, id>>].role = "demoworker"
              /\ thr'[<<gen, id>>].stage = id
              /\ thr'[<<gen, id>>].prompt = "" /\ thr'[<<gen, id>>].base = NoVal
  <2>1. thr'[<<gen, id>>] = Goroutine("demostart", "demoworker", id, "")
    BY <1>10
  <2>2. PICK p : p = ""
    OBVIOUS
  <2>3. thr'[<<gen, id>>] = Goroutine("demostart", "demoworker", id, p)
    BY <2>1, <2>2
  <2>4. PICK g : g = Goroutine("demostart", "demoworker", id, p)
    OBVIOUS
  <2>5. g.pc = "demostart" /\ g.role = "demoworker" /\ g.stage = id /\ g.prompt = p /\ g.base = NoVal
    BY <2>4 DEF Goroutine
  <2>6. g = thr'[<<gen, id>>]
    BY <2>3, <2>4
  <2> HIDE <2>1, <2>3, <2>4
  <2>7. QED
    BY <2>2, <2>5, <2>6
<1>13. \A u \in DOMAIN thr' : u = D \/ \E id \in S : u = <<gen, id>>
  BY <1>10
<1>14. /\ D' = D /\ gen' = gen /\ resumes' = resumes /\ crashes' = crashes
  BY <1>1 DEF D, counts
<1>15. /\ MemInv' /\ store' # NoVal /\ store'.status = "running" /\ Saved(ok)
       /\ DOMAIN tab' = First \cup S
       /\ \A id \in First : tab'[id].status = "done" /\ tab'[id] = tab[id]
       /\ \A id \in S : tab'[id].status = "pending" /\ Is(id, "pending")'
  <2>1. \A id \in S : tab'[id].status = "pending" /\ Is(id, "pending")'
    BY <1>8, AddedKeeps
  <2>2. QED
    BY <1>5, <1>8, <2>1 DEF Added, Is, First
<1>16. Grows(tab')
  <2>1. Merge \notin DOMAIN tab'
    BY <1>9, <1>15, Kinds
  <2>2. QED
    BY <1>15, <2>1 DEF Grows, First
<1>17. UNCHANGED <<resumes, isDemo>>
  BY <1>1, Zenon DEF counts
<1>18. /\ TabInv' /\ Synced' /\ file' # NoVal /\ (saveFails' = 0 => saveFails = 0)
  BY <1>1, <1>15, <1>16, <1>17, SavedKeeps DEF Inv
<1>19. ThrInv'
  <2>1. DOMAIN thr' \subseteq {gen} \X (StageIds \cup {Main}) /\ D \in DOMAIN thr'
    <3>1. \A u \in DOMAIN thr' : u \in {gen} \X (StageIds \cup {Main})
      BY <1>9, <1>13 DEF D
    <3>2. QED
      BY <1>10, <3>1
  <2>2. QED
    BY <1>1, <1>3, <1>10, <1>11, <1>14, <1>15, <1>18, <2>1 DEF ThrInv
<1>20. CountInv'
  BY <1>1, <1>14, <1>15, <1>17, <1>18 DEF Inv, CountInv
<1>21. \A u \in DOMAIN thr' : thr'[u].base = NoVal /\ thr'[u].pc \in {"join", "demostart"}
  <2>1. \A id \in S : thr'[<<gen, id>>].base = NoVal /\ thr'[<<gen, id>>].pc = "demostart"
    BY <1>12
  <2>2. QED
    BY <1>11, <1>13, <2>1
<1>22. HeldInv' /\ PersistInv'
  BY <1>21 DEF HeldInv, PersistInv
<1>23. LocalInv'
  <2>1. DemoDriver(D)'
    <3>1. thr'[D].pc = "join" /\ thr'[D].stage \in First /\ store'.status = "running"
      BY <1>2, <1>5, <1>11, <1>15
    <3>2. QED
      BY <1>4, <1>14, <3>1 DEF DemoDriver
  <2>2. ASSUME NEW id \in S, NEW w, w = <<gen, id>>
        PROVE  DemoWorker(w)' /\ w # D
    <3>1. w[2] = id /\ w # D
      BY <2>2, <1>9 DEF D
    <3>2. thr'[w].pc = "demostart" /\ thr'[w].stage = id
      BY <1>12, <2>2
    <3> HIDE <2>2
    <3>3. QED
      BY <1>9, <1>15, <3>1, <3>2 DEF DemoWorker
  <2>3. ASSUME NEW u \in DOMAIN thr'
        PROVE  Local(u)'
    <3>1. CASE u = D
      BY <1>11, <1>14, <2>1, <3>1 DEF Local
    <3>2. CASE \E id \in S : u = <<gen, id>>
      <4>1. PICK id \in S : u = <<gen, id>>
        BY <3>2
      <4>2. DemoWorker(u)' /\ u # D /\ thr'[u].role = "demoworker"
        BY <1>12, <2>2, <4>1
      <4>3. QED
        BY <1>11, <1>14, <4>2 DEF Local
    <3>3. QED
      BY <1>13, <3>1, <3>2
  <2>4. QED
    BY <2>3 DEF LocalInv
<1>24. NoFailed' /\ \A id \in DOMAIN tab' : tab'[id].status # "running"
  BY <1>15 DEF NoFailed
<1>25. RunInv'
  BY <1>24 DEF RunInv
<1>26. PromptInv'
  <2>1. SUFFICES ASSUME crashes = 0
                 PROVE  PromptInv'
    BY <1>14 DEF PromptInv
  <2>2. rawRuns' = {} /\ thr[D].prompt # "task"
    BY <1>1, <1>2, <2>1 DEF Inv, PromptInv
  <2>3. \A u \in DOMAIN thr' : thr'[u].prompt # "task" /\ thr'[u].role \in {"demo", "demoworker"}
    <3>1. \A id \in S : thr'[<<gen, id>>].prompt = "" /\ thr'[<<gen, id>>].role = "demoworker"
      BY <1>12
    <3>2. QED
      BY <1>11, <1>13, <2>2, <3>1
  <2>4. QED
    BY <1>4, <1>24, <2>2, <2>3 DEF PromptInv
<1>27. TrunkInv'
  <2>1. \A b : Verified(b) => Verified(b)'
    BY <1>8, AddedKeeps
  <2>2. QED
    BY <1>1, <1>18, <2>1 DEF Inv, TrunkInv
<1>28. QED
  <2>1. TabKept
    BY <1>8 DEF Added, TabKept
  <2>2. QED
    BY <1>15, <1>18, <1>19, <1>20, <1>22, <1>23, <1>25, <1>26, <1>27, <2>1 DEF Inv

----------------------------------------------------------------------------
(* A driver ends *)

EndOf(ok) ==
  /\ DOMAIN thr = {D} /\ thr' = Ended(D) /\ UNCHANGED counts /\ UNCHANGED <<trunk, rawRuns>>
  /\ MemInv' /\ store' # NoVal /\ store'.status \in {"done", "failed"} /\ Saved(ok)
  /\ Grows(tab')
  /\ store'.status = "done" /\ resumes = 0 /\ ~isDemo => Complete(tab')
  /\ crashes = 0 /\ saveFails = 0 => \A id \in DOMAIN tab' : tab'[id].status # "running"
  /\ crashes = 0 /\ isDemo => NoFailed'
  /\ crashes = 0 /\ ~isDemo => \A id \in DOMAIN tab' : tab'[id].input = "task" =>
                                 tab'[id].status = "pending" /\ NoFailed'
  /\ \A b : Verified(b) => Verified(b)'
  /\ TabKept

\* The end of a driver keeps the invariant.
LEMMA EndKeeps ==
  ASSUME Inv, NEW ok \in BOOLEAN, EndOf(ok)
  PROVE  Inv' /\ TabKept
<1>1. DOMAIN thr' = {} /\ thr' \in [DOMAIN thr' -> Thread]
  BY DEF EndOf, Ended
<1>2. /\ D' = D /\ gen' = gen /\ resumes' = resumes /\ crashes' = crashes
      /\ UNCHANGED <<resumes, isDemo>>
  BY DEF EndOf, D, counts
<1>3. MemInv /\ file # NoVal /\ store # NoVal
  BY DEF Inv, ThrInv, EndOf
<1>4. TabInv' /\ Synced' /\ file' # NoVal /\ (saveFails' = 0 => saveFails = 0)
  BY <1>2, <1>3, SavedKeeps DEF Inv, EndOf
<1>5. ThrInv'
  <2>1. store' # NoVal /\ store'.status \notin {"queued", "running"}
    BY DEF EndOf
  <2>2. QED
    BY <1>1, <2>1 DEF ThrInv
<1>6. CountInv'
  BY <1>2, <1>4 DEF Inv, CountInv, EndOf
<1>7. HeldInv' /\ PersistInv' /\ LocalInv'
  BY <1>1 DEF HeldInv, PersistInv, LocalInv
<1>8. RunInv'
  BY <1>2, <1>4 DEF RunInv, EndOf
<1>9. PromptInv'
  <2>1. SUFFICES ASSUME crashes = 0
                 PROVE  PromptInv'
    BY <1>2 DEF PromptInv
  <2>2. rawRuns' = {}
    BY <2>1 DEF Inv, PromptInv, EndOf
  <2>3. isDemo' => NoFailed' /\ \A u \in DOMAIN thr' : thr'[u].role \in {"demo", "demoworker"}
    BY <1>1, <1>2, <2>1 DEF EndOf
  <2>4. ~isDemo' => \A id \in DOMAIN tab' : tab'[id].input = "task" => Awaited(id)'
    BY <1>1, <1>2, <2>1 DEF EndOf, Awaited
  <2>5. QED
    BY <1>1, <2>2, <2>3, <2>4 DEF PromptInv
<1>10. TrunkInv'
  BY <1>4 DEF Inv, TrunkInv, EndOf
<1>11. QED
  BY <1>4, <1>5, <1>6, <1>7, <1>8, <1>9, <1>10 DEF Inv, EndOf

\* Only the header's status changes.
LEMMA StatusEnd ==
  ASSUME Inv, NEW st \in {"done", "failed"}, NEW ok \in BOOLEAN,
         Upsert(heap, [store EXCEPT !.status = st], ok), DOMAIN thr = {D}, thr' = Ended(D),
         UNCHANGED counts, UNCHANGED <<trunk, rawRuns>>,
         st = "done" => resumes # 0 \/ isDemo,
         \A id : ~Owns(D, id), \A id : ~WaitsFor(D, id)
  PROVE  EndOf(ok)
<1>1. MemInv /\ HeldInv /\ store # NoVal /\ st \in Statuses
  BY DEF Inv, ThrInv, Statuses
<1>2. /\ MemInv' /\ store' # NoVal /\ store'.status = st /\ tab' = tab /\ Saved(ok)
  BY <1>1, StatusEffect
<1>3. Grows(tab')
  BY <1>1, <1>2 DEF Inv, TabInv
<1>4. crashes = 0 /\ saveFails = 0 => \A id \in DOMAIN tab' : tab'[id].status # "running"
  BY <1>2 DEF Inv, RunInv
<1>5. NoFailed' <=> NoFailed
  BY <1>2 DEF NoFailed
<1>6. crashes = 0 /\ isDemo => NoFailed'
  BY <1>5 DEF Inv, PromptInv
<1>7. crashes = 0 /\ ~isDemo => \A id \in DOMAIN tab' : tab'[id].input = "task" =>
                                 tab'[id].status = "pending" /\ NoFailed'
  BY <1>2, <1>5 DEF Inv, PromptInv, Awaited
<1>8. \A b : Verified(b) => Verified(b)'
  BY <1>2, AlikeIs DEF Alike
<1>9. QED
  BY <1>2, <1>3, <1>4, <1>6, <1>7, <1>8 DEF EndOf, TabKept

\* failWorkflow keeps the invariant.
LEMMA FailKeeps ==
  ASSUME Inv, NEW t \in DOMAIN thr, failWorkflow(t)
  PROVE  Inv' /\ TabKept
<1>1. /\ thr[t].pc = "failwf" /\ UNCHANGED counts /\ UNCHANGED <<trunk, rawRuns>> /\ ThrInv /\ HeldInv
  BY DEF failWorkflow, Inv
<1>2. t = D /\ thr[t].role = "driver"
  BY <1>1 DEF Inv, LocalInv, Local, DemoDriver, ResumeDriver, Worker, WorkerPCs, Busy, Resumed, DemoWorker
<1>3. DOMAIN thr = {D}
  BY <1>1, <1>2, Alone
<1>4. Base(t) = store
  BY <1>1, BaseIs
<1>5. PICK ok \in SaveResults : Upsert(heap, [store EXCEPT !.status = "failed"], ok)
  BY <1>4 DEF failWorkflow
<1>6. ok \in BOOLEAN
  BY SaveIsBoolean
<1>7. thr' = Ended(D)
  BY <1>2 DEF failWorkflow
<1>8. \A id : ~Owns(D, id) /\ ~WaitsFor(D, id)
  BY <1>1, <1>2 DEF Owns, WaitsFor, Busy
<1>9. EndOf(ok)
  BY <1>1, <1>3, <1>5, <1>6, <1>7, <1>8, StatusEnd
<1>10. QED
  BY <1>6, <1>9, EndKeeps

\* DemoFinish keeps the invariant.
LEMMA DemoFinishKeeps ==
  ASSUME Inv, NEW t \in DOMAIN thr, DemoFinish(t)
  PROVE  Inv' /\ TabKept
<1>1. /\ thr[t].pc = "demofinish" /\ UNCHANGED counts /\ UNCHANGED <<trunk, rawRuns>> /\ ThrInv /\ HeldInv
  BY DEF DemoFinish, Inv
<1>2. t = D /\ thr[t].role = "demo" /\ isDemo
  BY <1>1 DEF Inv, LocalInv, Local, Driver, DriverPCs, DemoDriver, ResumeDriver, Worker, WorkerPCs, Busy, Resumed, DemoWorker
<1>3. DOMAIN thr = {D}
  BY <1>1, <1>2, Alone
<1>4. Base(t) = store
  BY <1>1, BaseIs
<1>5. \E ok \in SaveResults : \E st \in {"done", "failed"} : Upsert(heap, [store EXCEPT !.status = st], ok)
  <2> DEFINE st == IF \A i \in 1..store.len : heap[store.arr][i].status = "done" THEN "done" ELSE "failed"
  <2>1. \E ok \in SaveResults : Upsert(heap, [store EXCEPT !.status = st], ok)
    BY <1>4 DEF DemoFinish
  <2>2. st \in {"done", "failed"}
    OBVIOUS
  <2> HIDE DEF st
  <2>3. QED
    BY <2>1, <2>2
<1>6. PICK ok \in SaveResults : \E st \in {"done", "failed"} : Upsert(heap, [store EXCEPT !.status = st], ok)
  BY <1>5
<1>7. PICK st \in {"done", "failed"} : Upsert(heap, [store EXCEPT !.status = st], ok)
  BY <1>6
<1>8. ok \in BOOLEAN
  BY SaveIsBoolean
<1>9. thr' = Ended(D)
  BY <1>2 DEF DemoFinish
<1>10. \A id : ~Owns(D, id) /\ ~WaitsFor(D, id)
  BY <1>1, <1>2 DEF Owns, WaitsFor, Busy
<1>11. EndOf(ok)
  BY <1>1, <1>2, <1>3, <1>7, <1>8, <1>9, <1>10, StatusEnd
<1>12. QED
  BY <1>8, <1>11, EndKeeps

\* The driver's last write: the merge stage and the workflow's status.
LEMMA MergeEnd ==
  ASSUME Inv, DOMAIN thr = {D}, thr[D].role = "driver", thr[D].pc = "finish", Driver(D),
         NEW st \in {"done", "failed"}, NEW v \in Stage, NEW ok \in BOOLEAN,
         v.id = Merge, v.status \in {"done", "failed"}, v.input = tab[Merge].input,
         st = "done" => v.status = "done" /\ ~thr[D].err,
         Wrote(Merge, v, st, ok),
         thr' = Ended(D), UNCHANGED counts, UNCHANGED <<trunk, rawRuns>>
  PROVE  EndOf(ok)
<1>1. MemInv /\ HeldInv /\ store # NoVal /\ TabInv /\ Grows(tab)
  BY DEF Inv, ThrInv, TabInv
<1>2. /\ Is(Merge, "running") /\ Merge \in DOMAIN tab
      /\ \E id \in DOMAIN tab : KindOf(id) = "implement"
  BY DEF Driver, Is
<1>3. /\ MemInv' /\ store' # NoVal /\ store'.status = st /\ Saved(ok)
  BY DEF Wrote
<1>4. /\ DOMAIN tab' = DOMAIN tab /\ tab'[Merge] = v
      /\ \A id, s : id # Merge /\ Is(id, s) => Is(id, s)'
      /\ \A b : Verified(b) => Verified(b)'
  <2>1. tab[Merge].status # "done"
    BY <1>2 DEF Is
  <2>2. QED
    BY <1>2, <2>1, WroteKeeps
<1>5. \A id \in DOMAIN tab : id # Merge => tab'[id] = tab[id]
  <2>1. tab = [id \in DOMAIN tab |-> tab[id]]
    BY <1>1, TabFacts
  <2>2. tab' = [tab EXCEPT ![Merge] = v]
    BY DEF Wrote
  <2>3. QED
    BY <2>1, <2>2
<1>6. Grows(tab')
  BY <1>1, <1>4, <1>5, Kinds DEF Grows, First
<1>7. st = "done" => Complete(tab')
  <2>1. SUFFICES ASSUME st = "done"
                 PROVE  Complete(tab')
    OBVIOUS
  <2>2. v.status = "done" /\ ~thr[D].err
    BY <2>1
  <2>3. ASSUME NEW id \in DOMAIN tab, KindOf(id) = "implement"
        PROVE  /\ Is(id, "done")' /\ Verified(id[2])'
               /\ VerifyOf(id) = <<"verify", id[2]>>
    <3>1. id \in StageIds /\ id # Main /\ id # Merge /\ VerifyOf(id) = <<"verify", id[2]>>
      BY <1>1, <2>3, TabFacts, ImplementIds, Kinds
    <3>2. <<D[1], id>> \notin DOMAIN thr
      BY <3>1 DEF D
    <3>3. Is(id, "done") /\ Verified(id[2])
      BY <2>2, <2>3, <3>2 DEF Driver
    <3>4. QED
      BY <1>4, <3>1, <3>3
  <2>4. \A id \in DOMAIN tab' : KindOf(id) = "implement" =>
          /\ tab'[id].status = "done" /\ VerifyOf(id) \in DOMAIN tab'
          /\ tab'[VerifyOf(id)].status = "done" /\ VerifierPasses(tab'[VerifyOf(id)].output)
    <3>1. ASSUME NEW id \in DOMAIN tab', KindOf(id) = "implement"
          PROVE  /\ tab'[id].status = "done" /\ VerifyOf(id) \in DOMAIN tab'
                 /\ tab'[VerifyOf(id)].status = "done" /\ VerifierPasses(tab'[VerifyOf(id)].output)
      <4>1. Is(id, "done")' /\ Verified(id[2])' /\ VerifyOf(id) = <<"verify", id[2]>>
        BY <1>4, <2>3, <3>1
      <4>2. Is(<<"verify", id[2]>>, "done")' /\ VerifierPasses(tab'[<<"verify", id[2]>>].output)
        BY <4>1 DEF Verified, VerifierPasses
      <4>3. QED
        BY <4>1, <4>2 DEF Is
    <3>2. QED
      BY <3>1
  <2>5. QED
    BY <1>2, <1>4, <2>2, <2>4 DEF Complete
<1>8. crashes = 0 /\ saveFails = 0 => \A id \in DOMAIN tab' : tab'[id].status # "running"
  <2>1. \A id : Owns(D, id) => id = Merge
    BY DEF Owns, Driver
  <2>2. crashes = 0 /\ saveFails = 0 => \A id \in DOMAIN tab : tab[id].status = "running" => id = Merge
    BY <2>1 DEF Inv, RunInv
  <2>3. QED
    BY <1>4, <1>5, <2>2
<1>9. crashes = 0 => ~isDemo
  BY DEF Inv, PromptInv
<1>10. crashes = 0 => \A id \in DOMAIN tab' : tab'[id].input # "task"
  <2>1. \A id : ~Awaited(id)
    BY DEF Awaited, WaitsFor
  <2>2. crashes = 0 => \A id \in DOMAIN tab : tab[id].input # "task"
    BY <1>9, <2>1 DEF Inv, PromptInv
  <2>3. QED
    BY <1>2, <1>4, <1>5, <2>2
<1>11. TabKept
  BY <1>2, <1>4, <1>5 DEF TabKept, Is
<1>12. QED
  BY <1>3, <1>4, <1>6, <1>7, <1>8, <1>9, <1>10, <1>11 DEF EndOf

\* FinishWorkflow keeps the invariant: done means verified and merged.
LEMMA FinishKeeps ==
  ASSUME Inv, NEW t \in DOMAIN thr, FinishWorkflow(t)
  PROVE  Inv' /\ TabKept
<1>1. /\ thr[t].pc = "finish" /\ UNCHANGED counts /\ UNCHANGED <<trunk, rawRuns>>
      /\ ThrInv /\ HeldInv /\ MemInv /\ thr[t] \in Thread /\ store # NoVal
  BY DEF FinishWorkflow, Inv, ThrInv
<1>2. t = D /\ ((thr[t].role = "driver" /\ Driver(t)) \/ (thr[t].role = "resume" /\ ResumeDriver(t)))
  BY <1>1 DEF Inv, LocalInv, Local, DemoDriver, Worker, WorkerPCs, Busy, Resumed, DemoWorker
<1>3. DOMAIN thr = {D} /\ thr' = Ended(D)
  BY <1>1, <1>2, Alone DEF FinishWorkflow
<1>4. Base(t) = store
  BY <1>1, BaseIs
<1>5. CASE thr[t].role = "driver"
  <2>1. Driver(t) /\ Subject(t) = Merge /\ Merge \in DOMAIN tab /\ thr[t].result \in MergeResults
    BY <1>1, <1>2, <1>5 DEF Driver, Subject, Is
  <2>2. /\ At(t) = stageIndex(store, Merge) /\ At(t) # 0
        /\ heap[store.arr][stageIndex(store, Merge)] = tab[Merge]
        /\ tab[Merge] \in Stage /\ tab[Merge].id = Merge
    BY <2>1, PutAt
  <2>3. thr[t].result.err \in BOOLEAN /\ thr[t].err \in BOOLEAN
    BY <1>1, <2>1 DEF Thread, MergeResults
  <2>4. PICK e \in BOOLEAN : e = thr[t].result.err
    BY <2>3
  <2>5. PICK st : st = IF thr[t].err \/ e THEN "failed" ELSE "done"
    OBVIOUS
  <2>6. PICK v : v = [tab[Merge] EXCEPT !.status = IF e THEN "failed" ELSE "done"]
    OBVIOUS
  <2>7. \E ok \in SaveResults : Upsert([heap EXCEPT ![store.arr][stageIndex(store, Merge)] = v],
                                       [store EXCEPT !.status = st], ok)
    BY <1>4, <1>5, <2>2, <2>4, <2>5, <2>6 DEF FinishWorkflow, InPlace
  <2>8. PICK ok \in SaveResults : Upsert([heap EXCEPT ![store.arr][stageIndex(store, Merge)] = v],
                                       [store EXCEPT !.status = st], ok)
    BY <2>7
  <2>9. ok \in BOOLEAN /\ st \in {"done", "failed"} /\ st \in Statuses
    BY <2>5, SaveIsBoolean DEF Statuses
  <2>10. /\ v \in Stage /\ v.id = Merge /\ v.status \in {"done", "failed"} /\ v.input = tab[Merge].input
         /\ st = "done" => v.status = "done" /\ ~thr[t].err
    BY <2>2, <2>5, <2>6 DEF Stage
  <2> HIDE <2>5, <2>6, <2>4
  <2>11. Wrote(Merge, v, st, ok)
    BY <1>1, <2>1, <2>8, <2>9, <2>10, PutEffect
  <2>12. EndOf(ok)
    BY <1>1, <1>2, <1>3, <1>5, <2>1, <2>9, <2>10, <2>11, MergeEnd
  <2>13. QED
    BY <2>9, <2>12, EndKeeps
<1>6. CASE thr[t].role = "resume"
  <2>1. resumes # 0
    BY <1>2, <1>6 DEF ResumeDriver, Inv, CountInv
  <2>2. PICK st : st = IF thr[t].err THEN "failed" ELSE "done"
    OBVIOUS
  <2>3. \E ok \in SaveResults : Upsert(heap, [store EXCEPT !.status = st], ok)
    BY <1>4, <1>6, <2>2 DEF FinishWorkflow
  <2>4. PICK ok \in SaveResults : Upsert(heap, [store EXCEPT !.status = st], ok)
    BY <2>3
  <2>5. ok \in BOOLEAN /\ st \in {"done", "failed"}
    BY <2>2, SaveIsBoolean
  <2>6. \A id : ~Owns(D, id) /\ ~WaitsFor(D, id)
    BY <1>1, <1>2, <1>6 DEF Owns, WaitsFor, Busy
  <2>7. EndOf(ok)
    BY <1>1, <1>3, <2>1, <2>4, <2>5, <2>6, StatusEnd
  <2>8. QED
    BY <2>5, <2>7, EndKeeps
<1>7. QED
  BY <1>2, <1>5, <1>6

----------------------------------------------------------------------------
(* Calls from outside, and restarts *)

\* What is left to show when a step leaves no goroutine, or a new driver.
MemPart == MemInv /\ TabInv /\ Synced /\ CountInv /\ RunInv /\ PromptInv /\ TrunkInv
Empty   == DOMAIN thr = {} /\ thr \in [DOMAIN thr -> Thread]

\* A step that leaves no goroutine.
LEMMA EmptyKeeps ==
  ASSUME MemPart', Empty',
         store' # NoVal /\ saveFails' = 0 => store'.status \notin {"queued", "running"}
  PROVE  Inv'
<1>1. ThrInv'
  BY DEF Empty, ThrInv
<1>2. HeldInv' /\ PersistInv' /\ LocalInv'
  BY DEF Empty, HeldInv, PersistInv, LocalInv
<1>3. QED
  BY <1>1, <1>2 DEF MemPart, Inv

FreshDriver(g) == gen # 0 /\ DOMAIN thr = {D} /\ thr \in [DOMAIN thr -> Thread] /\ thr[D] = g

\* A step that leaves a new driver only.
LEMMA FreshKeeps ==
  ASSUME MemPart', NEW g, FreshDriver(g)', g.base = NoVal, g.pc \notin HasSession, Local(D)',
         store' # NoVal, file' # NoVal, store'.status \in {"queued", "running"}
  PROVE  Inv'
<1>1. \A u \in DOMAIN thr' : u = D' /\ thr'[u].base = NoVal /\ thr'[u].pc \notin HasSession
  BY DEF FreshDriver
<1>2. ThrInv'
  <2>1. D' = <<gen', Main>>
    BY DEF D
  <2>2. QED
    BY <1>1, <2>1 DEF FreshDriver, ThrInv
<1>3. HeldInv' /\ PersistInv'
  BY <1>1 DEF HeldInv, PersistInv, HasSession
<1>4. LocalInv'
  BY <1>1 DEF LocalInv
<1>5. QED
  BY <1>2, <1>3, <1>4 DEF MemPart, Inv

\* StartDriver, when there is no goroutine.
LEMMA StartIs ==
  ASSUME DOMAIN thr = {}, gen \in Nat, NEW g \in Thread, StartDriver(g)
  PROVE  FreshDriver(g)' /\ gen' = gen + 1
<1>1. thr' = Joined([t \in {<<gen + 1, Main>>} |-> g]) /\ gen' = gen + 1
  BY DEF StartDriver
<1>2. thr' = [t \in {<<gen + 1, Main>>} |-> g]
  BY <1>1 DEF Joined
<1>3. D' = <<gen + 1, Main>>
  BY <1>1 DEF D
<1>4. QED
  BY <1>1, <1>2, <1>3 DEF FreshDriver

\* A new goroutine is one.
LEMMA GoroutineType ==
  ASSUME NEW pc \in PCs, NEW role \in {"driver", "resume", "demo"}, NEW stage \in StageIds,
         NEW prompt \in {"", StagePrompt}
  PROVE  Goroutine(pc, role, stage, prompt) \in Thread
BY DEF Goroutine, Thread

\* The table of a submitted workflow.
LEMMA FirstTabIs ==
  /\ DOMAIN FirstTab = First /\ Grows(FirstTab)
  /\ \A id \in First : /\ FirstTab[id].status = "pending" /\ FirstTab[id].input = ""
<1>1. DOMAIN FirstTab = First /\ \A id \in First : FirstTab[id] = NewStage(id, "pending", "")
  BY DEF FirstTab
<1> HIDE DEF FirstTab
<1>2. ASSUME NEW id \in First
      PROVE  FirstTab[id].status = "pending" /\ FirstTab[id].input = ""
  <2>1. PICK st, in : st = "pending" /\ in = ""
    OBVIOUS
  <2>2. PICK s : s = NewStage(id, st, in)
    OBVIOUS
  <2>3. s.status = st /\ s.input = in
    BY <2>2 DEF NewStage
  <2>4. FirstTab[id] = s
    BY <1>1, <2>1, <2>2
  <2>5. QED
    BY <2>1, <2>3, <2>4, Zenon
<1>3. Merge \notin DOMAIN FirstTab
  BY <1>1, Kinds
<1>4. Grows(FirstTab)
  BY <1>1, <1>3 DEF Grows
<1>5. QED
  BY <1>1, <1>2, <1>4

\* A new driver, before its first find.
LEMMA FinderLocal ==
  ASSUME NEW pc \in {"submit", "find"}, NEW g,
         g = Goroutine(pc, "driver", Research, StagePrompt), FreshDriver(g)'
  PROVE  Local(D)' /\ g.base = NoVal /\ g.pc \notin HasSession /\ g.prompt # "task" /\ g.role = "driver"
<1>1. /\ g.pc = pc /\ g.role = "driver" /\ g.stage = Research /\ g.prompt = StagePrompt
      /\ g.base = NoVal /\ g.good = {}
  BY DEF Goroutine
<1>2. thr'[D'] = g
  BY DEF FreshDriver
<1>3. Driver(D)'
  BY <1>1, <1>2 DEF Driver, DriverPCs, Busy, First
<1>4. QED
  BY <1>1, <1>2, <1>3 DEF Local, HasSession, StagePrompt

\* Before a submission there is nothing.
LEMMA Blank ==
  ASSUME Inv, store = NoVal
  PROVE  /\ file = NoVal /\ gen = 0 /\ Empty /\ tab = <<>> /\ (saveFails = 0 => trunk = {})
         /\ saveFails \in Nat /\ resumes \in Nat /\ crashes \in Nat /\ MemInv
<1>1. file = NoVal /\ gen = 0 /\ resumes \in Nat /\ crashes \in Nat
  BY DEF Inv, CountInv
<1>2. Empty
  BY DEF Inv, ThrInv, Empty
<1>3. tab = <<>> /\ DOMAIN tab = {}
  BY DEF tab
<1>4. saveFails = 0 => trunk = {}
  BY <1>3 DEF Inv, TrunkInv, Verified, Is
<1>5. saveFails \in Nat /\ MemInv
  BY DEF Inv, MemInv
<1>6. QED
  BY <1>1, <1>2, <1>3, <1>4, <1>5

\* The memory and the file after a submission.
NewOf(fst) ==
  /\ MemInv' /\ store' # NoVal /\ store'.status \in {"queued", "running"} /\ tab' = FirstTab
  /\ file' # NoVal => ftab' = FirstTab /\ file'.status = fst /\ fst \in {"queued", "running"}
  /\ saveFails' = 0 => saveFails = 0 /\ file' # NoVal /\ file'.status = store'.status
  /\ UNCHANGED <<trunk, rawRuns, resumes, crashes>> /\ isDemo' \in BOOLEAN
  /\ isDemo' => TRUE \in Demos

\* A submission keeps the invariants of the memory.
LEMMA NewPart ==
  ASSUME Inv, store = NoVal, NEW fst, NewOf(fst), gen' \in {0, 1}, gen' = 1 => file' # NoVal,
         \A u \in DOMAIN thr' : thr'[u].prompt # "task",
         isDemo' => \A u \in DOMAIN thr' : thr'[u].role = "demo"
  PROVE  MemPart'
<1>1. /\ file = NoVal /\ (saveFails = 0 => trunk = {}) /\ resumes \in Nat /\ crashes \in Nat
  BY Blank
<1>2. /\ Grows(tab') /\ \A id \in DOMAIN tab' : tab'[id].status = "pending" /\ tab'[id].input = ""
  BY FirstTabIs DEF NewOf
<1>3. TabInv'
  <2>1. file' # NoVal => Grows(ftab')
    BY FirstTabIs DEF NewOf
  <2>2. file' # NoVal => file'.status # "done"
    BY DEF NewOf
  <2>3. store'.status # "done"
    BY DEF NewOf
  <2>4. QED
    BY <1>2, <2>1, <2>2, <2>3 DEF TabInv
<1>4. Synced'
  <2>1. saveFails' = 0 => file' # NoVal /\ file'.status = store'.status /\ ftab' = tab'
    BY DEF NewOf
  <2>2. QED
    BY <2>1 DEF Synced
<1>5. CountInv'
  <2>1. /\ {gen', resumes', crashes'} \subseteq Nat /\ resumes' <= MaxResumes /\ crashes' <= MaxCrashes
        /\ gen' <= 1 + resumes' + crashes' /\ trunk' \subseteq Tasks /\ rawRuns' \subseteq StageIds
    BY <1>1 DEF Inv, CountInv, NewOf
  <2>2. isDemo' \in BOOLEAN /\ (isDemo' => TRUE \in Demos)
    BY DEF NewOf
  <2>3. /\ store' # NoVal /\ store'.status \in {"queued", "running"}
        /\ file' = NoVal => gen' = 0
    BY DEF NewOf
  <2>4. QED
    BY <2>1, <2>2, <2>3 DEF CountInv
<1>6. RunInv'
  BY <1>2 DEF RunInv
<1>7. PromptInv'
  <2>1. crashes' = 0 => rawRuns' = {}
    BY DEF NewOf, Inv, PromptInv
  <2>2. NoFailed'
    BY <1>2 DEF NoFailed
  <2>3. \A id \in DOMAIN tab' : tab'[id].input # "task"
    BY <1>2
  <2>4. isDemo' => NoFailed' /\ \A u \in DOMAIN thr' : thr'[u].role \in {"demo", "demoworker"}
    BY <2>2
  <2>5. QED
    BY <2>1, <2>3, <2>4 DEF PromptInv
<1>8. TrunkInv'
  BY <1>1 DEF NewOf, TrunkInv
<1>9. QED
  BY <1>3, <1>4, <1>5, <1>6, <1>7, <1>8 DEF MemPart, NewOf

\* Submit keeps the invariant, whether its save fails or not.
LEMMA SubmitKeeps ==
  ASSUME Inv, Submit
  PROVE  Inv'
<1>1. store = NoVal /\ isDemo' = FALSE /\ UNCHANGED <<trunk, rawRuns, resumes, crashes>>
  BY DEF Submit
<1>2. /\ file = NoVal /\ gen = 0 /\ Empty /\ saveFails \in Nat /\ MemInv
  BY <1>1, Blank
<1>3. PICK ok \in SaveResults :
       /\ heap' = [a \in {1} |-> FirstStages]
       /\ store' = [status |-> "queued", arr |-> 1, len |-> 2]
       /\ file' = IF ok THEN [status |-> "queued", stages |-> FirstStages] ELSE file
       /\ saveFails' = saveFails + IF ok THEN 0 ELSE 1
       /\ IF ok THEN StartDriver(Goroutine("submit", "driver", Research, StagePrompt))
          ELSE UNCHANGED <<thr, gen>>
  BY DEF Submit
<1>4. ok \in BOOLEAN
  BY SaveIsBoolean
<1>5. PICK st \in {"queued", "running"} : st = "queued"
  OBVIOUS
<1>6. /\ store' = [status |-> st, arr |-> 1, len |-> 2]
      /\ ok => file' = [status |-> st, stages |-> FirstStages]
      /\ ~ok => file' = NoVal
      /\ ok => saveFails' = saveFails
      /\ ~ok => saveFails' = saveFails + 1
  <2>1. CASE ok
    <3>1. file' = [status |-> "queued", stages |-> FirstStages]
      BY <1>3, <2>1
    <3>2. saveFails' = saveFails
      <4>1. saveFails' = saveFails + 0
        BY <1>3, <2>1, Zenon
      <4>2. QED
        BY <1>2, <4>1
    <3>3. store' = [status |-> "queued", arr |-> 1, len |-> 2]
      BY <1>3
    <3>4. QED
      BY <1>5, <2>1, <3>1, <3>2, <3>3
  <2>2. CASE ~ok
    BY <1>2, <1>3, <1>5, <2>2
  <2>3. QED
    BY <2>1, <2>2
<1>7. file' # NoVal => file'.status = st
  BY <1>4, <1>6
<1>8. ok => file' # NoVal
  BY <1>6, FirstSlice, NoValAssumption
<1>9. NewOf(st) /\ store'.status = "queued" /\ tab' = FirstTab
  <2>1. saveFails' \in Nat
    BY <1>2, <1>4, <1>6
  <2>2. /\ MemInv' /\ store' # NoVal /\ store'.status = st /\ tab' = FirstTab
        /\ file' # NoVal => ftab' = FirstTab
    <3>1. heap' = [a \in {1} |-> FirstStages]
      BY <1>3
    <3>2. \/ file' = file
          \/ \E x \in {"queued", "running"} : file' = [status |-> x, stages |-> FirstStages]
      BY <1>2, <1>4, <1>6
    <3>3. QED
      BY <1>1, <1>2, <1>6, <2>1, <3>1, <3>2, SubmitEffect
  <2>3. saveFails' = 0 => ok /\ saveFails = 0
    BY <1>2, <1>4, <1>6
  <2>4. saveFails' = 0 => saveFails = 0 /\ file' # NoVal /\ file'.status = store'.status
    BY <1>7, <1>8, <2>2, <2>3
  <2>5. isDemo' \in BOOLEAN /\ (isDemo' => TRUE \in Demos)
    BY <1>1
  <2>6. QED
    BY <1>1, <1>5, <1>7, <2>2, <2>4, <2>5 DEF NewOf
<1>10. CASE ok
  <2>1. PICK g : g = Goroutine("submit", "driver", Research, StagePrompt)
    OBVIOUS
  <2>2. g \in Thread
    BY <2>1, Kinds, GoroutineType DEF PCs, DriverPCs
  <2>3. FreshDriver(g)' /\ gen' = 1
    <3>1. StartDriver(g)
      BY <1>3, <1>10, <2>1, Zenon
    <3>2. QED
      BY <1>2, <2>2, <3>1, StartIs DEF Empty
  <2>4. Local(D)' /\ g.base = NoVal /\ g.pc \notin HasSession /\ g.prompt # "task"
    BY <2>1, <2>3, FinderLocal
  <2> HIDE <2>1
  <2>5. MemPart'
    <3>1. (\A u \in DOMAIN thr' : thr'[u].prompt # "task") /\ ~isDemo'
      BY <1>1, <2>3, <2>4 DEF FreshDriver
    <3>2. QED
      BY <1>1, <1>8, <1>9, <1>10, <2>3, <3>1, NewPart
  <2>6. QED
    BY <1>8, <1>9, <1>10, <2>3, <2>4, <2>5, FreshKeeps DEF NewOf
<1>11. CASE ~ok
  <2>1. Empty' /\ gen' = 0
    BY <1>2, <1>3, <1>11 DEF Empty
  <2>2. saveFails' # 0
    BY <1>2, <1>6, <1>11
  <2>3. MemPart'
    BY <1>1, <1>9, <2>1, NewPart DEF Empty
  <2>4. QED
    BY <2>1, <2>2, <2>3, EmptyKeeps
<1>12. QED
  BY <1>4, <1>10, <1>11

\* SubmitRuns keeps the invariant: the driver sets out, or the workflow is left
\* as running in memory when its save fails.
LEMMA SubmitRunsKeeps ==
  ASSUME Inv, NEW t \in DOMAIN thr, SubmitRuns(t)
  PROVE  Inv' /\ TabKept
<1>1. /\ thr[t].pc = "submit" /\ UNCHANGED <<trunk, rawRuns, counts>> /\ UNCHANGED counts
      /\ ThrInv /\ MemInv /\ HeldInv /\ store # NoVal /\ file # NoVal
  BY DEF SubmitRuns, Inv, ThrInv
<1>2. t = D /\ thr[t].role = "driver" /\ thr[t].stage = Research /\ Driver(t)
  BY <1>1 DEF Inv, LocalInv, Local, Driver, DemoDriver, ResumeDriver, Worker, WorkerPCs, Busy,
              Resumed, DemoWorker
<1>3. DOMAIN thr = {D}
  BY <1>1, <1>2, Alone
<1>4. PICK ok \in SaveResults : /\ Upsert(heap, [store EXCEPT !.status = "running"], ok)
                                /\ thr' = IF ok THEN Moved(t, "find") ELSE Ended(t)
  BY DEF SubmitRuns
<1>5. ok \in BOOLEAN /\ "running" \in Statuses
  BY SaveIsBoolean DEF Statuses
<1>6. /\ MemInv' /\ store' # NoVal /\ store'.status = "running" /\ tab' = tab /\ Saved(ok)
  BY <1>1, <1>4, <1>5, StatusEffect
<1>7. \A id : ~Owns(t, id) /\ ~WaitsFor(t, id)
  BY <1>1, <1>2 DEF Owns, WaitsFor, Busy
<1>8. TabKept
  BY <1>6 DEF TabKept
<1>9. /\ crashes = 0 /\ saveFails = 0 => \A id \in DOMAIN tab : tab[id].status # "running"
      /\ crashes = 0 => /\ rawRuns = {} /\ ~isDemo
                        /\ \A id \in DOMAIN tab : tab[id].input # "task"
  <2>1. crashes = 0 /\ saveFails = 0 => \A id \in DOMAIN tab : tab[id].status # "running"
    BY <1>2, <1>3, <1>7 DEF Inv, RunInv
  <2>2. \A id : ~Awaited(id)
    BY <1>1, <1>2, <1>3, <1>7 DEF Awaited
  <2>3. crashes = 0 => rawRuns = {} /\ ~isDemo
    BY <1>2 DEF Inv, PromptInv
  <2>4. QED
    BY <2>1, <2>2, <2>3 DEF Inv, PromptInv
<1>10. CASE ok
  <2>1. Goes(t, "find", Research, NoVal, thr[t].err)
    <3>1. "find" \in PCs
      BY DEF PCs, DriverPCs
    <3>2. QED
      BY <1>1, <1>2, <1>4, <1>10, <3>1, MovedGoes
  <2>2. /\ thr'[t].pc = "find" /\ thr'[t].stage = Research /\ thr'[t].role = thr[t].role
        /\ thr'[t].prompt = thr[t].prompt /\ thr'[t].good = thr[t].good
        /\ D' = D /\ DOMAIN thr' = DOMAIN thr
    BY <1>1, <2>1, GoesFields
  <2>3. \A b : Verified(b) => Verified(b)'
    BY <1>6, AlikeIs DEF Alike
  <2>4. Driver(t)'
    BY <1>2, <2>2, <2>3 DEF Driver, DriverPCs, Busy, First
  <2>5. Local(t)'
    BY <1>2, <2>2, <2>4 DEF Local
  <2>6. Stays(t) /\ NoEntry(t) /\ thr'[t].base = NoVal
    BY <1>1, <2>1, <2>5, GoesStays DEF HasSession
  <2>7. HeldInv'
    BY <1>2, <1>3, <2>2, <2>6 DEF HeldInv
  <2>8. TabStep(t, {})
    BY <1>2, <1>6 DEF TabStep
  <2>9. RunStep(t, {})
    BY <1>6, <1>7 DEF RunStep
  <2>10. PromptStep(t, {})
    BY <1>1, <1>2, <1>6, <1>9 DEF PromptStep
  <2>11. MemStep(t)
    BY <1>5, <1>6, <2>6 DEF MemStep
  <2>12. StepShape(t, {})
    <3>1. trunk' = trunk /\ rawRuns' = rawRuns /\ trunk \subseteq Tasks /\ rawRuns \subseteq StageIds
      BY <1>1 DEF Inv, CountInv
    <3>2. QED
      BY <1>1, <1>3, <1>6, <2>6, <2>7, <2>8, <2>9, <2>10, <2>11, <3>1 DEF StepShape
  <2>13. QED
    BY <1>8, <2>12, StepKeeps
<1>11. CASE ~ok
  <2>1. Empty'
    BY <1>2, <1>3, <1>4, <1>11 DEF Empty, Ended
  <2>2. saveFails' # 0 /\ file' = file
    BY <1>1, <1>6, <1>11 DEF Saved, MemInv
  <2>3. UNCHANGED <<gen, isDemo, resumes, crashes>> /\ UNCHANGED <<resumes, isDemo>>
    BY <1>1 DEF counts
  <2>4. TabInv' /\ Synced'
    <3>1. Grows(tab')
      BY <1>1, <1>6 DEF Inv, TabInv
    <3>2. QED
      BY <1>5, <1>6, <2>3, <3>1, SavedKeeps DEF Inv
  <2>5. RunInv' /\ TrunkInv'
    BY <2>2 DEF RunInv, TrunkInv
  <2>6. CountInv'
    <3>1. isDemo' = isDemo /\ isDemo \in BOOLEAN /\ (isDemo => TRUE \in Demos)
      BY <2>3 DEF Inv, CountInv
    <3>2. /\ {gen', resumes', crashes'} \subseteq Nat /\ resumes' <= MaxResumes /\ crashes' <= MaxCrashes
          /\ gen' <= 1 + resumes' + crashes' /\ trunk' \subseteq Tasks /\ rawRuns' \subseteq StageIds
      BY <1>1, <2>3 DEF Inv, CountInv
    <3>3. QED
      BY <1>1, <1>6, <2>2, <3>1, <3>2 DEF CountInv
  <2>7. PromptInv'
    BY <1>1, <1>6, <1>9, <2>1, <2>3 DEF PromptInv, Empty
  <2>8. MemPart'
    BY <1>6, <2>4, <2>5, <2>6, <2>7 DEF MemPart
  <2>9. QED
    BY <1>8, <2>1, <2>2, <2>8, EmptyKeeps
<1>12. QED
  BY <1>5, <1>10, <1>11

\* InjectDemoWorkflow keeps the invariant.
LEMMA InjectKeeps ==
  ASSUME Inv, InjectDemoWorkflow
  PROVE  Inv'
<1>1. store = NoVal /\ isDemo' = TRUE /\ TRUE \in Demos /\ UNCHANGED <<trunk, rawRuns, resumes, crashes>>
  BY DEF InjectDemoWorkflow
<1>2. /\ file = NoVal /\ gen = 0 /\ Empty /\ saveFails \in Nat /\ MemInv
  BY <1>1, Blank
<1>3. PICK ok \in SaveResults :
       /\ heap' = [a \in {1} |-> FirstStages]
       /\ store' = [status |-> "queued", arr |-> 1, len |-> 2]
       /\ file' = IF ok THEN [status |-> "queued", stages |-> FirstStages] ELSE file
       /\ saveFails' = saveFails + IF ok THEN 0 ELSE 1
       /\ IF ok THEN StartDriver(Goroutine("demostart", "demo", Research, ""))
          ELSE UNCHANGED <<thr, gen>>
  BY DEF InjectDemoWorkflow
<1>4. ok \in BOOLEAN
  BY SaveIsBoolean
<1>5. PICK st \in {"queued", "running"} : st = "queued"
  OBVIOUS
<1>6. /\ store' = [status |-> st, arr |-> 1, len |-> 2]
      /\ ok => file' = [status |-> st, stages |-> FirstStages]
      /\ ~ok => file' = NoVal
      /\ ok => saveFails' = saveFails
      /\ ~ok => saveFails' = saveFails + 1
  <2>1. CASE ok
    <3>1. file' = [status |-> "queued", stages |-> FirstStages]
      BY <1>3, <2>1
    <3>2. saveFails' = saveFails
      <4>1. saveFails' = saveFails + 0
        BY <1>3, <2>1, Zenon
      <4>2. QED
        BY <1>2, <4>1
    <3>3. store' = [status |-> "queued", arr |-> 1, len |-> 2]
      BY <1>3
    <3>4. QED
      BY <1>5, <2>1, <3>1, <3>2, <3>3
  <2>2. CASE ~ok
    BY <1>2, <1>3, <1>5, <2>2
  <2>3. QED
    BY <2>1, <2>2
<1>7. file' # NoVal => file'.status = st
  BY <1>4, <1>6
<1>8. ok => file' # NoVal
  BY <1>6, FirstSlice, NoValAssumption
<1>9. NewOf(st) /\ store'.status = "queued" /\ tab' = FirstTab
  <2>1. saveFails' \in Nat
    BY <1>2, <1>4, <1>6
  <2>2. /\ MemInv' /\ store' # NoVal /\ store'.status = st /\ tab' = FirstTab
        /\ file' # NoVal => ftab' = FirstTab
    <3>1. heap' = [a \in {1} |-> FirstStages]
      BY <1>3
    <3>2. \/ file' = file
          \/ \E x \in {"queued", "running"} : file' = [status |-> x, stages |-> FirstStages]
      BY <1>2, <1>4, <1>6
    <3>3. QED
      BY <1>1, <1>2, <1>6, <2>1, <3>1, <3>2, SubmitEffect
  <2>3. saveFails' = 0 => ok /\ saveFails = 0
    BY <1>2, <1>4, <1>6
  <2>4. saveFails' = 0 => saveFails = 0 /\ file' # NoVal /\ file'.status = store'.status
    BY <1>7, <1>8, <2>2, <2>3
  <2>5. isDemo' \in BOOLEAN /\ (isDemo' => TRUE \in Demos)
    BY <1>1
  <2>6. QED
    BY <1>1, <1>5, <1>7, <2>2, <2>4, <2>5 DEF NewOf
<1>10. CASE ok
  <2>1. PICK g : g = Goroutine("demostart", "demo", Research, "")
    OBVIOUS
  <2>2. g \in Thread
    BY <2>1, Kinds, GoroutineType DEF PCs
  <2>3. FreshDriver(g)' /\ gen' = 1
    <3>1. StartDriver(g)
      BY <1>3, <1>10, <2>1, Zenon
    <3>2. QED
      BY <1>2, <2>2, <3>1, StartIs DEF Empty
  <2>4. /\ g.pc = "demostart" /\ g.role = "demo" /\ g.stage = Research /\ g.prompt # "task" /\ g.base = NoVal
    BY <2>1 DEF Goroutine
  <2> HIDE <2>1
  <2>5. thr'[D'] = g
    BY <2>3 DEF FreshDriver
  <2>6. Is(Research, "pending")' /\ Is(Plan, "pending")' /\ DOMAIN tab' = First
    BY <1>9, FirstTabIs DEF Is, First
  <2>7. DemoDriver(D)'
    <3>1. TwoOnly(D)'
      BY <2>4, <2>5, <2>6, Kinds DEF TwoOnly
    <3>2. isDemo'
      BY <1>1
    <3>3. QED
      BY <2>4, <2>5, <2>6, <3>1, <3>2 DEF DemoDriver, First
  <2>8. Local(D)'
    BY <2>4, <2>5, <2>7 DEF Local
  <2>9. MemPart'
    <3>1. \A u \in DOMAIN thr' : thr'[u].prompt # "task" /\ thr'[u].role = "demo"
      BY <2>3, <2>4 DEF FreshDriver
    <3>2. QED
      BY <1>1, <1>8, <1>9, <1>10, <2>3, <3>1, NewPart
  <2>10. QED
    BY <1>8, <1>9, <1>10, <2>3, <2>4, <2>8, <2>9, FreshKeeps DEF NewOf, HasSession
<1>11. CASE ~ok
  <2>1. Empty' /\ gen' = 0
    BY <1>2, <1>3, <1>11 DEF Empty
  <2>2. saveFails' # 0
    BY <1>2, <1>6, <1>11
  <2>3. MemPart'
    BY <1>1, <1>9, <2>1, NewPart DEF Empty
  <2>4. QED
    BY <2>1, <2>2, <2>3, EmptyKeeps
<1>12. QED
  BY <1>4, <1>10, <1>11

\* Resume of a failed workflow keeps the invariant.
LEMMA ResumeKeeps ==
  ASSUME Inv, earlyResumes = 0, earlyResumes' = 0, Resume
  PROVE  Inv' /\ TabKept
<1>1. /\ store # NoVal /\ store.status \notin {"queued", "running"} /\ resumes < MaxResumes
      /\ resumes' = resumes + 1
      /\ UNCHANGED <<trunk, rawRuns, isDemo, crashes>> /\ MemInv /\ HeldInv
  <2>1. /\ store # NoVal /\ resumes < MaxResumes /\ resumes' = resumes + 1
        /\ UNCHANGED <<trunk, rawRuns, isDemo, crashes>> /\ MemInv /\ HeldInv
        /\ earlyResumes' = earlyResumes + IF Unended THEN 1 ELSE 0
    BY DEF Resume, Inv
  <2>2. ~Unended
    BY <2>1
  <2>3. QED
    BY <2>1, <2>2 DEF Unended
<1>2. Empty /\ file # NoVal
  BY <1>1 DEF Inv, ThrInv, CountInv, Empty
<1>3. /\ MemInv' /\ store' # NoVal /\ store'.status = "running"
      /\ tab' = [id \in DOMAIN tab |-> ResetOne(tab[id])]
      /\ \E id \in DOMAIN tab : Resumable(tab[id])
      /\ \E ok \in SaveResults :
           /\ Saved(ok)
           /\ IF ok THEN StartDriver(Goroutine("resumefan", "resume", Merge, ""))
              ELSE UNCHANGED <<thr, gen>>
  BY <1>1, ResumeEffect
<1>4. PICK ok \in SaveResults :
           /\ Saved(ok)
           /\ IF ok THEN StartDriver(Goroutine("resumefan", "resume", Merge, ""))
              ELSE UNCHANGED <<thr, gen>>
  BY <1>3
<1>5. ok \in BOOLEAN /\ saveFails \in Nat
  BY <1>1, SaveIsBoolean DEF MemInv
<1>6. /\ DOMAIN tab' = DOMAIN tab
      /\ \A id \in DOMAIN tab :
           /\ tab'[id].input = tab[id].input /\ tab'[id].output = tab[id].output
           /\ tab[id].status = "done" => tab'[id].status = "done"
           /\ tab'[id].status = "running" => tab[id].status = "running"
  <2>1. \A id \in DOMAIN tab : tab[id] \in Stage
    BY <1>1, TabFacts
  <2>2. DOMAIN tab' = DOMAIN tab /\ \A id \in DOMAIN tab : tab'[id] = ResetOne(tab[id])
    BY <1>3
  <2>3. QED
    BY <2>1, <2>2 DEF ResetOne, Resumable, Stage
<1>7. ~NoFailed
  BY <1>3 DEF NoFailed, Resumable
<1>8. /\ file' # NoVal /\ (ok => file'.status = "running" /\ ftab' = tab' /\ saveFails' = saveFails)
      /\ (~ok => file' = file /\ ftab' = ftab /\ saveFails' = saveFails + 1)
  BY <1>2, <1>3, <1>4, <1>5 DEF Saved
<1>9. Grows(tab) /\ Grows(ftab)
  BY <1>1, <1>2 DEF Inv, TabInv
<1>10. Grows(tab')
  BY <1>6, <1>9 DEF Grows, First
<1>11. TabInv'
  <2>1. resumes' # 0
    BY <1>1 DEF Inv, CountInv
  <2>2. Grows(ftab')
    BY <1>5, <1>8, <1>9, <1>10
  <2>3. QED
    BY <1>3, <1>10, <2>1, <2>2 DEF TabInv
<1>12. Synced' /\ (saveFails' = 0 => ok /\ saveFails = 0)
  <2>1. saveFails' = 0 => ok /\ saveFails = 0
    BY <1>5, <1>8
  <2>2. QED
    BY <1>3, <1>8, <2>1 DEF Synced
<1>13. RunInv'
  <2>1. crashes = 0 /\ saveFails = 0 => \A id \in DOMAIN tab : tab[id].status # "running"
    BY <1>2 DEF Inv, RunInv, Empty
  <2>2. QED
    BY <1>1, <1>6, <1>12, <2>1 DEF RunInv
<1>14. TrunkInv'
  <2>1. \A b : Verified(b) => Verified(b)'
    BY <1>6 DEF Verified, Is
  <2>2. QED
    BY <1>1, <1>12, <2>1 DEF Inv, TrunkInv
<1>15. crashes = 0 => ~isDemo /\ \A id \in DOMAIN tab' : tab'[id].input # "task"
  <2>1. \A id : ~Awaited(id)
    BY <1>2, <1>7 DEF Awaited, Empty
  <2>2. crashes = 0 => ~isDemo
    BY <1>7 DEF Inv, PromptInv
  <2>3. QED
    BY <1>6, <2>1, <2>2 DEF Inv, PromptInv
<1>16. ASSUME \A u \in DOMAIN thr' : thr'[u].prompt # "task"
       PROVE  PromptInv'
  <2>1. crashes' = 0 => rawRuns' = {} /\ ~isDemo'
    BY <1>1, <1>15 DEF Inv, PromptInv
  <2>2. crashes' = 0 => \A id \in DOMAIN tab' : tab'[id].input # "task"
    BY <1>1, <1>15
  <2>3. QED
    BY <1>16, <2>1, <2>2 DEF PromptInv
<1>17. ASSUME gen' \in {gen, gen + 1}
       PROVE  CountInv'
  <2>1. isDemo' \in BOOLEAN /\ (isDemo' => TRUE \in Demos)
    BY <1>1 DEF Inv, CountInv
  <2>2. /\ {gen', resumes', crashes'} \subseteq Nat /\ resumes' <= MaxResumes /\ crashes' <= MaxCrashes
        /\ gen' <= 1 + resumes' + crashes' /\ trunk' \subseteq Tasks /\ rawRuns' \subseteq StageIds
    BY SMTT(40), <1>1, <1>17, EngineAssumption DEF Inv, CountInv
  <2>3. QED
    BY <1>3, <1>8, <2>1, <2>2 DEF CountInv
<1>18. TabKept
  BY <1>6 DEF TabKept
<1>19. CASE ok
  <2>1. PICK g : g = Goroutine("resumefan", "resume", Merge, "")
    OBVIOUS
  <2>2. g \in Thread
    BY <2>1, Kinds, GoroutineType DEF PCs
  <2>3. FreshDriver(g)' /\ gen' = gen + 1
    <3>1. gen \in Nat
      BY DEF Inv, CountInv
    <3>2. QED
      BY <1>2, <1>4, <1>19, <2>1, <2>2, <3>1, StartIs DEF Empty
  <2>4. /\ g.pc = "resumefan" /\ g.role = "resume" /\ g.stage = Merge /\ g.prompt # "task" /\ g.base = NoVal
    BY <2>1 DEF Goroutine
  <2> HIDE <2>1
  <2>5. thr'[D'] = g
    BY <2>3 DEF FreshDriver
  <2>6. ResumeDriver(D)'
    BY <1>1, <2>4, <2>5 DEF ResumeDriver, Inv, CountInv
  <2>7. Local(D)'
    BY <2>4, <2>5, <2>6 DEF Local
  <2>8. \A u \in DOMAIN thr' : thr'[u].prompt # "task"
    BY <2>3, <2>4 DEF FreshDriver
  <2>9. MemPart'
    BY <1>3, <1>11, <1>12, <1>13, <1>14, <1>16, <1>17, <2>3, <2>8 DEF MemPart
  <2>10. QED
    BY <1>3, <1>8, <1>18, <2>3, <2>4, <2>7, <2>9, FreshKeeps DEF HasSession
<1>20. CASE ~ok
  <2>1. Empty' /\ gen' = gen
    BY <1>2, <1>4, <1>20 DEF Empty
  <2>2. saveFails' # 0
    BY <1>5, <1>8, <1>20
  <2>3. \A u \in DOMAIN thr' : thr'[u].prompt # "task"
    BY <2>1 DEF Empty
  <2>4. MemPart'
    BY <1>3, <1>11, <1>12, <1>13, <1>14, <1>16, <1>17, <2>1, <2>3 DEF MemPart
  <2>5. QED
    BY <1>18, <2>1, <2>2, <2>4, EmptyKeeps
<1>21. QED
  BY <1>5, <1>19, <1>20

\* A restart keeps the invariant: what was saved is a workflow to go on with.
LEMMA RestartKeeps ==
  ASSUME Inv, Restart
  PROVE  Inv' /\ crashes' # crashes
<1>1. /\ store # NoVal /\ crashes < MaxCrashes /\ crashes' = crashes + 1 /\ Opened /\ MemInv
      /\ UNCHANGED <<file, saveFails>> /\ UNCHANGED <<trunk, rawRuns, isDemo, resumes>>
      /\ crashes \in Nat /\ gen \in Nat /\ resumes \in Nat
  BY DEF Restart, Inv, CountInv
<1>2. /\ MemInv' /\ ftab' = ftab /\ (store' = NoVal <=> file = NoVal)
      /\ file # NoVal => store'.status = file.status /\ tab' = ftab
  BY <1>1, OpenEffect
<1>3. crashes' # 0 /\ crashes' # crashes /\ file' = file
  BY <1>1
<1>4. TabInv'
  <2>1. file # NoVal => Grows(ftab) /\ (file.status = "done" /\ resumes = 0 /\ ~isDemo => Complete(ftab))
    BY DEF Inv, TabInv
  <2>2. file # NoVal => Grows(tab') /\ (store'.status = "done" /\ resumes' = 0 /\ ~isDemo' => Complete(tab'))
    BY <1>1, <1>2, <2>1
  <2>3. file # NoVal => Grows(ftab') /\ (file'.status = "done" /\ resumes' = 0 /\ ~isDemo' => Complete(ftab'))
    BY <1>1, <1>2, <2>1
  <2>4. QED
    BY <1>2, <1>3, <2>2, <2>3 DEF TabInv
<1>5. Synced'
  BY <1>2, <1>3 DEF Synced
<1>6. RunInv' /\ PromptInv'
  BY <1>3 DEF RunInv, PromptInv
<1>7. TrunkInv'
  <2>1. saveFails' = 0 => file # NoVal /\ tab' = tab
    BY <1>1, <1>2 DEF Inv, Synced
  <2>2. saveFails' = 0 => \A b : Verified(b) => Verified(b)'
    BY <2>1, AlikeIs DEF Alike
  <2>3. QED
    BY <1>1, <2>2 DEF Inv, TrunkInv
<1>8. ASSUME gen' = gen \/ (gen' = gen + 1 /\ file # NoVal)
      PROVE  CountInv'
  <2>1. isDemo' \in BOOLEAN /\ (isDemo' => TRUE \in Demos)
    BY <1>1 DEF Inv, CountInv
  <2>2. /\ {gen', resumes', crashes'} \subseteq Nat /\ resumes' <= MaxResumes /\ crashes' <= MaxCrashes
        /\ gen' <= 1 + resumes' + crashes' /\ trunk' \subseteq Tasks /\ rawRuns' \subseteq StageIds
    BY <1>1, <1>8, EngineAssumption DEF Inv, CountInv
  <2>3. file' = NoVal => gen' = 0 /\ store' = NoVal
    BY <1>2, <1>3, <1>8 DEF Inv, CountInv
  <2>4. store' = NoVal => gen' = 0 /\ file' = NoVal
    BY <1>2, <1>3, <2>3
  <2>5. QED
    BY <2>1, <2>2, <2>3, <2>4 DEF CountInv
<1>9. CASE file # NoVal /\ file.status \in {"queued", "running"}
  <2>1. PICK g : g = Goroutine("find", "driver", Research, StagePrompt)
    OBVIOUS
  <2>2. g \in Thread
    BY <2>1, Kinds, GoroutineType DEF PCs, DriverPCs
  <2>3. gen' = gen + 1 /\ thr' = [t \in {<<gen + 1, Main>>} |-> g]
    BY <1>9, <2>1 DEF Restart
  <2>4. FreshDriver(g)'
    <3>1. D' = <<gen + 1, Main>>
      BY <2>3 DEF D
    <3>2. QED
      BY <1>1, <2>2, <2>3, <3>1 DEF FreshDriver
  <2>5. Local(D)' /\ g.base = NoVal /\ g.pc \notin HasSession
    BY <2>1, <2>4, FinderLocal
  <2> HIDE <2>1
  <2>6. CountInv'
    BY <1>8, <1>9, <2>3
  <2>7. MemPart'
    BY <1>2, <1>4, <1>5, <1>6, <1>7, <2>6 DEF MemPart
  <2>8. QED
    BY <1>2, <1>3, <1>9, <2>4, <2>5, <2>7, FreshKeeps
<1>10. CASE ~(file # NoVal /\ file.status \in {"queued", "running"})
  <2>1. gen' = gen /\ thr' = <<>>
    BY <1>10 DEF Restart
  <2>2. Empty'
    BY <2>1 DEF Empty
  <2>3. CountInv'
    BY <1>8, <2>1
  <2>4. MemPart'
    BY <1>2, <1>4, <1>5, <1>6, <1>7, <2>3 DEF MemPart
  <2>5. QED
    BY <1>2, <1>3, <1>10, <2>2, <2>4, EmptyKeeps
<1>11. QED
  BY <1>9, <1>10

\* The invariant holds initially.
LEMMA InitInv ==
  ASSUME Init
  PROVE  Inv
<1>1. /\ heap = <<>> /\ store = NoVal /\ file = NoVal /\ thr = <<>> /\ gen = 0 /\ trunk = {} /\ rawRuns = {}
      /\ isDemo = FALSE /\ resumes = 0 /\ crashes = 0 /\ saveFails = 0
  BY DEF Init
<1>2. DOMAIN thr = {} /\ thr \in [DOMAIN thr -> Thread]
  BY <1>1
<1>3. tab = <<>> /\ DOMAIN tab = {}
  BY <1>1 DEF tab
<1>4. MemInv
  BY <1>1 DEF MemInv
<1>5. TabInv /\ Synced
  BY <1>1 DEF TabInv, Synced
<1>6. ThrInv
  BY <1>1, <1>2 DEF ThrInv
<1>7. CountInv
  <2>1. isDemo \in BOOLEAN /\ ~isDemo
    BY <1>1
  <2>2. {gen, resumes, crashes} \subseteq Nat /\ resumes <= MaxResumes /\ crashes <= MaxCrashes
    BY <1>1, EngineAssumption
  <2>3. gen <= 1 + resumes + crashes
    BY <1>1
  <2>4. QED
    BY <1>1, <2>1, <2>2, <2>3 DEF CountInv
<1>8. HeldInv /\ LocalInv /\ PersistInv
  BY <1>2 DEF HeldInv, LocalInv, PersistInv
<1>9. RunInv /\ PromptInv /\ TrunkInv
  BY <1>1, <1>2, <1>3 DEF RunInv, PromptInv, TrunkInv
<1>10. QED
  BY <1>4, <1>5, <1>6, <1>7, <1>8, <1>9 DEF Inv

\* A step of that shape drops no stage.
LEMMA ShapeKept ==
  ASSUME Inv, NEW t \in DOMAIN thr, NEW S, StepShape(t, S)
  PROVE  TabKept
BY DEF StepShape, TabStep, TabKept

\* The steps of a goroutine that change the table at one place, or not at all.
LEMMA OneKeeps ==
  ASSUME Inv, NobodyOvertaken', NEW t \in DOMAIN thr,
         \/ StageStart(t) \/ StageTimeout(t) \/ StageRecordSession(t) \/ StageDone(t)
         \/ markStageFailed(t) \/ FindStage(t) \/ ReloadOutput(t)
         \/ AddImplementStages(t) \/ AcquireWorker(t)
         \/ WorkerValidates(t) \/ WorkerAddsVerify(t) \/ WorkerNotesVerifySession(t)
         \/ WorkerJudges(t) \/ Join(t) \/ AddMergeStage(t) \/ MergeBranches(t)
         \/ DemoStart(t) \/ DemoDone(t) \/ SessionAnswers(t)
  PROVE  Inv' /\ TabKept
<1>1. \E S : StepShape(t, S)
  <2>1. CASE StageStart(t)
    BY <2>1, StartShape
  <2>2. CASE StageTimeout(t)
    BY <2>2, TimeoutShape
  <2>3. CASE StageRecordSession(t)
    BY <2>3, RecordShape
  <2>4. CASE StageDone(t)
    BY <2>4, DoneShape
  <2>5. CASE markStageFailed(t)
    BY <2>5, FailedShape
  <2>6. CASE FindStage(t)
    BY <2>6, FindShape
  <2>7. CASE ReloadOutput(t)
    BY <2>7, ReloadShape
  <2>8. CASE AddImplementStages(t)
    BY <2>8, AddTasksShape
  <2>9. CASE AcquireWorker(t)
    BY <2>9, AcquireShape
  <2>10. CASE WorkerValidates(t)
    BY <2>10, ValidateShape
  <2>11. CASE WorkerAddsVerify(t)
    BY <2>11, AddVerifyShape
  <2>12. CASE WorkerNotesVerifySession(t)
    BY <2>12, NoteShape
  <2>13. CASE WorkerJudges(t)
    BY <2>13, JudgeShape
  <2>14. CASE Join(t)
    BY <2>14, JoinShape
  <2>15. CASE AddMergeStage(t)
    BY <2>15, AddMergeShape
  <2>16. CASE MergeBranches(t)
    BY <2>16, MergeShape
  <2>17. CASE DemoStart(t)
    BY <2>17, DemoStartShape
  <2>18. CASE DemoDone(t)
    BY <2>18, DemoDoneShape
  <2>19. CASE SessionAnswers(t)
    BY <2>19, CreateShape, SessionEndsShape DEF SessionAnswers
  <2>20. QED
    BY <2>1, <2>2, <2>3, <2>4, <2>5, <2>6, <2>7, <2>8, <2>9, <2>10, <2>11, <2>12, <2>13,
       <2>14, <2>15, <2>16, <2>17, <2>18, <2>19
<1>2. PICK S : StepShape(t, S)
  BY <1>1
<1>3. QED
  BY <1>2, StepKeeps, ShapeKept

\* Without a write no stage is dropped.
LEMMA SameTab ==
  ASSUME UNCHANGED mem
  PROVE  TabKept
BY SameMem DEF TabKept

\* Every step of a goroutine keeps the invariant and the stages.
LEMMA ThreadKeeps ==
  ASSUME Inv, NobodyOvertaken', NEW t \in DOMAIN thr, Get(t) \/ Step(t) \/ SessionAnswers(t)
  PROVE  Inv' /\ TabKept
<1>1. CASE Get(t)
  <2>1. UNCHANGED mem
    BY <1>1 DEF Get, mem
  <2>2. QED
    BY <1>1, <2>1, GetKeeps, SameTab
<1>2. CASE FanOut(t)
  <2>1. UNCHANGED mem
    BY SMTT(40), <1>2 DEF FanOut, mem
  <2>2. QED
    BY <1>2, <2>1, FanOutKeeps, SameTab
<1>3. CASE ResumeFanOut(t)
  <2>1. UNCHANGED mem
    BY <1>3 DEF ResumeFanOut, mem
  <2>2. QED
    BY <1>3, <2>1, ResumeFanOutKeeps, SameTab
<1>4. CASE FinishWorkflow(t)
  BY <1>4, FinishKeeps
<1>5. CASE failWorkflow(t)
  BY <1>5, FailKeeps
<1>6. CASE DemoAddTasks(t)
  BY <1>6, DemoAddTasksKeeps
<1>7. CASE DemoFinish(t)
  BY <1>7, DemoFinishKeeps
<1>8. CASE SubmitRuns(t)
  BY <1>8, SubmitRunsKeeps
<1>9. QED
  BY <1>1, <1>2, <1>3, <1>4, <1>5, <1>6, <1>7, <1>8, OneKeeps DEF Step

\* Every step keeps the invariant, and all but a restart the stages.
LEMMA NextKeeps ==
  ASSUME Inv, NobodyOvertaken', earlyResumes = 0, earlyResumes' = 0, [Next]_vars
  PROVE  Inv' /\ (store # NoVal /\ crashes' = crashes => TabKept)
<1>1. CASE Submit
  BY <1>1, SubmitKeeps DEF Submit
<1>2. CASE InjectDemoWorkflow
  BY <1>2, InjectKeeps DEF InjectDemoWorkflow
<1>3. CASE Resume
  BY <1>3, ResumeKeeps
<1>4. CASE Restart
  BY <1>4, RestartKeeps
<1>5. CASE \E t \in DOMAIN thr : Get(t) \/ Step(t) \/ SessionAnswers(t)
  BY <1>5, ThreadKeeps
<1>6. CASE UNCHANGED vars
  <2>1. UNCHANGED mem
    BY <1>6 DEF vars, mem
  <2>2. QED
    BY <1>6, <2>1, StutterKeeps, SameTab
<1>7. QED
  BY <1>1, <1>2, <1>3, <1>4, <1>5, <1>6 DEF Next

----------------------------------------------------------------------------
(* The theorems *)

\* Early resumes are only ever counted.
LEMMA ResumeCounts ==
  ASSUME earlyResumes \in Nat, resumes \in Nat, [Next]_vars
  PROVE  \/ earlyResumes' = earlyResumes /\ resumes' = resumes
         \/ earlyResumes' \in {earlyResumes, earlyResumes + 1} /\ resumes' = resumes + 1
<1>1. CASE Submit \/ InjectDemoWorkflow \/ Restart \/ UNCHANGED vars
  BY <1>1 DEF Submit, InjectDemoWorkflow, Restart, vars
<1>2. CASE Resume
  <2>1. resumes' = resumes + 1 /\ earlyResumes' = earlyResumes + IF Unended THEN 1 ELSE 0
    BY <1>2 DEF Resume
  <2>2. QED
    BY <2>1
<1>3. ASSUME NEW t \in DOMAIN thr, Get(t) \/ Step(t) \/ SessionAnswers(t)
      PROVE  UNCHANGED counts
  <2>1. CASE Get(t)
    BY <2>1 DEF Get
  <2>2. CASE SessionAnswers(t)
    BY <2>2 DEF SessionAnswers, StageCreateSession, StageSessionEnds
  <2>3. CASE StageStart(t) \/ StageTimeout(t) \/ StageRecordSession(t) \/ StageDone(t) \/ markStageFailed(t)
    BY <2>3 DEF StageStart, StageTimeout, StageRecordSession, StageDone, markStageFailed
  <2>4. CASE SubmitRuns(t) \/ FindStage(t) \/ ReloadOutput(t) \/ AddImplementStages(t) \/ FanOut(t)
    BY <2>4 DEF SubmitRuns, FindStage, ReloadOutput, AddImplementStages, FanOut
  <2>5. CASE AcquireWorker(t) \/ WorkerValidates(t) \/ WorkerAddsVerify(t)
             \/ WorkerNotesVerifySession(t) \/ WorkerJudges(t)
    BY <2>5 DEF AcquireWorker, WorkerValidates, WorkerAddsVerify, WorkerNotesVerifySession, WorkerJudges
  <2>6. CASE Join(t) \/ AddMergeStage(t) \/ MergeBranches(t) \/ FinishWorkflow(t) \/ failWorkflow(t)
    BY <2>6 DEF Join, AddMergeStage, MergeBranches, FinishWorkflow, failWorkflow
  <2>7. CASE ResumeFanOut(t) \/ DemoStart(t) \/ DemoDone(t) \/ DemoAddTasks(t) \/ DemoFinish(t)
    BY <2>7 DEF ResumeFanOut, DemoStart, DemoDone, DemoAddTasks, DemoFinish
  <2>8. QED
    BY <1>3, <2>1, <2>2, <2>3, <2>4, <2>5, <2>6, <2>7 DEF Step
<1>4. QED
  BY <1>1, <1>2, <1>3 DEF Next, counts

\* The invariant until a Resume meets a workflow that has not ended.
InvUntil ==
  /\ earlyResumes \in Nat /\ resumes \in Nat /\ earlyResumes <= resumes
  /\ earlyResumes = 0 => Inv

\* The invariant of the workflow engine, in every behaviour in which nobody is
\* overtaken between a Get and its Upsert, until a Resume meets a workflow that
\* has not ended: whatever is submitted, resumed, restarted or fails to be
\* saved, each goroutine finds the stage it works on in the state in which it
\* left it, and the memory, the file and the goroutines agree as far as the
\* saves succeeded.
THEOREM EngineInvariant == Spec /\ []NobodyOvertaken => []InvUntil
<1>1. Init => InvUntil
  <2>1. Init => earlyResumes = 0 /\ resumes = 0
    BY DEF Init
  <2>2. QED
    BY <2>1, InitInv DEF InvUntil
<1>2. InvUntil /\ NobodyOvertaken' /\ [Next]_vars => InvUntil'
  <2> SUFFICES ASSUME InvUntil, NobodyOvertaken', [Next]_vars
               PROVE  InvUntil'
    OBVIOUS
  <2>1. /\ earlyResumes \in Nat /\ resumes \in Nat /\ earlyResumes <= resumes
        /\ earlyResumes = 0 => Inv
    BY DEF InvUntil
  <2>2. \/ earlyResumes' = earlyResumes /\ resumes' = resumes
        \/ earlyResumes' \in {earlyResumes, earlyResumes + 1} /\ resumes' = resumes + 1
    BY <2>1, ResumeCounts
  <2>3. /\ earlyResumes' \in Nat /\ resumes' \in Nat /\ earlyResumes' <= resumes'
        /\ earlyResumes' = 0 => earlyResumes = 0
    BY <2>1, <2>2
  <2>4. earlyResumes' = 0 => Inv'
    BY <2>1, <2>3, NextKeeps
  <2>5. QED
    BY <2>3, <2>4 DEF InvUntil
<1> QED
  BY <1>1, <1>2, PTL DEF Spec

\* The memory, the file and the goroutines are what Go's types say, under the
\* premises of EngineInvariant.
THEOREM EngineTypes == Spec /\ []NobodyOvertaken => [](earlyResumes = 0 => TypeOK)
<1>1. InvUntil => (earlyResumes = 0 => TypeOK)
  <2> SUFFICES ASSUME Inv, earlyResumes = 0 PROVE TypeOK
    BY DEF InvUntil
  <2>1. store = NoVal \/ (/\ store.status \in {"queued", "running", "done", "failed"}
                          /\ store.arr \in DOMAIN heap
                          /\ store.len \in 2..Len(heap[store.arr]))
    BY DEF Inv, MemInv, Header, Statuses, Slice
  <2>2. \A a \in DOMAIN heap : \A i \in DOMAIN heap[a] : heap[a][i] \in Stage \cup {NoVal}
    BY DEF Inv, MemInv, Slots
  <2>3. file # NoVal => \A i \in DOMAIN file.stages : file.stages[i] \in Stage
    BY DEF Inv, MemInv
  <2>4. DOMAIN thr \subseteq Threads
    <3>1. DOMAIN thr # {} => gen \in 1..(1 + MaxResumes + MaxCrashes)
      BY EngineAssumption DEF Inv, ThrInv, CountInv
    <3>2. QED
      BY <3>1 DEF Inv, ThrInv, Threads
  <2>5. trunk \subseteq Tasks /\ rawRuns \subseteq StageIds /\ {gen, resumes, crashes, saveFails, earlyResumes} \subseteq Nat
    BY DEF Inv, CountInv, MemInv
  <2>6. QED
    BY <2>1, <2>2, <2>3, <2>4, <2>5 DEF TypeOK
<1> QED
  BY <1>1, EngineInvariant, PTL

\* A queued or running workflow has exactly one driver, a finished one has no
\* goroutine at all, as long as every save succeeded, nobody is overtaken and
\* no Resume has met a workflow that had not ended: engine.go joins the workers
\* before it writes the last status.  Resume itself starts a driver beside
\* whatever there is, which is why OneDriver has to end there.
THEOREM OneDriverAtATime == Spec /\ []NobodyOvertaken => []OneDriver
<1>1. InvUntil => OneDriver
  <2> SUFFICES ASSUME Inv, saveFails = 0
               PROVE  IF store # NoVal /\ store.status \in {"queued", "running"}
                      THEN Cardinality(Drivers) = 1 ELSE thr = <<>>
    BY DEF OneDriver, InvUntil
  <2>1. CASE store # NoVal /\ store.status \in {"queued", "running"}
    <3>1. D \in DOMAIN thr /\ \A t \in DOMAIN thr : t[2] = Main => t = D
      BY <2>1 DEF Inv, ThrInv, D
    <3>2. Drivers = {D}
      BY <3>1 DEF Drivers, D
    <3>3. Cardinality({D}) = 1
      BY FS_Singleton
    <3>4. QED
      BY <2>1, <3>2, <3>3
  <2>2. CASE ~(store # NoVal /\ store.status \in {"queued", "running"})
    <3>1. DOMAIN thr = {} /\ thr \in [DOMAIN thr -> Thread]
      BY <2>2 DEF Inv, ThrInv
    <3>2. thr = <<>>
      BY <3>1
    <3>3. QED
      BY <2>2, <3>2
  <2>3. QED
    BY <2>1, <2>2
<1> QED
  BY <1>1, EngineInvariant, PTL

\* A stage that has a session is "running" in the file, so that a restart
\* starts no second session for it: runStage saves before it calls
\* CreateSession, and does not call it when the save failed.  Nobody is
\* overtaken, and no Resume has met a workflow that had not ended.
THEOREM SessionsArePersisted == Spec /\ []NobodyOvertaken => []StartedIsPersisted
<1>1. InvUntil => StartedIsPersisted
  <2> SUFFICES ASSUME Inv, NEW t \in DOMAIN thr, thr[t].pc \in {"record", "wait"}
               PROVE  \E i \in DOMAIN file.stages :
                        file.stages[i].id = thr[t].stage /\ file.stages[i].status = "running"
    BY DEF StartedIsPersisted, InvUntil
  <2>1. thr[t].stage \in DOMAIN ftab /\ ftab[thr[t].stage].status = "running"
    BY DEF Inv, PersistInv
  <2>2. file # NoVal /\ Slice(file.stages, Len(file.stages)) /\ file.stages \in Seq(Stage)
    BY DEF Inv, ThrInv, MemInv
  <2>3. ftab = Table(file.stages, Len(file.stages))
    BY <2>2 DEF ftab
  <2>4. \E i \in 1..Len(file.stages) : file.stages[i].id = thr[t].stage /\ ftab[thr[t].stage] = file.stages[i]
    BY <2>1, <2>2, <2>3, TableTypes
  <2>5. DOMAIN file.stages = 1..Len(file.stages)
    BY <2>2
  <2>6. QED
    BY <2>1, <2>4, <2>5
<1> QED
  BY <1>1, EngineInvariant, PTL

\* Within one life of the server no session is started on the bare
\* description of a task, as long as nobody is overtaken and Resume meets
\* workflows that have ended: a stage that failed had been started on its
\* prompt, and none is left pending at the end.
THEOREM OnlyPromptsRun == Spec /\ []NobodyOvertaken => []PromptsOnceEnded
<1>1. InvUntil => PromptsOnceEnded
  BY DEF Inv, InvUntil, PromptInv, PromptsAreGenerated, PromptsOnceEnded
<1> QED
  BY <1>1, EngineInvariant, PTL

\* The stages that get_workflow shows are those of the table.
LEMMA ShownStages ==
  ASSUME Inv
  PROVE  /\ store # NoVal => Stages = {tab[id] : id \in DOMAIN tab}
         /\ store # NoVal => \A id \in DOMAIN tab : tab[id].id = id
         /\ store = NoVal => Stages = {} /\ DOMAIN tab = {}
<1>1. MemInv
  BY DEF Inv
<1>2. store # NoVal => Stages = {tab[id] : id \in DOMAIN tab}
  BY <1>1, StageSet DEF Stages
<1>3. store # NoVal => \A id \in DOMAIN tab : tab[id].id = id
  BY <1>1, TabFacts
<1>4. store = NoVal => Stages = {} /\ DOMAIN tab = {}
  BY DEF Stages, tab
<1>5. QED
  BY <1>2, <1>3, <1>4

\* Within one life of the server, and as long as every save succeeded, nobody
\* is overtaken and no Resume came early, a finished workflow shows no stage as
\* running.
THEOREM NothingLeftRunning == Spec /\ []NobodyOvertaken => []NoStageLeftRunning
<1>1. InvUntil => NoStageLeftRunning
  <2> SUFFICES ASSUME Inv, store # NoVal, store.status \in {"done", "failed"}, crashes = 0, saveFails = 0,
                      NEW s \in Stages
               PROVE  s.status # "running"
    BY DEF NoStageLeftRunning, InvUntil
  <2>1. DOMAIN thr = {}
    BY DEF Inv, ThrInv
  <2>2. \A id \in DOMAIN tab : tab[id].status # "running"
    BY <2>1 DEF Inv, RunInv
  <2>3. QED
    BY <2>2, ShownStages
<1> QED
  BY <1>1, EngineInvariant, PTL

\* A branch is only merged into the base branch after its verifier passed
\* it, across failures, resumes and restarts, as long as every save succeeded,
\* nobody is overtaken and no Resume came early: only an overtaken write can
\* lose the verify stage of a branch that is merged.
THEOREM OnlyVerifiedIsMerged == Spec /\ []NobodyOvertaken => []MergedWasVerified
<1>1. InvUntil => MergedWasVerified
  <2> SUFFICES ASSUME Inv, saveFails = 0, NEW b \in trunk
               PROVE  \E s \in Stages :
                        s.id = <<"verify", b>> /\ s.status = "done" /\ VerifierPasses(s.output)
    BY DEF MergedWasVerified, InvUntil
  <2>1. Verified(b)
    BY DEF Inv, TrunkInv
  <2>2. <<"verify", b>> \in DOMAIN tab
    BY <2>1 DEF Verified, Is
  <2>3. tab[<<"verify", b>>] \in Stages /\ tab[<<"verify", b>>].id = <<"verify", b>>
    BY <2>2, ShownStages
  <2>4. QED
    BY <2>1, <2>3 DEF Verified, Is
<1> QED
  BY <1>1, EngineInvariant, PTL

\* A workflow that is shown as done and was never resumed has implement
\* stages, all done and all verified, and a merge stage that is done, whatever
\* saves failed and however often the server restarted, unless somebody was
\* overtaken: the lost stage may be one of these.
THEOREM DoneWasVerified == Spec /\ []NobodyOvertaken => []DoneIsVerified
<1>1. InvUntil => DoneIsVerified
  <2> SUFFICES ASSUME Inv, get_workflow(TRUE).status = "done", resumes = 0, ~isDemo
               PROVE  LET shown == get_workflow(TRUE).stages
                          impl  == {s \in shown : KindOf(s.id) = "implement"}
                      IN  /\ impl # {}
                          /\ \A s \in impl : s.status = "done" /\ \E v \in shown :
                               v.id = VerifyOf(s.id) /\ v.status = "done" /\ VerifierPasses(v.output)
                          /\ \E m \in shown : m.id = Merge /\ m.status = "done"
    <3>1. InvUntil /\ resumes = 0 => Inv
      BY DEF InvUntil
    <3>2. QED
      BY <3>1 DEF DoneIsVerified
  <2>1. store # NoVal /\ store.status = "done"
    BY DEF get_workflow
  <2>2. Complete(tab)
    BY <2>1 DEF Inv, TabInv
  <2>3. PICK shown : /\ shown = get_workflow(TRUE).stages
                     /\ shown = {[id |-> s.id, status |-> s.status, output |-> s.output] : s \in Stages}
    BY <2>1 DEF get_workflow, projectWorkflow
  <2>4. /\ \A x \in shown : \E s \in Stages : x.id = s.id /\ x.status = s.status
        /\ \A s \in Stages : \E x \in shown : x.id = s.id /\ x.status = s.status /\ x.output = s.output
    <3>1. PICK all : all = Stages
      OBVIOUS
    <3>2. shown = {[id |-> s.id, status |-> s.status, output |-> s.output] : s \in all}
      BY <2>3, <3>1
    <3>3. /\ \A x \in shown : \E s \in all : x.id = s.id /\ x.status = s.status
          /\ \A s \in all : \E x \in shown : x.id = s.id /\ x.status = s.status /\ x.output = s.output
      <4>1. ASSUME NEW x \in shown
            PROVE  \E s \in all : x.id = s.id /\ x.status = s.status
        <5>1. PICK s \in all : x = [id |-> s.id, status |-> s.status, output |-> s.output]
          BY <3>2
        <5>2. x.id = s.id /\ x.status = s.status
          BY <5>1
        <5>3. QED
          BY <5>2
      <4>2. ASSUME NEW s \in all
            PROVE  \E x \in shown : x.id = s.id /\ x.status = s.status /\ x.output = s.output
        <5>1. PICK x : x = [id |-> s.id, status |-> s.status, output |-> s.output]
          OBVIOUS
        <5>2. x \in shown
          BY <3>2, <5>1
        <5>3. x.id = s.id /\ x.status = s.status /\ x.output = s.output
          BY <5>1
        <5> HIDE <5>1
        <5>4. QED
          BY <5>2, <5>3
      <4>3. QED
        BY <4>1, <4>2
    <3>4. QED
      BY <3>1, <3>3
  <2>5. /\ \A s \in Stages : \E id \in DOMAIN tab : s = tab[id] /\ tab[id].id = id
        /\ \A id \in DOMAIN tab : tab[id] \in Stages /\ tab[id].id = id
    BY <2>1, ShownStages
  <2>6. /\ \A x \in shown : x.id \in DOMAIN tab /\ x.status = tab[x.id].status
        /\ \A id \in DOMAIN tab : \E x \in shown :
             x.id = id /\ x.status = tab[id].status /\ x.output = tab[id].output
    BY <2>4, <2>5
  <2> HIDE <2>3
  <2>7. \E x \in shown : KindOf(x.id) = "implement"
    BY <2>2, <2>6 DEF Complete
  <2>8. ASSUME NEW x \in shown, KindOf(x.id) = "implement"
        PROVE  /\ x.status = "done"
               /\ \E v \in shown : v.id = VerifyOf(x.id) /\ v.status = "done" /\ VerifierPasses(v.output)
    <3>1. x.id \in DOMAIN tab /\ x.status = tab[x.id].status
      BY <2>6
    <3>2. /\ tab[x.id].status = "done" /\ VerifyOf(x.id) \in DOMAIN tab
          /\ tab[VerifyOf(x.id)].status = "done" /\ VerifierPasses(tab[VerifyOf(x.id)].output)
      BY <2>2, <2>8, <3>1 DEF Complete
    <3>3. PICK v \in shown : /\ v.id = VerifyOf(x.id) /\ v.status = tab[VerifyOf(x.id)].status
                             /\ v.output = tab[VerifyOf(x.id)].output
      BY <2>6, <3>2
    <3>4. QED
      BY <3>1, <3>2, <3>3
  <2>9. \E m \in shown : m.id = Merge /\ m.status = "done"
    BY <2>2, <2>6 DEF Complete
  <2>10. shown = get_workflow(TRUE).stages
    BY <2>3
  <2>11. QED
    BY <2>7, <2>8, <2>9, <2>10
<1> QED
  BY <1>1, EngineInvariant, PTL

\* An overtaken Upsert is the only way to lose a stage: when there is none, no
\* step but a restart drops a stage from the workflow, and (until a Resume comes
\* early) none takes a done stage back to pending or running, although the
\* goroutines write to one array without a lock.
THEOREM StagesAreKept == Spec /\ []NobodyOvertaken => StagesKept
<1> DEFINE Kept ==
      (store # NoVal /\ store' # NoVal /\ crashes' = crashes /\ earlyResumes' = 0) =>
        \A s \in Stages : \E i \in 1..store'.len :
          LET n == heap'[store'.arr][i] IN
            n.id = s.id /\ (s.status = "done" => n.status \in {"done", "failed"})
<1>1. InvUntil /\ InvUntil' /\ NobodyOvertaken' /\ [Next]_vars => [Kept]_vars
  <2> SUFFICES ASSUME InvUntil, InvUntil', NobodyOvertaken', [Next]_vars, earlyResumes' = 0,
                      store # NoVal, store' # NoVal, crashes' = crashes, NEW s \in Stages
               PROVE  \E i \in 1..store'.len :
                        LET n == heap'[store'.arr][i] IN
                          n.id = s.id /\ (s.status = "done" => n.status \in {"done", "failed"})
    OBVIOUS
  <2>0. earlyResumes = 0 /\ Inv /\ Inv'
    <3>1. earlyResumes = 0
      BY ResumeCounts DEF InvUntil
    <3>2. QED
      BY <3>1 DEF InvUntil
  <2>1. TabKept
    BY <2>0, NextKeeps
  <2>2. PICK id \in DOMAIN tab : s = tab[id] /\ s.id = id
    BY <2>0, ShownStages
  <2>3. id \in DOMAIN tab' /\ (s.status = "done" => tab'[id].status \in {"done", "failed"})
    BY <2>1, <2>2 DEF TabKept
  <2>4. Slice(heap'[store'.arr], store'.len) /\ tab' = Table(heap'[store'.arr], store'.len)
    BY <2>0 DEF Inv, MemInv, tab
  <2>5. \E i \in 1..store'.len : heap'[store'.arr][i].id = id /\ tab'[id] = heap'[store'.arr][i]
    BY <2>3, <2>4, TableTypes
  <2>6. QED
    BY <2>2, <2>3, <2>5
<1> QED
  BY <1>1, EngineInvariant, PTL DEF Spec, StagesKept
====
