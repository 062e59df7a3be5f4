---- MODULE WorkflowEngine ----
(***************************************************************************)
(* The workflow engine: internal/workflow (engine.go, store.go, run.go,    *)
(* validator.go, harness.go), the merge of internal/gitutil/merge.go it    *)
(* ends with, and the handlers that submit, resume and show a workflow.    *)
(*                                                                         *)
(* One workflow.  Its goroutines are the keys of thr: the driver of        *)
(* generation g is <<g, Main>>, the worker that driver g starts for a      *)
(* stage is <<g, stage id>>.  What the store keeps of the workflow is a Go *)
(* struct with a slice: copying the struct (Get, Upsert) copies the slice  *)
(* header [arr, len] and shares the array, so a header and the heap of     *)
(* arrays are modelled apart.                                              *)
(***************************************************************************)
EXTENDS Integers, Sequences, FiniteSets

CONSTANTS
  maxWorkers,         \* Engine.maxWorkers
  PlanOutputs,        \* what a plan agent may print
  ImplementOutputs,   \* what an implement agent may print
  VerifyOutputs,      \* what a verify agent may print
  Demos,              \* is the workflow a demo?  a subset of BOOLEAN
  MaxTasks,           \* bound: tasks of a plan (the demo has 3)
  MaxResumes,         \* bound: calls of Resume
  MaxEarly,           \* bound: those that meet a workflow that has not ended
  MaxCrashes,         \* bound: ends of the server process
  MaxSaveFails,       \* bound: writes of the store's file that fail
  Stalled,            \* roles of the goroutines that others may overtake
                      \* between a Get and its Upsert
  NoVal               \* no output, no header

ASSUME EngineAssumption ==
  /\ maxWorkers \in Nat \ {0}
  /\ Demos \subseteq BOOLEAN
  /\ {MaxTasks, MaxResumes, MaxEarly, MaxCrashes, MaxSaveFails} \subseteq Nat
  /\ Stalled \subseteq {"driver", "worker", "resume", "resumed", "demo", "demoworker"}
  /\ TRUE \in Demos => MaxTasks >= 3
  /\ PlanOutputs \subseteq [json : BOOLEAN, tasks : UNION {
       [1..n -> [id : BOOLEAN, description : BOOLEAN]] : n \in 0..MaxTasks}]
  /\ ImplementOutputs \subseteq [block : BOOLEAN, committed : BOOLEAN,
                                 commit_sha : BOOLEAN, build_ok : BOOLEAN]
  /\ VerifyOutputs \subseteq [json : BOOLEAN, pass : BOOLEAN]

VARIABLES
  heap,      \* the arrays behind Stages: array number -> slots (its capacity)
  store,     \* Store.data: the header [status, arr, len], or NoVal
  file,      \* workflows.json: [status, stages], or NoVal
  thr,       \* the live goroutines
  gen,       \* drivers started so far
  trunk,     \* implement branches merged into the base branch and pushed
  rawRuns,   \* stages whose session was started on a bare task description
  isDemo, resumes, crashes, saveFails,
  earlyResumes  \* history: resumes that met a workflow still queued or running

mem    == <<heap, store, file, saveFails>>
counts == <<isDemo, gen, resumes, crashes, earlyResumes>>
vars   == <<heap, store, file, thr, gen, trunk, rawRuns, isDemo,
            resumes, crashes, saveFails, earlyResumes>>

----------------------------------------------------------------------------
(* Stages *)

Main     == <<"main", 0>>
Research == <<"research", 0>>
Plan     == <<"plan", 0>>
Merge    == <<"merge", 0>>
Tasks    == 1..MaxTasks
StageIds == {Research, Plan, Merge} \cup ({"implement", "verify"} \X Tasks)
KindOf(id)   == id[1]
VerifyOf(id) == <<"verify", id[2]>>
(* ResearchPrompt, PlanPrompt, ImplementPrompt and VerifyPrompt: their wording
   is left out; what counts is that the input of a stage is one of them and
   no longer the bare description of a task. *)
StagePrompt == "prompt"

(* implementBranchName numbers the implement stages of the workflow *)
BranchOf(id) == id[2]

(* LimitText stands for a result with "You've hit your" in it *)
LimitText == [limit |-> TRUE]
IsUsageLimitError(result) == result = LimitText

(* A plan output is [json, tasks]: json says that the text from its first "["
   to its last "]" is a JSON array of tasks, and each task whether its id and
   its description are non-empty; only their number is used later. *)
ValidatePlanOutput(out) ==
  /\ out.json
  /\ out.tasks # <<>>
  /\ \A i \in DOMAIN out.tasks : out.tasks[i].id /\ out.tasks[i].description

ValidateImplementOutput(out) ==
  out.block /\ out.committed /\ out.commit_sha /\ out.build_ok

(* ExtractVerifyBlock, json.Unmarshal and the test of vr.Pass *)
VerifierPasses(out) == out # NoVal /\ out.json /\ out.pass

Results(kind) ==
  {LimitText} \cup (CASE kind = "research"  -> {[findings |-> TRUE]}
                      [] kind = "plan"      -> PlanOutputs
                      [] kind = "implement" -> ImplementOutputs
                      [] kind = "verify"    -> VerifyOutputs)

Stage == [id : StageIds, status : {"pending", "running", "done", "failed"},
          input : {"", "task", StagePrompt}, session : BOOLEAN,
          verifySession : BOOLEAN,
          output : {NoVal, [demo |-> TRUE]} \cup UNION {Results(k) :
                     k \in {"research", "plan", "implement", "verify"}}]

(* NoVal is none of the values it stands in for. *)
ASSUME NoValAssumption ==
  LET statuses == {"queued", "running", "done", "failed"} IN
  /\ NoVal \notin Stage
  /\ NoVal \notin [status : statuses, arr : Nat, len : Nat]
  /\ NoVal \notin [status : statuses, stages : Seq(Stage)]

\* Mutant: the workflow's status constant for the stage's.
NewStageQueued(id, status, input) ==
  [id |-> id, status |-> IF status = "pending" THEN "queued" ELSE status,
   input |-> input, output |-> NoVal, session |-> FALSE, verifySession |-> FALSE]

NewStage(id, status, input) ==
  [id |-> id, status |-> status, input |-> input, output |-> NoVal,
   session |-> FALSE, verifySession |-> FALSE]

----------------------------------------------------------------------------
(* The store *)

View(hp, h) == SubSeq(hp[h.arr], 1, h.len)

stageIndex(h, id) ==
  LET at == {i \in 1..h.len : heap[h.arr][i].id = id}
  IN  IF at = {} THEN 0 ELSE CHOOSE i \in at : \A j \in at : i <= j

(* The array that append moves to: capacities double (Go's growslice). *)
Grown(cap, need) == IF need > 2 * cap THEN need ELSE 2 * cap
JSONCap(n) ==
  IF n > 16 THEN n
  ELSE CHOOSE c \in {1, 2, 4, 8, 16} : c >= n /\ (c = 1 \/ c < 2 * n)
Padded(s, cap) == [i \in 1..cap |-> IF i <= Len(s) THEN s[i] ELSE NoVal]

(* The arrays that goroutines hold on to, and a number nobody uses. *)
HeldArrs == {thr[t].base.arr : t \in {u \in DOMAIN thr : thr[u].base # NoVal}}
FreshArr ==
  LET used == {store.arr} \cup HeldArrs
  IN  CHOOSE a \in 1..(Cardinality(used) + 1) : a \notin used

(* The heap and header after h.Stages = append(h.Stages, new...) *)
appended(h, new) ==
  LET n   == h.len + Len(new)
      old == heap[h.arr]
      s   == View(heap, h) \o new
      a   == FreshArr
  IN  IF n <= Len(old)
      THEN [heap |-> [heap EXCEPT ![h.arr] =
                        [i \in DOMAIN old |-> IF i <= n THEN s[i] ELSE old[i]]],
            hdr  |-> [h EXCEPT !.len = n]]
      ELSE [heap |-> [x \in DOMAIN heap \cup {a} |->
                        IF x = a THEN Padded(s, Grown(Len(old), n)) ELSE heap[x]],
            hdr  |-> [h EXCEPT !.arr = a, !.len = n]]

(* Upsert replaces the stored struct and then saves the file; when the save
   fails the caller gets an error and the memory has changed all the same.
   Arrays that nothing refers to are forgotten. *)
Upsert(hp, h, ok) ==
  /\ heap' = [a \in {h.arr} \cup HeldArrs |-> hp[a]]
  /\ store' = h
  /\ file' = IF ok THEN [status |-> h.status, stages |-> View(hp, h)] ELSE file
  /\ saveFails' = saveFails + IF ok THEN 0 ELSE 1

SaveResults == IF saveFails < MaxSaveFails THEN BOOLEAN ELSE {TRUE}

----------------------------------------------------------------------------
(* Goroutines *)

Goroutine(pc, role, stage, prompt) ==
  [pc |-> pc, role |-> role, stage |-> stage, task |-> stage, prompt |-> prompt,
   base |-> NoVal, at |-> 0, result |-> NoVal, err |-> FALSE, good |-> {}]

DriverOf(t)  == <<t[1], Main>>
Workers(g)   == {t \in DOMAIN thr : t[1] = g /\ t[2] # Main}
Moved(t, pc) == [thr EXCEPT ![t].pc = pc, ![t].base = NoVal, ![t].at = 0,
                            ![t].result = NoVal]
Joined(new)  == [t \in DOMAIN thr \cup DOMAIN new |->
                   IF t \in DOMAIN new THEN new[t] ELSE thr[t]]

\* Mutant: a worker's error stays with the worker.
ExitedQuietly(t, err, branches) ==
  [u \in DOMAIN thr \ {t} |->
     IF u = DriverOf(t) THEN [thr[u] EXCEPT !.good = @ \cup branches] ELSE thr[u]]

(* A worker returns: it reports its error or its branch to its driver. *)
Exited(t, err, branches) ==
  [u \in DOMAIN thr \ {t} |->
     IF u = DriverOf(t) THEN [thr[u] EXCEPT !.err = @ \/ err, !.good = @ \cup branches]
     ELSE thr[u]]
Ended(t) == [u \in DOMAIN thr \ {t} |-> thr[u]]

(* Where runStage's caller goes on, given what runStage returned. *)
Returned(t, ok) ==
  CASE thr[t].role = "driver"  -> Moved(t, IF ok THEN "reload" ELSE "failwf")
    [] thr[t].role = "resumed" -> Exited(t, ~ok, {})
    [] thr[t].role = "worker" /\ KindOf(thr[t].stage) = "implement" ->
         IF ok THEN Moved(t, "validate") ELSE Exited(t, TRUE, {})
    [] thr[t].role = "worker" /\ KindOf(thr[t].stage) = "verify" ->
         [Moved(t, "note") EXCEPT ![t].err = ~ok]

(* The stage that the next write of t is about. *)
Subject(t) == CASE thr[t].pc = "reject" -> thr[t].task
                [] thr[t].pc = "note"   -> thr[t].task
                [] thr[t].pc = "finish" -> Merge
                [] OTHER                -> thr[t].stage

(* Each of these ends in one Get, a change of the copy, and one Upsert. *)
WritePCs == {"start", "record", "done", "failing", "reject", "note", "addverify",
             "addtasks", "addmerge", "finish", "failwf", "demostart", "demodone",
             "demotasks", "demofinish"}

(* The Get of a write, when other goroutines run before its Upsert; without
   such a stall the write itself reads the store. *)
Get(t) ==
  /\ thr[t].role \in Stalled
  /\ thr[t].pc \in WritePCs
  /\ thr[t].base = NoVal
  /\ thr' = [thr EXCEPT ![t].base = store, ![t].at = stageIndex(store, Subject(t))]
  /\ UNCHANGED <<mem, trunk, rawRuns, counts>>

Base(t) == IF thr[t].base = NoVal THEN store ELSE thr[t].base
At(t)   == IF thr[t].base = NoVal THEN stageIndex(store, Subject(t)) ELSE thr[t].at

(* wf.Stages[i] = F(wf.Stages[i]): a write to the shared array *)
InPlace(t, F(_)) == [heap EXCEPT ![Base(t).arr][At(t)] = F(@)]

----------------------------------------------------------------------------
(* runStage *)

\* Mutant: the file is not written before the session is created.
StageStartUnsaved(t) ==
  /\ thr[t].pc = "start"
  /\ LET Running(s) == [s EXCEPT !.status = "running", !.input = thr[t].prompt]
     IN  heap' = InPlace(t, Running)
  /\ thr' = Moved(t, "create")
  /\ UNCHANGED <<store, file, saveFails, trunk, rawRuns, counts>>

\* Mutant: the prompt is not kept as the stage's input.
StageStartKeepsInput(t) ==
  /\ thr[t].pc = "start"
  /\ LET Running(s) == [s EXCEPT !.status = "running"]
     IN  Upsert(InPlace(t, Running), Base(t), TRUE)
  /\ thr' = Moved(t, "create")
  /\ UNCHANGED <<trunk, rawRuns, counts>>

(* Transition to running, with the prompt as input; an Upsert error is
   returned although the shared array already says "running". *)
StageStart(t) ==
  /\ thr[t].pc = "start"
  /\ IF At(t) = 0
     THEN thr' = Returned(t, FALSE) /\ UNCHANGED mem
     ELSE \E ok \in SaveResults :
            LET Running(s) == [s EXCEPT !.status = "running", !.input = thr[t].prompt]
            IN  /\ Upsert(InPlace(t, Running), Base(t), ok)
                /\ thr' = IF ok THEN Moved(t, "create") ELSE Returned(t, FALSE)
  /\ UNCHANGED <<trunk, rawRuns, counts>>

HasDeadline(t) == thr[t].role = "resumed" \/ KindOf(thr[t].stage) # "verify"

(* The loop around CreateSession: a session, any error but "no slots
   available", or the deadline while waiting for a slot.  (Another try after
   5 s changes nothing.) *)
StageCreateSession(t) ==
  /\ thr[t].pc = "create"
  /\ \/ /\ thr' = Moved(t, "record")
        /\ rawRuns' = rawRuns \cup {s \in {thr[t].stage} : thr[t].prompt = "task"}
     \/ thr' = Moved(t, "failing") /\ UNCHANGED rawRuns
  /\ UNCHANGED <<mem, trunk, counts>>

\* Mutant: the wait for a slot does not look at the context.
StageTimeoutInWaitOnly(t) ==
  /\ thr[t].pc = "wait"
  /\ HasDeadline(t)
  /\ thr' = Moved(t, "failing")
  /\ UNCHANGED <<mem, trunk, rawRuns, counts>>

(* The context of the stage expires: while waiting for a slot or for the
   session, which is left running. *)
StageTimeout(t) ==
  /\ thr[t].pc \in {"create", "wait"}
  /\ HasDeadline(t)
  /\ thr' = Moved(t, "failing")
  /\ UNCHANGED <<mem, trunk, rawRuns, counts>>

StageRecordSession(t) ==
  /\ thr[t].pc = "record"
  /\ IF At(t) = 0
     THEN UNCHANGED mem
     ELSE \E ok \in SaveResults :
            LET Recorded(s) == [s EXCEPT !.session = TRUE]
            IN  Upsert(InPlace(t, Recorded), Base(t), ok)
  /\ thr' = Moved(t, "wait")
  /\ UNCHANGED <<trunk, rawRuns, counts>>

(* WaitForSession: the session stopped with a result, or it failed, was
   removed or could not be read. *)
StageSessionEnds(t) ==
  /\ thr[t].pc = "wait"
  /\ \/ \E result \in Results(KindOf(thr[t].stage)) :
          thr' = IF IsUsageLimitError(result) THEN Moved(t, "failing")
                 ELSE [Moved(t, "done") EXCEPT ![t].result = result]
     \/ thr' = Moved(t, "failing")
  /\ UNCHANGED <<mem, trunk, rawRuns, counts>>

StageDone(t) ==
  /\ thr[t].pc = "done"
  /\ IF At(t) = 0
     THEN thr' = Returned(t, FALSE) /\ UNCHANGED mem
     ELSE \E ok \in SaveResults :
            LET Finished(s) == [s EXCEPT !.status = "done", !.output = thr[t].result]
            IN  /\ Upsert(InPlace(t, Finished), Base(t), ok)
                /\ thr' = Returned(t, ok)
  /\ UNCHANGED <<trunk, rawRuns, counts>>

\* Mutant: the error is returned and the stage is left as it is.
ReturnErrorOnly(t) ==
  /\ thr[t].pc \in {"failing", "reject"}
  /\ thr' = IF thr[t].pc = "failing" THEN Returned(t, FALSE) ELSE Exited(t, TRUE, {})
  /\ UNCHANGED <<mem, trunk, rawRuns, counts>>

(* markStageFailed, called by runStage ("failing") and by a worker that
   rejects its implement stage ("reject"); the Upsert is best effort. *)
markStageFailed(t) ==
  /\ thr[t].pc \in {"failing", "reject"}
  /\ IF At(t) = 0
     THEN UNCHANGED mem
     ELSE \E ok \in SaveResults :
            LET Failed(s) == [s EXCEPT !.status = "failed"]
            IN  Upsert(InPlace(t, Failed), Base(t), ok)
  /\ thr' = IF thr[t].pc = "failing" THEN Returned(t, FALSE) ELSE Exited(t, TRUE, {})
  /\ UNCHANGED <<trunk, rawRuns, counts>>

----------------------------------------------------------------------------
(* run: research, plan, fan-out, merge *)

(* executeNamedStage looks for the first pending stage of the kind. *)
FindStage(t) ==
  /\ thr[t].pc = "find"
  /\ LET i == stageIndex(store, thr[t].stage)
     IN  thr' = IF i # 0 /\ heap[store.arr][i].status = "pending"
                THEN Moved(t, "start") ELSE Moved(t, "failwf")
  /\ UNCHANGED <<mem, trunk, rawRuns, counts>>

StoredOutput(id) ==
  LET i == stageIndex(store, id) IN IF i = 0 THEN NoVal ELSE heap[store.arr][i].output

(* The output is read back; that of the plan must be a list of tasks. *)
ReloadOutput(t) ==
  /\ thr[t].pc = "reload"
  /\ LET out == StoredOutput(thr[t].stage) IN
     thr' = CASE out = NoVal -> Moved(t, "failwf")
              [] out # NoVal /\ thr[t].stage = Research ->
                   [Moved(t, "find") EXCEPT ![t].stage = Plan]
              [] out # NoVal /\ thr[t].stage = Plan /\ ValidatePlanOutput(out) ->
                   [Moved(t, "addtasks") EXCEPT ![t].result = out]
              [] OTHER -> Moved(t, "failwf")
  /\ UNCHANGED <<mem, trunk, rawRuns, counts>>

AddImplementStages(t) ==
  /\ thr[t].pc = "addtasks"
  /\ \E ok \in SaveResults :
       LET new == [i \in DOMAIN thr[t].result.tasks |->
                     NewStage(<<"implement", i>>, "pending", "task")]
           a   == appended(Base(t), new)
       IN  /\ Upsert(a.heap, a.hdr, ok)
           /\ thr' = Moved(t, IF ok THEN "fanout" ELSE "failwf")
  /\ UNCHANGED <<trunk, rawRuns, counts>>

FanOut(t) ==
  /\ thr[t].pc = "fanout"
  /\ LET ids == {s.id : s \in {heap[store.arr][i] : i \in 1..store.len}}
         new == [w \in {<<t[1], id>> : id \in {x \in ids : KindOf(x) = "implement"}} |->
                   Goroutine("sem", "worker", w[2], StagePrompt)]
     IN  thr' = [Joined(new) EXCEPT ![t].pc = "join"]
  /\ UNCHANGED <<mem, trunk, rawRuns, counts>>

(* sem <- struct{}{} *)
AcquireWorker(t) ==
  /\ thr[t].pc = "sem"
  /\ Cardinality({w \in Workers(t[1]) : thr[w].pc # "sem"}) < maxWorkers
  /\ thr' = Moved(t, "start")
  /\ UNCHANGED <<mem, trunk, rawRuns, counts>>

WorkerValidates(t) ==
  /\ thr[t].pc = "validate"
  /\ LET out == StoredOutput(thr[t].task) IN
     thr' = CASE stageIndex(store, thr[t].task) = 0 -> Exited(t, TRUE, {})
              [] out # NoVal /\ ValidateImplementOutput(out) -> Moved(t, "addverify")
              [] OTHER -> Moved(t, "reject")
  /\ UNCHANGED <<mem, trunk, rawRuns, counts>>

WorkerAddsVerify(t) ==
  /\ thr[t].pc = "addverify"
  /\ \E ok \in SaveResults :
       LET a == appended(Base(t), <<NewStage(VerifyOf(thr[t].task), "pending", "")>>)
       IN  Upsert(a.heap, a.hdr, ok)
  /\ thr' = [Moved(t, "start") EXCEPT ![t].stage = VerifyOf(thr[t].task)]
  /\ UNCHANGED <<trunk, rawRuns, counts>>

(* VerifySessionID is recorded whatever the verify stage came to. *)
WorkerNotesVerifySession(t) ==
  /\ thr[t].pc = "note"
  /\ LET v == stageIndex(Base(t), thr[t].stage) IN
     IF v = 0 \/ At(t) = 0
     THEN UNCHANGED mem
     ELSE \E ok \in SaveResults :
            LET Noted(s) == [s EXCEPT !.verifySession = heap[Base(t).arr][v].session]
            IN  Upsert(InPlace(t, Noted), Base(t), ok)
  /\ thr' = IF thr[t].err THEN Exited(t, TRUE, {}) ELSE Moved(t, "judge")
  /\ UNCHANGED <<trunk, rawRuns, counts>>

\* Mutant: a verdict that parses is taken for a pass.
WorkerJudgesParseOnly(t) ==
  /\ thr[t].pc = "judge"
  /\ thr' = IF StoredOutput(thr[t].stage).json
            THEN Exited(t, FALSE, {BranchOf(thr[t].task)})
            ELSE Moved(t, "reject")
  /\ UNCHANGED <<mem, trunk, rawRuns, counts>>

WorkerJudges(t) ==
  /\ thr[t].pc = "judge"
  /\ thr' = IF VerifierPasses(StoredOutput(thr[t].stage))
            THEN Exited(t, FALSE, {BranchOf(thr[t].task)})
            ELSE Moved(t, "reject")
  /\ UNCHANGED <<mem, trunk, rawRuns, counts>>

\* Mutant: the driver does not wait for its workers.
JoinAtOnce(t) ==
  /\ thr[t].pc = "join"
  /\ thr' = Moved(t, CASE thr[t].role = "driver" -> "addmerge"
                       [] thr[t].role = "resume" -> "finish"
                       [] thr[t].role = "demo"   -> "demofinish")
  /\ UNCHANGED <<mem, trunk, rawRuns, counts>>

(* wg.Wait() *)
Join(t) ==
  /\ thr[t].pc = "join"
  /\ Workers(t[1]) = {}
  /\ thr' = Moved(t, CASE thr[t].role = "driver" -> "addmerge"
                       [] thr[t].role = "resume" -> "finish"
                       [] thr[t].role = "demo"   -> "demofinish")
  /\ UNCHANGED <<mem, trunk, rawRuns, counts>>

AddMergeStage(t) ==
  /\ thr[t].pc = "addmerge"
  /\ \E ok \in SaveResults :
       LET a == appended(Base(t), <<NewStage(Merge, "running", "")>>)
       IN  Upsert(a.heap, a.hdr, ok)
  /\ thr' = [Moved(t, "merging") EXCEPT ![t].stage = Merge]
  /\ UNCHANGED <<trunk, rawRuns, counts>>

(* MergeImplementBranches: what it may push, and whether it returns an error.
   A branch that cannot be fetched or that conflicts is left out without an
   error; the deadline, the clone, the checkout and the push may fail.  (The
   merged branches are then deleted from the remote, best effort.) *)
MergeOutcomes(branches) ==
  IF branches = {} THEN {[merged |-> {}, err |-> FALSE]}
  ELSE {[merged |-> m, err |-> FALSE] : m \in SUBSET branches}
       \cup {[merged |-> {}, err |-> TRUE]}

MergeBranches(t) ==
  /\ thr[t].pc = "merging"
  /\ \E o \in MergeOutcomes(thr[t].good) :
       /\ trunk' = trunk \cup o.merged
       /\ thr' = [Moved(t, "finish") EXCEPT ![t].result = o]
  /\ UNCHANGED <<mem, rawRuns, counts>>

(* The end of run, where the merge stage gets its status, and of resumeRun. *)
FinishWorkflow(t) ==
  /\ thr[t].pc = "finish"
  /\ LET mergeErr == thr[t].role = "driver" /\ thr[t].result.err
         status   == IF thr[t].err \/ mergeErr THEN "failed" ELSE "done"
         Merged(s) == [s EXCEPT !.status = IF mergeErr THEN "failed" ELSE "done"]
         hp       == IF thr[t].role = "driver" /\ At(t) # 0 THEN InPlace(t, Merged) ELSE heap
     IN  \E ok \in SaveResults : Upsert(hp, [Base(t) EXCEPT !.status = status], ok)
  /\ thr' = Ended(t)
  /\ UNCHANGED <<trunk, rawRuns, counts>>

failWorkflow(t) ==
  /\ thr[t].pc = "failwf"
  /\ \E ok \in SaveResults : Upsert(heap, [Base(t) EXCEPT !.status = "failed"], ok)
  /\ thr' = Ended(t)
  /\ UNCHANGED <<trunk, rawRuns, counts>>

----------------------------------------------------------------------------
(* The demo: the same pipeline with sleeps for sessions *)

(* The first half of step: mark the stage and the workflow running. *)
DemoStart(t) ==
  /\ thr[t].pc = "demostart"
  /\ LET Started(s) == [s EXCEPT !.status = "running", !.session = TRUE]
         hp == IF At(t) = 0 THEN heap ELSE InPlace(t, Started)
     IN  \E ok \in SaveResults : Upsert(hp, [Base(t) EXCEPT !.status = "running"], ok)
  /\ thr' = Moved(t, "demodone")
  /\ UNCHANGED <<trunk, rawRuns, counts>>

(* After the sleep: mark the stage done; then the next stage, the tasks, or
   the end of a worker. *)
DemoDone(t) ==
  /\ thr[t].pc = "demodone"
  /\ LET Finished(s) == [s EXCEPT !.status = "done", !.output = [demo |-> TRUE]]
         hp == IF At(t) = 0 THEN heap ELSE InPlace(t, Finished)
     IN  \E ok \in SaveResults : Upsert(hp, Base(t), ok)
  /\ thr' = CASE thr[t].stage = Research ->
                   [Moved(t, "demostart") EXCEPT ![t].stage = Plan]
              [] thr[t].stage = Plan -> Moved(t, "demotasks")
              [] OTHER -> Exited(t, FALSE, {})
  /\ UNCHANGED <<trunk, rawRuns, counts>>

DemoTasks == 3

DemoAddTasks(t) ==
  /\ thr[t].pc = "demotasks"
  /\ LET new == [i \in 1..DemoTasks |-> NewStage(<<"implement", i>>, "pending", "task")]
         a   == appended(Base(t), new)
         ws  == [w \in {<<t[1], <<"implement", i>>>> : i \in 1..DemoTasks} |->
                   Goroutine("demostart", "demoworker", w[2], "")]
     IN  /\ \E ok \in SaveResults : Upsert(a.heap, a.hdr, ok)
         /\ thr' = [Joined(ws) EXCEPT ![t].pc = "join", ![t].base = NoVal]
  /\ UNCHANGED <<trunk, rawRuns, counts>>

DemoFinish(t) ==
  /\ thr[t].pc = "demofinish"
  /\ LET b == Base(t)
         allDone == \A i \in 1..b.len : heap[b.arr][i].status = "done"
     IN  \E ok \in SaveResults :
           Upsert(heap, [b EXCEPT !.status = IF allDone THEN "done" ELSE "failed"], ok)
  /\ thr' = Ended(t)
  /\ UNCHANGED <<trunk, rawRuns, counts>>

----------------------------------------------------------------------------
(* Calls from outside, and the end of the server process *)

StartDriver(new) ==
  /\ thr' = Joined([t \in {<<gen + 1, Main>>} |-> new])
  /\ gen' = gen + 1

FirstStages == <<NewStage(Research, "pending", ""), NewStage(Plan, "pending", "")>>

(* SubmitWorkflow up to its first save, of a queued workflow; on an error the
   caller gets no id and nothing drives the workflow. *)
Submit ==
  /\ store = NoVal
  /\ FALSE \in Demos
  /\ isDemo' = FALSE
  /\ \E ok \in SaveResults :
       /\ heap' = [a \in {1} |-> FirstStages]
       /\ store' = [status |-> "queued", arr |-> 1, len |-> 2]
       /\ file' = IF ok THEN [status |-> "queued", stages |-> FirstStages] ELSE file
       /\ saveFails' = saveFails + IF ok THEN 0 ELSE 1
       /\ IF ok THEN StartDriver(Goroutine("submit", "driver", Research, StagePrompt))
          ELSE UNCHANGED <<thr, gen>>
  /\ UNCHANGED <<trunk, rawRuns, resumes, crashes, earlyResumes>>

(* The second save, of a running one, and the start of run; the caller's
   goroutine stands for the driver until then. *)
SubmitRuns(t) ==
  /\ thr[t].pc = "submit"
  /\ \E ok \in SaveResults :
       /\ Upsert(heap, [store EXCEPT !.status = "running"], ok)
       /\ thr' = IF ok THEN Moved(t, "find") ELSE Ended(t)
  /\ UNCHANGED <<trunk, rawRuns, counts>>

InjectDemoWorkflow ==
  /\ store = NoVal
  /\ TRUE \in Demos
  /\ isDemo' = TRUE
  /\ \E ok \in SaveResults :
       /\ heap' = [a \in {1} |-> FirstStages]
       /\ store' = [status |-> "queued", arr |-> 1, len |-> 2]
       /\ file' = IF ok THEN [status |-> "queued", stages |-> FirstStages] ELSE file
       /\ saveFails' = saveFails + IF ok THEN 0 ELSE 1
       /\ IF ok THEN StartDriver(Goroutine("demostart", "demo", Research, ""))
          ELSE UNCHANGED <<thr, gen>>
  /\ UNCHANGED <<trunk, rawRuns, resumes, crashes, earlyResumes>>

\* Mutant: every stage that has an input is run again.
HasInput(s) == s.input # ""

Resumable(s) == s.status = "failed" /\ s.input # ""

(* Resume: failed stages with an input become pending again in the shared
   array, the workflow running; without such a stage, or when the save fails,
   the caller gets an error and no goroutine starts.  The status of the
   workflow is not looked at: that only a failed one is resumed is up to the
   callers (the page offers it for those alone, the tool for any id). *)
Unended == store.status \in {"queued", "running"}
Resume ==
  /\ store # NoVal
  /\ resumes < MaxResumes
  /\ Unended => earlyResumes < MaxEarly
  /\ \E i \in 1..store.len : Resumable(heap[store.arr][i])
  /\ LET Reset(s) == IF s # NoVal /\ Resumable(s) THEN [s EXCEPT !.status = "pending"] ELSE s
         old == heap[store.arr]
         hp  == [heap EXCEPT ![store.arr] =
                   [i \in DOMAIN old |-> IF i <= store.len THEN Reset(old[i]) ELSE old[i]]]
     IN  \E ok \in SaveResults :
           /\ Upsert(hp, [store EXCEPT !.status = "running"], ok)
           /\ IF ok THEN StartDriver(Goroutine("resumefan", "resume", Merge, ""))
              ELSE UNCHANGED <<thr, gen>>
  /\ resumes' = resumes + 1
  /\ earlyResumes' = earlyResumes + IF Unended THEN 1 ELSE 0
  /\ UNCHANGED <<trunk, rawRuns, isDemo, crashes>>

(* resumeRun starts a worker for every pending stage that has an input. *)
ResumeFanOut(t) ==
  /\ thr[t].pc = "resumefan"
  /\ LET ss  == {s \in {heap[store.arr][i] : i \in 1..store.len} :
                   s.status = "pending" /\ s.input # ""}
         new == [w \in {<<t[1], s.id>> : s \in ss} |->
                   Goroutine("sem", "resumed", w[2],
                             (CHOOSE s \in ss : s.id = w[2]).input)]
     IN  thr' = [Joined(new) EXCEPT ![t].pc = "join"]
  /\ UNCHANGED <<mem, trunk, rawRuns, counts>>

(* Open: the store is what the file holds, in arrays of its own. *)
Opened ==
  LET n == Len(file.stages) IN
  IF file = NoVal THEN store' = NoVal /\ heap' = <<>>
  ELSE /\ store' = [status |-> file.status, arr |-> 1, len |-> n]
       /\ heap' = [a \in {1} |-> Padded(file.stages, JSONCap(n))]

(* The process ends and starts again; RecoverInProgress starts run for a
   workflow that was not finished. *)
Restart ==
  /\ store # NoVal
  /\ crashes < MaxCrashes
  /\ crashes' = crashes + 1
  /\ Opened
  /\ IF file # NoVal /\ file.status \in {"queued", "running"}
     THEN /\ gen' = gen + 1
          /\ thr' = [t \in {<<gen + 1, Main>>} |->
                       Goroutine("find", "driver", Research, StagePrompt)]
     ELSE thr' = <<>> /\ UNCHANGED gen
  /\ UNCHANGED <<file, trunk, rawRuns, isDemo, resumes, saveFails, earlyResumes>>

----------------------------------------------------------------------------
Init ==
  /\ heap = <<>> /\ store = NoVal /\ file = NoVal /\ thr = <<>>
  /\ gen = 0 /\ trunk = {} /\ rawRuns = {}
  /\ isDemo = FALSE /\ resumes = 0 /\ crashes = 0 /\ saveFails = 0
  /\ earlyResumes = 0

(* What a goroutine does by itself: the scheduler runs it, timers fire, and
   the git commands of the merge end by their deadline. *)
Step(t) ==
  \/ SubmitRuns(t)
  \/ StageStart(t) \/ StageTimeout(t) \/ StageRecordSession(t) \/ StageDone(t)
  \/ markStageFailed(t) \/ FindStage(t) \/ ReloadOutput(t)
  \/ AddImplementStages(t) \/ FanOut(t) \/ AcquireWorker(t)
  \/ WorkerValidates(t) \/ WorkerAddsVerify(t) \/ WorkerNotesVerifySession(t)
  \/ WorkerJudges(t) \/ Join(t) \/ AddMergeStage(t) \/ MergeBranches(t)
  \/ FinishWorkflow(t) \/ failWorkflow(t) \/ ResumeFanOut(t)
  \/ DemoStart(t) \/ DemoDone(t) \/ DemoAddTasks(t) \/ DemoFinish(t)

(* What depends on the session manager and the agents. *)
SessionAnswers(t) == StageCreateSession(t) \/ StageSessionEnds(t)

Next ==
  \/ Submit \/ InjectDemoWorkflow \/ Resume \/ Restart
  \/ \E t \in DOMAIN thr : Get(t) \/ Step(t) \/ SessionAnswers(t)

Spec == Init /\ [][Next]_vars

Threads == (1..(1 + MaxResumes + MaxCrashes)) \X (StageIds \cup {Main})
FairSpec == Spec /\ \A t \in Threads : WF_vars(t \in DOMAIN thr /\ Step(t))

----------------------------------------------------------------------------
(* Properties *)

(* Engine.Get: the stages of the stored workflow. *)
Stages == IF store = NoVal THEN {} ELSE {heap[store.arr][i] : i \in 1..store.len}
Drivers == {t \in DOMAIN thr : t[2] = Main}

(* projectWorkflow: what get_workflow and list_workflows show of the stages *)
projectWorkflow(includeOutput) ==
  {[id |-> s.id, status |-> s.status,
    output |-> IF includeOutput THEN s.output ELSE NoVal] : s \in Stages}

(* The get_workflow tool. *)
get_workflow(includeOutput) ==
  IF store = NoVal THEN [status |-> "not found", stages |-> {}]
  ELSE [status |-> store.status, stages |-> projectWorkflow(includeOutput)]

(* Type invariant of the engine's memory, its file and its goroutines. *)
TypeOK ==
  /\ store = NoVal \/ (/\ store.status \in {"queued", "running", "done", "failed"}
                       /\ store.arr \in DOMAIN heap
                       /\ store.len \in 2..Len(heap[store.arr]))
  /\ \A a \in DOMAIN heap : \A i \in DOMAIN heap[a] : heap[a][i] \in Stage \cup {NoVal}
  /\ file # NoVal => \A i \in DOMAIN file.stages : file.stages[i] \in Stage
  /\ DOMAIN thr \subseteq Threads
  /\ trunk \subseteq Tasks /\ rawRuns \subseteq StageIds
  /\ {gen, resumes, crashes, saveFails, earlyResumes} \subseteq Nat

(* A workflow that get_workflow shows as done (and that was never resumed)
   has implement stages, each done and each followed by a verify stage whose
   output passes, and a merge stage that is done: engine.go 195-430, across
   failing saves and restarts. *)
DoneIsVerified ==
  get_workflow(TRUE).status = "done" /\ resumes = 0 /\ ~isDemo =>
    LET shown == get_workflow(TRUE).stages
        impl  == {s \in shown : KindOf(s.id) = "implement"}
    IN  /\ impl # {}
        /\ \A s \in impl : s.status = "done" /\ \E v \in shown :
             v.id = VerifyOf(s.id) /\ v.status = "done" /\ VerifierPasses(v.output)
        /\ \E m \in shown : m.id = Merge /\ m.status = "done"

(* The quoted promise of resume_workflow, "to continue a partially-completed
   workflow" (internal/mcp/tools.go:191): a workflow shown as done, resumed or
   not, has implement stages that were all verified, and its merge is done. *)
ResumedIsComplete ==
  get_workflow(TRUE).status = "done" /\ ~isDemo =>
    LET shown == get_workflow(TRUE).stages
        impl  == {s \in shown : KindOf(s.id) = "implement"}
    IN  /\ impl # {}
        /\ \A s \in impl : \E v \in shown : v.id = VerifyOf(s.id) /\ v.status = "done"
        /\ \E m \in shown : m.id = Merge /\ m.status = "done"

(* Whatever failed, was resumed or crashed: a branch is only ever merged into
   the base branch after its verifier passed it (engine.go 329-375), as long
   as every save succeeded and no Resume met a workflow that had not ended. *)
MergedWasVerified ==
  saveFails = 0 /\ earlyResumes = 0 =>
    \A b \in trunk : \E s \in Stages :
      s.id = <<"verify", b>> /\ s.status = "done" /\ VerifierPasses(s.output)

(* A queued or running workflow has exactly one driver, and a finished one
   none and no worker: wg.Wait precedes the final status, and a restart
   starts a driver for what was not finished (engine.go 378, 674, 734).
   Failing saves are excluded: Submit and Resume then give up after the
   memory already says running.  So is a Resume of a workflow that has not
   ended: it starts a second driver beside the first. *)
OneDriver ==
  saveFails = 0 /\ earlyResumes = 0 =>
    IF store # NoVal /\ store.status \in {"queued", "running"}
    THEN Cardinality(Drivers) = 1
    ELSE thr = <<>>

(* Within one life of the server, a finished workflow shows no stage as
   running (engine.go 485-585: every way out of a stage that has started
   leads through done or markStageFailed). *)
NoStageLeftRunning ==
  (/\ store # NoVal /\ store.status \in {"done", "failed"}
   /\ crashes = 0 /\ saveFails = 0 /\ earlyResumes = 0) =>
    \A s \in Stages : s.status # "running"

(* A stage that has a session is "running" in the file, so that a restart
   never starts a second session for it (engine.go 495-499 come before 508):
   RecoverInProgress only runs stages that are still pending.  (The second
   driver of an early Resume may run the same stage once more.) *)
StartedIsPersisted ==
  \A t \in DOMAIN thr : thr[t].pc \in {"record", "wait"} /\ earlyResumes = 0 =>
    \E i \in DOMAIN file.stages :
      file.stages[i].id = thr[t].stage /\ file.stages[i].status = "running"

(* "Resume re-runs all StageFailed stages in a workflow that have a saved Input
   (i.e. the prompt was already generated)" (engine.go:599): within one life of
   the server no session is started on a bare task description. *)
PromptsAreGenerated == crashes = 0 => rawRuns = {}

(* The same as long as a workflow is resumed after it has ended: by then no
   implement stage waits for its worker with a bare description as input. *)
PromptsOnceEnded == earlyResumes = 0 => PromptsAreGenerated

(* No step drops a stage from the workflow, and none takes a done stage back
   to pending or running, except for the restart after a failed save; nor,
   while no Resume has met a workflow that had not ended, is one run twice. *)
StagesKept ==
  [][ (store # NoVal /\ store' # NoVal /\ crashes' = crashes /\ earlyResumes' = 0) =>
        \A s \in Stages : \E i \in 1..store'.len :
          LET n == heap'[store'.arr][i] IN
            n.id = s.id /\ (s.status = "done" => n.status \in {"done", "failed"}) ]_vars

(* Every workflow settles: again and again it has no goroutine, or one that
   waits for a verify session, the only stage without a deadline. *)
WorkflowSettles ==
  []<>(\/ thr = <<>>
       \/ \E t \in DOMAIN thr : thr[t].pc \in {"create", "wait"} /\ ~HasDeadline(t))
====
