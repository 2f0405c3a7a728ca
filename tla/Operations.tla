------------------------------- MODULE Operations -------------------------------
(***************************************************************************)
(* The long operations an admin starts and then watches: tagging runs and  *)
(* benchmark runs.  Each is a goroutine that goes through a list of models *)
(* and notes how far it is in a progress record the console polls.  There  *)
(* is one record of each family, and a run that starts replaces it while   *)
(* an earlier one may still be writing to it.  A benchmark run of a whole  *)
(* suite works on several models at once, at most Concurrency of them; a   *)
(* suite started by a query or by the scheduler has no record of its own.  *)
(* What these runs do to the models is in ModelRegistry.                   *)
(***************************************************************************)
EXTENDS Integers, Sequences, FiniteSets

CONSTANTS Models,      (* model names                                        *)
          Runs,        (* goroutines that run operations, one at a time each *)
          NumTasks,    (* tasks of the benchmark suite                       *)
          Concurrency, (* BenchmarkConcurrency, or 3 when that is not positive *)
          LogCap,      (* entries LogEntries keeps, 50 in the code           *)
          Lists        (* the lists of models admins ask for                 *)

ASSUME OperationsAssumption ==
  /\ IsFiniteSet(Models)
  /\ NumTasks \in Nat \ {0}
  /\ Concurrency \in Nat \ {0}
  /\ LogCap \in Nat
  /\ Lists \subseteq Seq(Models) \ {<<>>}

VARIABLES progress, (* tagOperation and benchmarkOperation                   *)
          run,      (* run[r]: what goroutine r is doing                     *)
          slots,    (* slots[r]: values in the channel sem of r's suite      *)
          worker,   (* worker[r][m]: the goroutine of r's suite for model m  *)
          mixed     (* history: the record replaced that of a run under way  *)

operationVars == <<progress, run, slots, worker, mixed>>

Families == {"tagging", "benchmark"}

(* A run over a list of models has a record, one of the whole suite none.  *)
Kinds == Families \cup {"suite"}

OperationState == [status : {"idle", "running", "completed"},
                   total : Nat, completed : Nat,
                   failed : Nat, completedTasks : 0 .. NumTasks, entries : 0 .. LogCap]

NewOperation(total) == [status |-> "running", total |-> total, completed |-> 0,
                        failed |-> 0, completedTasks |-> 0, entries |-> 0]

(* No record yet: the status handlers answer "idle".                        *)
NoOperation == [NewOperation(0) EXCEPT !.status = "idle"]

NewRun(kind, pc, targets, work) ==
  [kind |-> kind, pc |-> pc, targets |-> targets, at |-> 0, work |-> work]

IdleRun == NewRun("none", "idle", <<>>, {})

NoWorker == [pc |-> "none", tasks |-> 0]

RunState == [kind : Kinds \cup {"none"}, pc : {"idle", "next", "model", "spawn", "count"},
             targets : Seq(Models), at : Nat, work : SUBSET Models]

WorkerState == [pc : {"none", "running", "released"}, tasks : 0 .. NumTasks]

TypeOK ==
  /\ progress \in [Families -> OperationState]
  /\ run \in [Runs -> RunState]
  /\ slots \in [Runs -> 0 .. Concurrency]
  /\ worker \in [Runs -> [Models -> WorkerState]]
  /\ mixed \in [Families -> BOOLEAN]

Init ==
  /\ progress = [f \in Families |-> NoOperation]
  /\ run = [r \in Runs |-> IdleRun]
  /\ slots = [r \in Runs |-> 0]
  /\ worker = [r \in Runs |-> [m \in Models |-> NoWorker]]
  /\ mixed = [f \in Families |-> FALSE]

-------------------------------------------------------------------------------
(* Runs over a list.                                                       *)

(* The goroutine's first critical section: a new record.                   *)
Begin(r, f, targets) ==
  /\ run[r].pc = "idle"
  /\ progress' = [progress EXCEPT ![f] = NewOperation(Len(targets))]
  /\ run' = [run EXCEPT ![r] = NewRun(f, "next", targets, {})]
  /\ mixed' = [mixed EXCEPT ![f] = \E q \in Runs : run[q].kind = f]
  /\ UNCHANGED <<slots, worker>>

(* The record the run writes to is whichever is in place now.              *)
OnTarget(f, p) == IF f = "tagging" THEN p ELSE [p EXCEPT !.completedTasks = 0]

NextTarget(r) ==
  LET f == run[r].kind IN
  /\ run[r].pc = "next"
  /\ run[r].at < Len(run[r].targets)
  /\ progress' = [progress EXCEPT ![f] = OnTarget(f, @)]
  /\ run' = [run EXCEPT ![r].pc = "model"]
  /\ UNCHANGED <<slots, worker, mixed>>

(* Wrong variant: the loop does not continue with the next target.         *)
SkipWithoutContinue(r) ==
  /\ run[r].kind = "tagging"
  /\ run[r].pc = "model"
  /\ progress' = [progress EXCEPT !["tagging"].completed = run[r].at + 1,
                                  !["tagging"].failed = @ + 1]
  /\ UNCHANGED <<run, slots, worker, mixed>>

(* The model's provider is not configured: failed and counted at once.     *)
SkipTarget(r) ==
  /\ run[r].kind = "tagging"
  /\ run[r].pc = "model"
  /\ progress' = [progress EXCEPT !["tagging"].completed = run[r].at + 1,
                                  !["tagging"].failed = @ + 1]
  /\ run' = [run EXCEPT ![r].pc = "next", ![r].at = @ + 1]
  /\ UNCHANGED <<slots, worker, mixed>>

(* The interview is over; its result is saved, or the model deleted, before *)
(* it is counted.  An error is noted first, and the tags are saved empty.  *)
Interview(r, ok) ==
  /\ run[r].kind = "tagging"
  /\ run[r].pc = "model"
  /\ progress' = IF ok THEN progress
                 ELSE [progress EXCEPT !["tagging"].failed = @ + 1]
  /\ run' = [run EXCEPT ![r].pc = "count"]
  /\ UNCHANGED <<slots, worker, mixed>>

CountTarget(r) ==
  /\ run[r].pc = "count"
  /\ progress' = [progress EXCEPT ![run[r].kind].completed = run[r].at + 1]
  /\ run' = [run EXCEPT ![r].pc = "next", ![r].at = @ + 1]
  /\ UNCHANGED <<slots, worker, mixed>>

(* Wrong variant: a run that ends leaves the record as it is.              *)
LeaveRunning(p) == p

Completed(p) == [p EXCEPT !.status = "completed"]

Finish(r) ==
  /\ run[r].pc = "next"
  /\ run[r].at >= Len(run[r].targets)
  /\ progress' = [progress EXCEPT ![run[r].kind] = Completed(@)]
  /\ run' = [run EXCEPT ![r] = IdleRun]
  /\ UNCHANGED <<slots, worker, mixed>>

-------------------------------------------------------------------------------
(* The benchmark suite, for each model of a list in turn or for all of the *)
(* enabled models at once: a query of an admin, or a tick of the scheduler. *)

BeginSuite(r, work) ==
  /\ run[r].pc = "idle"
  /\ work # {}
  /\ run' = [run EXCEPT ![r] = NewRun("suite", "spawn", <<>>, work)]
  /\ UNCHANGED <<progress, slots, worker, mixed>>

(* Of the enabled models the filter leaves the target, or nothing.         *)
BeginTargetSuite(r, enabled) ==
  LET target == run[r].targets[run[r].at + 1] IN
  /\ run[r].kind = "benchmark"
  /\ run[r].pc = "model"
  /\ run' = [run EXCEPT ![r].pc = "spawn",
                        ![r].work = IF enabled THEN {target} ELSE {}]
  /\ UNCHANGED <<progress, slots, worker, mixed>>

(* Wrong variant: the slot is taken by the new goroutine, not before it.   *)
NoSlotNeeded(r) == TRUE

SlotFree(r) == slots[r] < Concurrency

(* The loop over the work: a slot first, then the goroutine.               *)
Spawn(r, m) ==
  /\ run[r].pc = "spawn"
  /\ m \in run[r].work
  /\ SlotFree(r)
  /\ slots' = [slots EXCEPT ![r] = @ + 1]
  /\ run' = [run EXCEPT ![r].work = @ \ {m}]
  /\ worker' = [worker EXCEPT ![r][m] = [pc |-> "running", tasks |-> 0]]
  /\ UNCHANGED <<progress, mixed>>

Working(r) == {m \in Models : worker[r][m].pc # "none"}

(* Wrong variant: Run returns once every goroutine has been started.       *)
AllStarted(r) == run[r].work = {}

(* The loop is over and wg.Wait returns.                                   *)
AllDone(r) == run[r].work = {} /\ Working(r) = {}

EndSuite(r) ==
  /\ run[r].pc = "spawn"
  /\ AllDone(r)
  /\ run' = [run EXCEPT ![r] = IF @.kind = "suite" THEN IdleRun
                               ELSE [@ EXCEPT !.pc = "count"]]
  /\ UNCHANGED <<progress, slots, worker, mixed>>

(* Wrong variant: the log is cut when it is longer than one more.          *)
CutTooLate(n) == IF n > LogCap + 1 THEN LogCap ELSE n

Cut(n) == IF n > LogCap THEN LogCap ELSE n

(* A worker runs the tasks one after the other; OnProgress writes to the   *)
(* record in place, if there is one, whoever made it.                      *)
RunTask(r, m) ==
  LET task == worker[r][m].tasks + 1 IN
  /\ worker[r][m].pc = "running"
  /\ worker[r][m].tasks < NumTasks
  /\ worker' = [worker EXCEPT ![r][m].tasks = task]
  /\ progress' = IF progress["benchmark"].status = "idle" THEN progress
                 ELSE [progress EXCEPT !["benchmark"].completedTasks = task,
                                       !["benchmark"].entries = Cut(@ + 1)]
  /\ UNCHANGED <<run, slots, mixed>>

(* Wrong variant: the slot is not given back.                              *)
SlotKept(r, m) ==
  /\ worker[r][m].pc = "running"
  /\ worker[r][m].tasks = NumTasks
  /\ worker' = [worker EXCEPT ![r][m].pc = "released"]
  /\ UNCHANGED <<progress, run, slots, mixed>>

(* The results are saved; of the deferred calls the slot comes first ...   *)
Release(r, m) ==
  /\ worker[r][m].pc = "running"
  /\ worker[r][m].tasks = NumTasks
  /\ worker' = [worker EXCEPT ![r][m].pc = "released"]
  /\ slots' = [slots EXCEPT ![r] = @ - 1]
  /\ UNCHANGED <<progress, run, mixed>>

(* ... and wg.Done last.                                                   *)
Done(r, m) ==
  /\ worker[r][m].pc = "released"
  /\ worker' = [worker EXCEPT ![r][m] = NoWorker]
  /\ UNCHANGED <<progress, run, slots, mixed>>

-------------------------------------------------------------------------------
RunStep(r) ==
  \/ NextTarget(r)
  \/ SkipTarget(r)
  \/ \E ok \in BOOLEAN : Interview(r, ok)
  \/ CountTarget(r)
  \/ Finish(r)
  \/ \E enabled \in BOOLEAN : BeginTargetSuite(r, enabled)
  \/ \E m \in Models : Spawn(r, m)
  \/ EndSuite(r)

WorkerStep(r, m) == RunTask(r, m) \/ Release(r, m) \/ Done(r, m)

Next == \E r \in Runs :
  \/ \E f \in Families, targets \in Lists : Begin(r, f, targets)
  \/ \E work \in SUBSET Models : BeginSuite(r, work)
  \/ RunStep(r)
  \/ \E m \in Models : WorkerStep(r, m)

(* A goroutine that can go on does: every call to a model ends by the      *)
(* timeout of its provider.  Nobody has to start anything.                 *)
Fairness == \A r \in Runs : /\ WF_operationVars(RunStep(r))
                            /\ \A m \in Models : WF_operationVars(WorkerStep(r, m))

Spec == Init /\ [][Next]_operationVars

FairSpec == Spec /\ Fairness

-------------------------------------------------------------------------------
RunsOf(f) == {r \in Runs : run[r].kind = f}

Holding(r) == {m \in Models : worker[r][m].pc = "running"}

(* A suite never benchmarks more models at once than it is configured to,  *)
(* and the channel counts exactly those (suite.go:109-124).                *)
WithinConcurrency ==
  \A r \in Runs : /\ slots[r] = Cardinality(Holding(r))
                  /\ Cardinality(Holding(r)) =< Concurrency

(* A target is counted, the scores reloaded and the run ended only when no *)
(* goroutine of its suite is left (suite.go:126).                          *)
WorkersEndFirst ==
  \A r \in Runs : run[r].pc # "spawn" => Working(r) = {}

(* The record of a run that had its family to itself tells its progress:   *)
(* it is completed when everything is counted, and every failed model is   *)
(* one of those it went through (models.go:172-249, handlers.go:583-612).  *)
CountsOneRun ==
  \A f \in Families : LET p == progress[f] IN
    ~mixed[f] =>
      /\ p.completed =< p.total
      /\ p.failed =< p.completed + 1
      /\ p.status = "completed" => p.completed = p.total /\ p.failed =< p.total

(* However runs overlap, nobody is left polling a record that says         *)
(* "running" when nothing runs (models.go:246, handlers.go:609).           *)
RunningHasRun ==
  \A f \in Families : progress[f].status = "running" => RunsOf(f) # {}

(* Every run ends: no goroutine waits for a slot or for the others for     *)
(* ever (suite.go:109-126).                                                *)
RunsEnd == \A r \in Runs : run[r].pc # "idle" ~> run[r].pc = "idle"
================================================================================
