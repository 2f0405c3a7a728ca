---------------------------- MODULE OperationsProofs ----------------------------
(***************************************************************************)
(* Theorems about Operations, for any models, runs, lists and bounds.      *)
(***************************************************************************)
EXTENDS Operations, FiniteSetTheorems, TLAPS

(* Where each kind of run can be, and how far in its list.                 *)
RunShape ==
  \A r \in Runs :
    /\ run[r].pc = "idle" <=> run[r].kind = "none"
    /\ run[r].kind = "suite" => run[r].pc = "spawn"
    /\ run[r].kind = "tagging" => run[r].pc # "spawn"
    /\ run[r].kind \in Families =>
         /\ run[r].at =< Len(run[r].targets)
         /\ run[r].pc # "next" => run[r].at < Len(run[r].targets)

(* A model still to be started has no worker from an earlier suite.        *)
WorkIsNew ==
  \A r \in Runs : \A m \in run[r].work : worker[r][m].pc = "none"

(* The record of a run alone in its family follows that run.               *)
FollowsRun(f, r) ==
  /\ progress[f].status = "running"
  /\ RunsOf(f) = {r}
  /\ progress[f].completed = run[r].at
  /\ progress[f].total = Len(run[r].targets)
  /\ progress[f].failed =< run[r].at + (IF run[r].pc = "count" THEN 1 ELSE 0)

OneWriter ==
  \A f \in Families : ~mixed[f] =>
    /\ \A r \in RunsOf(f) : FollowsRun(f, r)
    /\ progress[f].status # "running" =>
         /\ progress[f].completed = progress[f].total
         /\ progress[f].failed =< progress[f].total

SuiteInv == WithinConcurrency /\ WorkersEndFirst /\ WorkIsNew

RecordInv == OneWriter /\ RunningHasRun

IInv == TypeOK /\ RunShape /\ SuiteInv /\ RecordInv

-------------------------------------------------------------------------------
(* The number of workers holding a slot, when one more or one less does.   *)

(* The workers that hold a slot can be counted. *)
LEMMA HoldingFinite ==
  ASSUME NEW r \in Runs
  PROVE  /\ IsFiniteSet(Holding(r))
         /\ Cardinality(Holding(r)) \in Nat
  <1>1. Holding(r) \subseteq Models
    BY DEF Holding
  <1> QED
    BY <1>1, OperationsAssumption, FS_Subset, FS_CardinalityType

(* Actions that touch neither workers nor slots keep what holds of them.   *)
LEMMA SameWorkers ==
  ASSUME WithinConcurrency, UNCHANGED <<slots, worker>>
  PROVE  WithinConcurrency'
  BY DEF WithinConcurrency, Holding

(* A step of a run that has no workers leaves the suites as they are.      *)
LEMMA QuietSuite ==
  ASSUME IInv, TypeOK', NEW r \in Runs, UNCHANGED <<slots, worker>>, Working(r) = {},
         \A q \in Runs \ {r} : run'[q] = run[q]
  PROVE  SuiteInv'
  <1>1. WithinConcurrency'
    BY SameWorkers DEF IInv, SuiteInv
  <1>2. WorkersEndFirst'
    BY DEF IInv, SuiteInv, WorkersEndFirst, Working
  <1>3. WorkIsNew'
    <2> SUFFICES ASSUME NEW q \in Runs, NEW m \in run'[q].work
                 PROVE  worker[q][m].pc = "none"
      BY DEF WorkIsNew
    <2>1. m \in Models
      BY DEF TypeOK, RunState
    <2> QED
      BY <2>1 DEF IInv, SuiteInv, WorkIsNew, Working
  <1> QED
    BY <1>1, <1>2, <1>3 DEF SuiteInv

-------------------------------------------------------------------------------
(* The runs over lists.                                                    *)

(* At the start nothing runs and there is no record. *)
LEMMA InitInv == Init => IInv
  <1> SUFFICES ASSUME Init PROVE IInv
    OBVIOUS
  <1>1. TypeOK
    BY OperationsAssumption DEF Init, TypeOK, NoOperation, NewOperation, NewRun, OperationState, RunState, WorkerState,
              Kinds, IdleRun, NoWorker
  <1>2. RunShape
    BY DEF Init, RunShape, IdleRun, NewRun, Families
  <1>3. WithinConcurrency
    <2> SUFFICES ASSUME NEW r \in Runs
                 PROVE  slots[r] = Cardinality(Holding(r)) /\ Cardinality(Holding(r)) =< Concurrency
      BY DEF WithinConcurrency
    <2>1. Holding(r) = {}
      BY DEF Init, Holding, NoWorker
    <2> QED
      BY <2>1, FS_EmptySet, OperationsAssumption DEF Init
  <1>4. WorkersEndFirst /\ WorkIsNew
    BY DEF Init, WorkersEndFirst, WorkIsNew, Working, NoWorker, IdleRun, NewRun
  <1>5. RecordInv
    BY DEF Init, RecordInv, OneWriter, RunningHasRun, RunsOf, NoOperation, NewOperation, IdleRun, NewRun, Families
  <1> QED
    BY <1>1, <1>2, <1>3, <1>4, <1>5 DEF IInv, SuiteInv

(* A run that begins has a new record, and mixes it if another runs. *)
LEMMA BeginStep ==
  ASSUME IInv, NEW r \in Runs, NEW f \in Families, NEW targets \in Lists,
         Begin(r, f, targets)
  PROVE  IInv'
  <1> DEFINE x == [kind |-> f, pc |-> "next", targets |-> targets, at |-> 0, work |-> {}]
             p == [status |-> "running", total |-> Len(targets), completed |-> 0,
                   failed |-> 0, completedTasks |-> 0, entries |-> 0]
  <1>1. targets \in Seq(Models) /\ Len(targets) \in Nat
    BY OperationsAssumption
  <1>2. run' = [run EXCEPT ![r] = x] /\ progress' = [progress EXCEPT ![f] = p]
    BY DEF Begin, NewRun, NewOperation
  <1>3. p \in OperationState
    BY <1>1, OperationsAssumption DEF OperationState
  <1> HIDE DEF p
  <1>4. TypeOK'
    <2>1. mixed' \in [Families -> BOOLEAN]
      BY DEF IInv, TypeOK, Begin
    <2>2. x \in RunState
      BY <1>1 DEF Kinds, RunState
    <2>3. run' \in [Runs -> RunState]
      BY <1>2, <2>2 DEF IInv, TypeOK
    <2>4. progress' \in [Families -> OperationState]
      BY <1>2, <1>3 DEF IInv, TypeOK
    <2> QED
      BY <2>1, <2>3, <2>4 DEF IInv, TypeOK, Begin
  <1>5. RunShape'
    BY <1>1, <1>2 DEF IInv, TypeOK, RunShape, Families
  <1>6. SuiteInv'
    <2>1. Working(r) = {} /\ UNCHANGED <<slots, worker>>
      BY DEF IInv, SuiteInv, WorkersEndFirst, Begin
    <2>2. \A q \in Runs \ {r} : run'[q] = run[q]
      BY <1>2 DEF IInv, TypeOK
    <2> QED
      BY <1>4, <2>1, <2>2, QuietSuite
  <1>7. RunsOf(f)' = RunsOf(f) \cup {r} /\ r \notin RunsOf(f)
    <2>1. run[r].kind = "none"
      BY DEF IInv, RunShape, Begin
    <2>2. \A q \in Runs : run'[q] = IF q = r THEN x ELSE run[q]
      BY <1>2 DEF IInv, TypeOK
    <2> QED
      BY <2>1, <2>2 DEF RunsOf, Families
  <1>8. ~mixed'[f] => RunsOf(f) = {}
    <2>1. mixed'[f] = \E q \in Runs : run[q].kind = f
      BY DEF IInv, TypeOK, Begin
    <2> QED
      BY <2>1 DEF RunsOf
  <1>9. \A g \in Families \ {f} : /\ progress'[g] = progress[g] /\ mixed'[g] = mixed[g]
                                  /\ RunsOf(g)' = RunsOf(g)
                                  /\ r \notin RunsOf(g)
    <2>1. run[r].kind = "none"
      BY DEF IInv, RunShape, Begin
    <2>2. \A q \in Runs : run'[q] = IF q = r THEN x ELSE run[q]
      BY <1>2 DEF IInv, TypeOK
    <2>3. \A g \in Families \ {f} : progress'[g] = progress[g] /\ mixed'[g] = mixed[g]
      BY <1>2 DEF IInv, TypeOK, Begin
    <2> QED
      BY <2>1, <2>2, <2>3 DEF RunsOf, Families
  <1>10. OneWriter'
    <2> SUFFICES ASSUME NEW g \in Families, ~mixed'[g]
                 PROVE  /\ \A q \in RunsOf(g)' : FollowsRun(g, q)'
                        /\ progress'[g].status # "running" =>
                             /\ progress'[g].completed = progress'[g].total
                             /\ progress'[g].failed =< progress'[g].total
      BY DEF OneWriter
    <2>1. CASE g = f
      <3>1. RunsOf(f)' = {r}
        BY <2>1, <1>7, <1>8
      <3>2. progress'[f] = p
        BY <1>2 DEF IInv, TypeOK
      <3>3. run'[r] = x
        BY <1>2 DEF IInv, TypeOK
      <3> QED
        BY <2>1, <3>1, <3>2, <3>3, <1>1 DEF FollowsRun, p
    <2>2. CASE g # f
      <3>1. \A q \in RunsOf(g) : run'[q] = run[q]
        BY <2>2, <1>2, <1>9 DEF IInv, TypeOK, RunsOf
      <3> QED
        BY <2>2, <3>1, <1>9 DEF IInv, RecordInv, OneWriter, FollowsRun
    <2> QED
      BY <2>1, <2>2
  <1>11. RunningHasRun'
    BY <1>7, <1>9 DEF IInv, RecordInv, RunningHasRun
  <1> QED
    BY <1>4, <1>5, <1>6, <1>10, <1>11 DEF IInv, RecordInv

(* A step of a run over a list that stays one: its family's record changes *)
(* and its own place in the list, and nothing else.                        *)
LEMMA ListStep ==
  ASSUME IInv, TypeOK', NEW r \in Runs, NEW f \in Families,
         UNCHANGED <<slots, worker, mixed>>, Working(r) = {},
         \A q \in Runs \ {r} : run'[q] = run[q],
         \A g \in Families \ {f} : progress'[g] = progress[g],
         run[r].kind = f, run'[r].kind = f, run'[r].targets = run[r].targets,
         run'[r].pc \in {"next", "model", "spawn", "count"},
         f = "tagging" => run'[r].pc # "spawn",
         run'[r].at =< Len(run[r].targets),
         run'[r].pc # "next" => run'[r].at < Len(run[r].targets),
         progress'[f].status = progress[f].status,
         progress'[f].total = progress[f].total,
         ~mixed[f] =>
           /\ progress'[f].completed = run'[r].at
           /\ progress'[f].failed =< run'[r].at + (IF run'[r].pc = "count" THEN 1 ELSE 0)
  PROVE  IInv'
  <1>1. RunShape'
    BY DEF IInv, RunShape, Families
  <1>2. SuiteInv'
    BY QuietSuite
  <1>3. \A g \in Families : RunsOf(g)' = RunsOf(g)
    BY DEF RunsOf
  <1>4. OneWriter'
    <2> SUFFICES ASSUME NEW g \in Families, ~mixed[g]
                 PROVE  /\ \A q \in RunsOf(g) : FollowsRun(g, q)'
                        /\ progress'[g].status # "running" =>
                             /\ progress'[g].completed = progress'[g].total
                             /\ progress'[g].failed =< progress'[g].total
      BY <1>3 DEF OneWriter
    <2>1. CASE g = f
      <3>1. r \in RunsOf(f)
        BY DEF RunsOf
      <3>2. FollowsRun(f, r)
        BY <2>1, <3>1 DEF IInv, RecordInv, OneWriter
      <3>3. RunsOf(f) = {r} /\ progress[f].status = "running"
            /\ progress[f].total = Len(run[r].targets)
        BY <3>2 DEF FollowsRun
      <3>4. FollowsRun(f, r)'
        BY <2>1, <3>3, <1>3 DEF FollowsRun
      <3> QED
        BY <2>1, <3>3, <3>4
    <2>2. CASE g # f
      <3>1. \A q \in RunsOf(g) : run'[q] = run[q]
        BY <2>2 DEF RunsOf
      <3>2. progress'[g] = progress[g]
        BY <2>2
      <3>3. \A q \in RunsOf(g) : FollowsRun(g, q)
        BY DEF IInv, RecordInv, OneWriter
      <3> QED
        BY <3>1, <3>2, <3>3, <1>3 DEF IInv, RecordInv, OneWriter, FollowsRun
    <2> QED
      BY <2>1, <2>2
  <1>5. RunningHasRun'
    BY <1>3 DEF IInv, RecordInv, RunningHasRun
  <1> QED
    BY <1>1, <1>2, <1>4, <1>5 DEF IInv, RecordInv

(* Where a run over a list is, with no workers, and what its record says.  *)
LEMMA ListFacts ==
  ASSUME IInv, NEW r \in Runs, NEW f \in Families, run[r].kind = f
  PROVE  /\ run[r].at \in Nat /\ run[r].targets \in Seq(Models)
         /\ Len(run[r].targets) \in Nat
         /\ run[r].at =< Len(run[r].targets)
         /\ run[r].pc # "next" => run[r].at < Len(run[r].targets)
         /\ run[r].pc # "spawn" => Working(r) = {}
         /\ progress[f] \in OperationState
         /\ ~mixed[f] =>
              /\ progress[f].completed = run[r].at
              /\ progress[f].failed =< run[r].at + (IF run[r].pc = "count" THEN 1 ELSE 0)
  <1>1. run[r].pc # "spawn" => Working(r) = {}
    BY DEF IInv, SuiteInv, WorkersEndFirst
  <1>2. run[r].at \in Nat /\ run[r].targets \in Seq(Models) /\ progress[f] \in OperationState
    BY DEF IInv, TypeOK, RunState
  <1>3. run[r].at =< Len(run[r].targets)
        /\ (run[r].pc # "next" => run[r].at < Len(run[r].targets))
    BY DEF IInv, RunShape
  <1>4. r \in RunsOf(f)
    BY DEF RunsOf
  <1>5. ~mixed[f] => FollowsRun(f, r)
    BY <1>4 DEF IInv, RecordInv, OneWriter
  <1> QED
    BY <1>1, <1>2, <1>3, <1>5 DEF FollowsRun

(* At the next target the record counts as before. *)
LEMMA NextTargetStep ==
  ASSUME IInv, NEW r \in Runs, NEW f \in Families, run[r].kind = f, NextTarget(r)
  PROVE  IInv'
  <1> DEFINE p == OnTarget(f, progress[f])
             x == [run[r] EXCEPT !.pc = "model"]
  <1>1. /\ run[r].pc = "next" /\ run[r].at < Len(run[r].targets)
        /\ progress' = [progress EXCEPT ![f] = p]
        /\ run' = [run EXCEPT ![r] = x]
        /\ UNCHANGED <<slots, worker, mixed>>
    BY DEF NextTarget, IInv, TypeOK
  <1>2. progress[f] \in OperationState /\ run[r] \in RunState
    BY DEF IInv, TypeOK
  <1>3. /\ p \in OperationState /\ p.status = progress[f].status
        /\ p.total = progress[f].total /\ p.completed = progress[f].completed
        /\ p.failed = progress[f].failed
    BY <1>2, OperationsAssumption DEF OnTarget, OperationState
  <1>4. /\ x \in RunState
        /\ x.pc = "model" /\ x.kind = f /\ x.at = run[r].at /\ x.targets = run[r].targets
    BY <1>2 DEF RunState
  <1> HIDE DEF p, x
  <1>5. /\ TypeOK' /\ progress'[f] = p /\ run'[r] = x
        /\ \A q \in Runs \ {r} : run'[q] = run[q]
        /\ \A g \in Families \ {f} : progress'[g] = progress[g]
    BY <1>1, <1>3, <1>4 DEF IInv, TypeOK
  <1>6. /\ Working(r) = {} /\ run[r].at \in Nat /\ Len(run[r].targets) \in Nat
        /\ (~mixed[f] => p.completed = run[r].at /\ p.failed =< run[r].at)
    BY <1>1, <1>3, ListFacts
  <1> QED
    BY <1>1, <1>3, <1>4, <1>5, <1>6, ListStep

(* A target skipped is failed and counted at once. *)
LEMMA SkipTargetStep ==
  ASSUME IInv, NEW r \in Runs, NEW f \in Families, run[r].kind = f, SkipTarget(r)
  PROVE  IInv'
  <1>1. /\ f = "tagging" /\ run[r].pc = "model"
        /\ UNCHANGED <<slots, worker, mixed>>
    BY DEF SkipTarget
  <1>2. progress[f] \in OperationState /\ run[r] \in RunState
    BY DEF IInv, TypeOK
  <1>3. /\ Working(r) = {} /\ run[r].at \in Nat /\ Len(run[r].targets) \in Nat
        /\ run[r].at < Len(run[r].targets)
        /\ ~mixed[f] => progress[f].failed =< run[r].at
    BY <1>1, ListFacts
  <1>4. /\ progress'[f] \in OperationState
        /\ progress'[f].status = progress[f].status /\ progress'[f].total = progress[f].total
        /\ progress'[f].completed = run[r].at + 1
        /\ progress'[f].failed = progress[f].failed + 1
        /\ progress' \in [Families -> OperationState]
        /\ \A g \in Families \ {f} : progress'[g] = progress[g]
    <2> DEFINE p == [status |-> progress[f].status, total |-> progress[f].total,
                     completed |-> run[r].at + 1, failed |-> progress[f].failed + 1,
                     completedTasks |-> progress[f].completedTasks,
                     entries |-> progress[f].entries]
    <2>1. p \in OperationState
      BY <1>2, <1>3 DEF OperationState
    <2>2. /\ progress' = [progress EXCEPT ![f].completed = run[r].at + 1,
                                           ![f].failed = @ + 1]
          /\ progress \in [Families -> OperationState]
      BY <1>1 DEF SkipTarget, IInv, TypeOK
    <2>3. progress'[f] = p
      BY <2>2, <1>2 DEF OperationState
    <2>4. \A g \in Families \ {f} : progress'[g] = progress[g]
      BY <2>2
    <2>5. progress' = [g \in Families |-> progress'[g]]
      BY <2>2
    <2> QED
      BY <2>1, <2>3, <2>4, <2>5 DEF IInv, TypeOK
  <1>5. /\ run'[r].pc = "next" /\ run'[r].at = run[r].at + 1
        /\ run'[r].kind = f /\ run'[r].targets = run[r].targets
        /\ run' \in [Runs -> RunState]
        /\ \A q \in Runs \ {r} : run'[q] = run[q]
    <2> DEFINE x == [kind |-> f, pc |-> "next", targets |-> run[r].targets,
                     at |-> run[r].at + 1, work |-> run[r].work]
    <2>1. /\ run' = [run EXCEPT ![r].pc = "next", ![r].at = @ + 1]
          /\ run \in [Runs -> RunState]
      BY DEF SkipTarget, IInv, TypeOK
    <2>2. run'[r] = x
      BY <2>1, <1>2 DEF RunState
    <2>3. \A q \in Runs \ {r} : run'[q] = run[q]
      BY <2>1
    <2>4. x \in RunState
      BY <1>2, <1>3 DEF RunState
    <2>5. run' = [q \in Runs |-> run'[q]]
      BY DEF SkipTarget, IInv, TypeOK
    <2> QED
      BY <2>2, <2>3, <2>4, <2>5 DEF IInv, TypeOK
  <1>6. TypeOK'
    BY <1>1, <1>4, <1>5 DEF IInv, TypeOK
  <1>7. /\ run'[r].at =< Len(run[r].targets)
        /\ ~mixed[f] =>
             /\ progress'[f].completed = run'[r].at
             /\ progress'[f].failed =< run'[r].at + (IF run'[r].pc = "count" THEN 1 ELSE 0)
    <2>1. progress[f].failed \in Nat
      BY <1>2 DEF OperationState
    <2>2. run'[r].at = run[r].at + 1 /\ run'[r].pc = "next"
      BY <1>5
    <2>3. progress'[f].completed = run[r].at + 1 /\ progress'[f].failed = progress[f].failed + 1
      BY <1>4
    <2> QED
      BY <1>3, <2>1, <2>2, <2>3
  <1>8. run'[r].pc \in {"next", "model", "spawn", "count"} /\ run'[r].pc = "next"
    BY <1>5
  <1>9. /\ run'[r].kind = f /\ run'[r].targets = run[r].targets
        /\ \A q \in Runs \ {r} : run'[q] = run[q]
    BY <1>5
  <1>10. /\ progress'[f].status = progress[f].status /\ progress'[f].total = progress[f].total
         /\ \A g \in Families \ {f} : progress'[g] = progress[g]
    BY <1>4
  <1>11. UNCHANGED <<slots, worker, mixed>> /\ Working(r) = {}
    BY <1>1, <1>3
  <1> QED
    BY <1>6, <1>7, <1>8, <1>9, <1>10, <1>11, ListStep

(* A failed interview is noted before its target is counted. *)
LEMMA InterviewStep ==
  ASSUME IInv, NEW r \in Runs, NEW f \in Families, run[r].kind = f,
         NEW ok \in BOOLEAN, Interview(r, ok)
  PROVE  IInv'
  <1>1. /\ f = "tagging" /\ run[r].pc = "model"
        /\ UNCHANGED <<slots, worker, mixed>>
    BY DEF Interview
  <1>2. progress[f] \in OperationState /\ run[r] \in RunState
    BY DEF IInv, TypeOK
  <1>3. /\ Working(r) = {} /\ run[r].at \in Nat /\ Len(run[r].targets) \in Nat
        /\ run[r].at < Len(run[r].targets)
        /\ ~mixed[f] => progress[f].completed = run[r].at /\ progress[f].failed =< run[r].at
    BY <1>1, ListFacts
  <1>4. /\ progress'[f].status = progress[f].status /\ progress'[f].total = progress[f].total
        /\ progress'[f].completed = progress[f].completed
        /\ progress'[f].failed \in {progress[f].failed, progress[f].failed + 1}
        /\ progress' \in [Families -> OperationState]
        /\ \A g \in Families \ {f} : progress'[g] = progress[g]
    <2>1. CASE ok
      BY <2>1, <1>1 DEF Interview, IInv, TypeOK
    <2>2. CASE ~ok
      <3> DEFINE p == [status |-> progress[f].status, total |-> progress[f].total,
                       completed |-> progress[f].completed,
                       failed |-> progress[f].failed + 1,
                       completedTasks |-> progress[f].completedTasks,
                       entries |-> progress[f].entries]
      <3>1. p \in OperationState
        BY <1>2 DEF OperationState
      <3>2. progress'[f] = p /\ \A g \in Families \ {f} : progress'[g] = progress[g]
        BY <2>2, <1>1, <1>2 DEF Interview, OperationState, IInv, TypeOK
      <3>3. progress' = [g \in Families |-> progress'[g]]
        BY <2>2, <1>1 DEF Interview, IInv, TypeOK
      <3> QED
        BY <3>1, <3>2, <3>3 DEF IInv, TypeOK
    <2> QED
      BY <2>1, <2>2
  <1>5. /\ run'[r].pc = "count" /\ run'[r].at = run[r].at
        /\ run'[r].kind = f /\ run'[r].targets = run[r].targets
        /\ run' \in [Runs -> RunState]
        /\ \A q \in Runs \ {r} : run'[q] = run[q]
    BY <1>2 DEF Interview, RunState, IInv, TypeOK
  <1>6. TypeOK'
    BY <1>1, <1>4, <1>5 DEF IInv, TypeOK
  <1>7. ~mixed[f] => progress'[f].failed =< run'[r].at + 1
    BY <1>2, <1>3, <1>4, <1>5 DEF OperationState
  <1> QED
    BY <1>1, <1>3, <1>4, <1>5, <1>6, <1>7, ListStep

(* A target counted: the record is where the run is in its list. *)
LEMMA CountTargetStep ==
  ASSUME IInv, NEW r \in Runs, NEW f \in Families, run[r].kind = f, CountTarget(r)
  PROVE  IInv'
  <1>1. run[r].pc = "count" /\ UNCHANGED <<slots, worker, mixed>>
    BY DEF CountTarget
  <1>2. progress[f] \in OperationState /\ run[r] \in RunState
    BY DEF IInv, TypeOK
  <1>3. /\ Working(r) = {} /\ run[r].at \in Nat /\ Len(run[r].targets) \in Nat
        /\ run[r].at < Len(run[r].targets)
        /\ ~mixed[f] => progress[f].failed =< run[r].at + 1
    BY <1>1, ListFacts
  <1>4. /\ progress'[f].status = progress[f].status /\ progress'[f].total = progress[f].total
        /\ progress'[f].completed = run[r].at + 1
        /\ progress'[f].failed = progress[f].failed
        /\ progress' \in [Families -> OperationState]
        /\ \A g \in Families \ {f} : progress'[g] = progress[g]
    <2> DEFINE p == [status |-> progress[f].status, total |-> progress[f].total,
                     completed |-> run[r].at + 1, failed |-> progress[f].failed,
                     completedTasks |-> progress[f].completedTasks,
                     entries |-> progress[f].entries]
    <2>1. p \in OperationState
      BY <1>2, <1>3 DEF OperationState
    <2>2. progress'[f] = p /\ \A g \in Families \ {f} : progress'[g] = progress[g]
      BY <1>1, <1>2 DEF CountTarget, OperationState, IInv, TypeOK
    <2>3. progress' = [g \in Families |-> progress'[g]]
      BY <1>1 DEF CountTarget, IInv, TypeOK
    <2> QED
      BY <2>1, <2>2, <2>3 DEF IInv, TypeOK
  <1>5. /\ run'[r].pc = "next" /\ run'[r].at = run[r].at + 1
        /\ run'[r].kind = f /\ run'[r].targets = run[r].targets
        /\ run' \in [Runs -> RunState]
        /\ \A q \in Runs \ {r} : run'[q] = run[q]
    <2> DEFINE x == [kind |-> f, pc |-> "next", targets |-> run[r].targets,
                     at |-> run[r].at + 1, work |-> run[r].work]
    <2>1. /\ run' = [run EXCEPT ![r].pc = "next", ![r].at = @ + 1]
          /\ run \in [Runs -> RunState]
      BY DEF CountTarget, IInv, TypeOK
    <2>2. run'[r] = x
      BY <2>1, <1>2 DEF RunState
    <2>3. \A q \in Runs \ {r} : run'[q] = run[q]
      BY <2>1
    <2>4. x \in RunState
      BY <1>2, <1>3 DEF RunState
    <2>5. run' = [q \in Runs |-> run'[q]]
      BY DEF CountTarget, IInv, TypeOK
    <2> QED
      BY <2>2, <2>3, <2>4, <2>5 DEF IInv, TypeOK
  <1>6. TypeOK'
    BY <1>1, <1>4, <1>5 DEF IInv, TypeOK
  <1> QED
    BY <1>1, <1>3, <1>4, <1>5, <1>6, ListStep

(* The suite for one target starts without workers. *)
LEMMA BeginTargetSuiteStep ==
  ASSUME IInv, NEW r \in Runs, NEW f \in Families, run[r].kind = f,
         NEW enabled \in BOOLEAN, BeginTargetSuite(r, enabled)
  PROVE  IInv'
  <1> DEFINE target == run[r].targets[run[r].at + 1]
             work == IF enabled THEN {target} ELSE {}
  <1>1. /\ f = "benchmark" /\ run[r].pc = "model"
        /\ UNCHANGED <<progress, slots, worker, mixed>>
    BY DEF BeginTargetSuite
  <1>2. run[r] \in RunState
    BY DEF IInv, TypeOK
  <1>3. /\ Working(r) = {} /\ run[r].at \in Nat /\ Len(run[r].targets) \in Nat
        /\ run[r].targets \in Seq(Models)
        /\ run[r].at < Len(run[r].targets)
        /\ ~mixed[f] => progress[f].completed = run[r].at /\ progress[f].failed =< run[r].at
    BY <1>1, ListFacts
  <1>4. target \in Models
    BY <1>3
  <1>5. work \subseteq Models
    BY <1>4
  <1>6. run' = [run EXCEPT ![r].pc = "spawn", ![r].work = work]
    BY DEF BeginTargetSuite
  <1> HIDE DEF work
  <1>7. /\ run'[r].pc = "spawn" /\ run'[r].at = run[r].at
        /\ run'[r].kind = f /\ run'[r].targets = run[r].targets
        /\ run' \in [Runs -> RunState]
        /\ \A q \in Runs \ {r} : run'[q] = run[q]
    BY <1>2, <1>5, <1>6 DEF RunState, IInv, TypeOK
  <1>8. TypeOK'
    BY <1>1, <1>7 DEF IInv, TypeOK
  <1> QED
    BY <1>1, <1>3, <1>7, <1>8, ListStep

(* The suite of a target is over: the run over the list goes on.           *)
LEMMA EndTargetSuiteStep ==
  ASSUME IInv, NEW r \in Runs, NEW f \in Families, run[r].kind = f, EndSuite(r)
  PROVE  IInv'
  <1>1. /\ run[r].pc = "spawn" /\ Working(r) = {}
        /\ UNCHANGED <<progress, slots, worker, mixed>>
    BY DEF EndSuite, AllDone
  <1>2. run[r] \in RunState
    BY DEF IInv, TypeOK
  <1>3. /\ run[r].at \in Nat /\ Len(run[r].targets) \in Nat
        /\ run[r].at < Len(run[r].targets)
        /\ progress[f].failed \in Nat
        /\ ~mixed[f] => progress[f].completed = run[r].at /\ progress[f].failed =< run[r].at
    BY <1>1, ListFacts DEF OperationState
  <1>4. run' = [run EXCEPT ![r] = [run[r] EXCEPT !.pc = "count"]]
    BY DEF EndSuite, Families, IInv, TypeOK
  <1>5. /\ run'[r].pc = "count" /\ run'[r].at = run[r].at
        /\ run'[r].kind = f /\ run'[r].targets = run[r].targets
        /\ run' \in [Runs -> RunState]
        /\ \A q \in Runs \ {r} : run'[q] = run[q]
    BY <1>2, <1>4 DEF RunState, IInv, TypeOK
  <1>6. TypeOK'
    BY <1>1, <1>5 DEF IInv, TypeOK
  <1> QED
    BY <1>1, <1>3, <1>5, <1>6, ListStep

(* A run that ends completes its record, which has counted to the end. *)
LEMMA FinishStep ==
  ASSUME IInv, NEW r \in Runs, NEW f \in Families, run[r].kind = f, Finish(r)
  PROVE  IInv'
  <1> DEFINE p == Completed(progress[f])
  <1>1. /\ run[r].pc = "next" /\ run[r].at >= Len(run[r].targets)
        /\ progress' = [progress EXCEPT ![f] = p]
        /\ run' = [run EXCEPT ![r] = IdleRun]
        /\ UNCHANGED <<slots, worker, mixed>>
    BY DEF Finish
  <1>2. progress[f] \in OperationState
    BY DEF IInv, TypeOK
  <1>3. /\ p \in OperationState /\ p.status = "completed" /\ p.total = progress[f].total
        /\ p.completed = progress[f].completed /\ p.failed = progress[f].failed
    BY <1>2 DEF Completed, OperationState
  <1> HIDE DEF p
  <1>4. IdleRun \in RunState /\ IdleRun.kind = "none" /\ IdleRun.pc = "idle"
    BY DEF IdleRun, NewRun, RunState
  <1>5. /\ TypeOK' /\ progress'[f] = p /\ run'[r] = IdleRun
        /\ \A q \in Runs \ {r} : run'[q] = run[q]
        /\ \A g \in Families \ {f} : progress'[g] = progress[g]
    BY <1>1, <1>3, <1>4 DEF IInv, TypeOK
  <1>6. RunShape'
    BY <1>4, <1>5 DEF IInv, RunShape, Families
  <1>7. SuiteInv'
    BY <1>1, <1>5, QuietSuite DEF IInv, SuiteInv, WorkersEndFirst
  <1>8. RunsOf(f)' = RunsOf(f) \ {r} /\ \A g \in Families \ {f} : RunsOf(g)' = RunsOf(g)
    BY <1>4, <1>5 DEF RunsOf, Families
  <1>9. OneWriter'
    <2> SUFFICES ASSUME NEW g \in Families, ~mixed[g]
                 PROVE  /\ \A q \in RunsOf(g)' : FollowsRun(g, q)'
                        /\ progress'[g].status # "running" =>
                             /\ progress'[g].completed = progress'[g].total
                             /\ progress'[g].failed =< progress'[g].total
      BY <1>1 DEF OneWriter
    <2>1. CASE g = f
      <3>1. FollowsRun(f, r)
        BY <2>1 DEF IInv, RecordInv, OneWriter, RunsOf
      <3>2. RunsOf(f)' = {}
        BY <3>1, <1>8 DEF FollowsRun
      <3>3. run[r].at \in Nat /\ Len(run[r].targets) \in Nat /\ run[r].at =< Len(run[r].targets)
            /\ progress[f].completed = run[r].at /\ progress[f].failed =< run[r].at
        BY <1>1, <2>1, ListFacts
      <3>4. progress[f].total = Len(run[r].targets)
        BY <3>1 DEF FollowsRun
      <3> QED
        BY <2>1, <3>2, <3>3, <3>4, <1>1, <1>3, <1>5
    <2>2. CASE g # f
      <3>1. \A q \in RunsOf(g) : run'[q] = run[q]
        BY <2>2, <1>5 DEF RunsOf
      <3>2. \A q \in RunsOf(g) : FollowsRun(g, q)
        BY DEF IInv, RecordInv, OneWriter
      <3> QED
        BY <2>2, <3>1, <3>2, <1>5, <1>8 DEF IInv, RecordInv, OneWriter, FollowsRun
    <2> QED
      BY <2>1, <2>2
  <1>10. RunningHasRun'
    BY <1>3, <1>5, <1>8 DEF IInv, RecordInv, RunningHasRun
  <1> QED
    BY <1>5, <1>6, <1>7, <1>9, <1>10 DEF IInv, RecordInv

-------------------------------------------------------------------------------
(* The suites.                                                             *)

(* Steps that change no record's run, place or counts keep what is known of *)
(* the records.                                                            *)
LEMMA SameRecords ==
  ASSUME IInv, mixed' = mixed,
         \A g \in Families :
           /\ RunsOf(g)' = RunsOf(g)
           /\ \A q \in RunsOf(g) :
                /\ run'[q].at = run[q].at /\ run'[q].targets = run[q].targets
                /\ run'[q].pc = "count" <=> run[q].pc = "count"
           /\ progress'[g].status = progress[g].status
           /\ progress'[g].total = progress[g].total
           /\ progress'[g].completed = progress[g].completed
           /\ progress'[g].failed = progress[g].failed
  PROVE  RecordInv'
  <1>1. OneWriter'
    <2> SUFFICES ASSUME NEW g \in Families, ~mixed[g]
                 PROVE  /\ \A q \in RunsOf(g) : FollowsRun(g, q)'
                        /\ progress[g].status # "running" =>
                             /\ progress[g].completed = progress[g].total
                             /\ progress[g].failed =< progress[g].total
      BY DEF OneWriter
    <2>1. \A q \in RunsOf(g) : FollowsRun(g, q)
      BY DEF IInv, RecordInv, OneWriter
    <2>2. \A q \in RunsOf(g) : FollowsRun(g, q)'
      BY <2>1 DEF FollowsRun
    <2> QED
      BY <2>2 DEF IInv, RecordInv, OneWriter
  <1>2. RunningHasRun'
    BY DEF IInv, RecordInv, RunningHasRun
  <1> QED
    BY <1>1, <1>2 DEF RecordInv

(* A suite of all models starts without workers and without a record. *)
LEMMA BeginSuiteStep ==
  ASSUME IInv, NEW r \in Runs, NEW work \in SUBSET Models, BeginSuite(r, work)
  PROVE  IInv'
  <1> DEFINE x == NewRun("suite", "spawn", <<>>, work)
  <1>1. /\ run[r].pc = "idle" /\ run' = [run EXCEPT ![r] = x]
        /\ UNCHANGED <<progress, slots, worker, mixed>>
    BY DEF BeginSuite
  <1>2. x \in RunState /\ x.kind = "suite" /\ x.pc = "spawn"
    BY DEF NewRun, RunState, Kinds
  <1> HIDE DEF x
  <1>3. /\ TypeOK' /\ run'[r] = x /\ \A q \in Runs \ {r} : run'[q] = run[q]
    BY <1>1, <1>2 DEF IInv, TypeOK
  <1>4. run[r].kind = "none"
    BY <1>1 DEF IInv, RunShape
  <1>5. RunShape'
    BY <1>2, <1>3 DEF IInv, RunShape, Families
  <1>6. SuiteInv'
    BY <1>1, <1>3, QuietSuite DEF IInv, SuiteInv, WorkersEndFirst
  <1>7. \A g \in Families : r \notin RunsOf(g) /\ RunsOf(g)' = RunsOf(g)
    BY <1>2, <1>3, <1>4 DEF RunsOf, Families
  <1>8. \A g \in Families : \A q \in RunsOf(g) : run'[q] = run[q]
    BY <1>3, <1>7 DEF RunsOf
  <1> QED
    BY <1>1, <1>3, <1>5, <1>6, <1>7, <1>8, SameRecords DEF IInv

(* A suite of all models ends when its workers have. *)
LEMMA EndSuiteStep ==
  ASSUME IInv, NEW r \in Runs, run[r].kind = "suite", EndSuite(r)
  PROVE  IInv'
  <1>1. /\ Working(r) = {} /\ run' = [run EXCEPT ![r] = IdleRun]
        /\ UNCHANGED <<progress, slots, worker, mixed>>
    BY DEF EndSuite, AllDone
  <1>2. IdleRun \in RunState /\ IdleRun.kind = "none" /\ IdleRun.pc = "idle"
    BY DEF IdleRun, NewRun, RunState
  <1>3. /\ TypeOK' /\ run'[r] = IdleRun /\ \A q \in Runs \ {r} : run'[q] = run[q]
    BY <1>1, <1>2 DEF IInv, TypeOK
  <1>4. RunShape'
    BY <1>2, <1>3 DEF IInv, RunShape, Families
  <1>5. SuiteInv'
    BY <1>1, <1>3, QuietSuite
  <1>6. \A g \in Families : r \notin RunsOf(g) /\ RunsOf(g)' = RunsOf(g)
    BY <1>2, <1>3 DEF RunsOf, Families
  <1>7. \A g \in Families : \A q \in RunsOf(g) : run'[q] = run[q]
    BY <1>3, <1>6 DEF RunsOf
  <1> QED
    BY <1>1, <1>3, <1>4, <1>5, <1>6, <1>7, SameRecords DEF IInv

(* A slot is taken for a model that has no worker yet. *)
LEMMA SpawnStep ==
  ASSUME IInv, NEW r \in Runs, NEW m \in Models, Spawn(r, m)
  PROVE  IInv'
  <1> DEFINE w == [pc |-> "running", tasks |-> 0]
  <1>1. /\ run[r].pc = "spawn" /\ m \in run[r].work
        /\ slots[r] < Concurrency /\ slots' = [slots EXCEPT ![r] = @ + 1]
        /\ run' = [run EXCEPT ![r].work = @ \ {m}]
        /\ worker' = [worker EXCEPT ![r][m] = w]
        /\ UNCHANGED <<progress, mixed>>
    BY DEF Spawn, SlotFree
  <1>2. w \in WorkerState /\ w.pc = "running"
    BY OperationsAssumption DEF WorkerState
  <1> HIDE DEF w
  <1>3. /\ worker' \in [Runs -> [Models -> WorkerState]]
        /\ worker'[r][m] = w
        /\ \A n \in Models \ {m} : worker'[r][n] = worker[r][n]
        /\ \A q \in Runs \ {r} : worker'[q] = worker[q]
    BY <1>1, <1>2 DEF IInv, TypeOK
  <1>4. run[r] \in RunState
    BY DEF IInv, TypeOK
  <1>5. /\ run'[r].pc = "spawn" /\ run'[r].kind = run[r].kind /\ run'[r].at = run[r].at
        /\ run'[r].targets = run[r].targets /\ run'[r].work = run[r].work \ {m}
        /\ run' \in [Runs -> RunState]
        /\ \A q \in Runs \ {r} : run'[q] = run[q]
    BY <1>1, <1>4 DEF RunState, IInv, TypeOK
  <1>6. slots' \in [Runs -> 0 .. Concurrency]
    BY <1>1, OperationsAssumption DEF IInv, TypeOK
  <1>7. TypeOK'
    BY <1>1, <1>3, <1>5, <1>6 DEF IInv, TypeOK
  <1>8. RunShape'
    BY <1>1, <1>5 DEF IInv, RunShape
  <1>9. WithinConcurrency'
    <2> SUFFICES ASSUME NEW q \in Runs
                 PROVE  slots'[q] = Cardinality(Holding(q)') /\ slots'[q] =< Concurrency
      BY DEF WithinConcurrency
    <2>1. slots[q] = Cardinality(Holding(q)) /\ slots[q] \in 0 .. Concurrency
      BY DEF IInv, SuiteInv, WithinConcurrency, TypeOK
    <2>2. CASE q = r
      <3>1. worker[r][m].pc = "none"
        BY <1>1 DEF IInv, SuiteInv, WorkIsNew
      <3>2. Holding(r)' = Holding(r) \cup {m} /\ m \notin Holding(r)
        BY <3>1, <1>2, <1>3 DEF Holding
      <3>3. Cardinality(Holding(r)') = Cardinality(Holding(r)) + 1
        BY <3>2, HoldingFinite, FS_AddElement
      <3>4. slots'[r] = slots[r] + 1
        BY <1>1 DEF IInv, TypeOK
      <3> QED
        BY <2>1, <2>2, <3>3, <3>4, <1>1, OperationsAssumption
    <2>3. CASE q # r
      <3>1. Holding(q)' = Holding(q) /\ slots'[q] = slots[q]
        BY <2>3, <1>1, <1>3 DEF Holding, IInv, TypeOK
      <3> QED
        BY <2>1, <3>1, OperationsAssumption
    <2> QED
      BY <2>2, <2>3
  <1>10. WorkersEndFirst'
    BY <1>3, <1>5 DEF IInv, SuiteInv, WorkersEndFirst, Working
  <1>11. WorkIsNew'
    <2> SUFFICES ASSUME NEW q \in Runs, NEW n \in run'[q].work
                 PROVE  worker'[q][n].pc = "none"
      BY DEF WorkIsNew
    <2>1. n \in run[q].work
      BY <1>5
    <2>2. n \in Models /\ worker[q][n].pc = "none"
      BY <2>1 DEF IInv, TypeOK, RunState, SuiteInv, WorkIsNew
    <2> QED
      BY <2>2, <1>3, <1>5
  <1>12. \A q \in Runs : /\ run'[q].kind = run[q].kind /\ run'[q].at = run[q].at
                         /\ run'[q].targets = run[q].targets /\ run'[q].pc = run[q].pc
    BY <1>1, <1>5
  <1>13. RecordInv'
    BY <1>1, <1>12, SameRecords DEF RunsOf
  <1> QED
    BY <1>7, <1>8, <1>9, <1>10, <1>11, <1>13 DEF IInv, SuiteInv

(* A step of the worker for m, after which it still holds its slot or not. *)
LEMMA RunTaskStep ==
  ASSUME IInv, NEW r \in Runs, NEW m \in Models, RunTask(r, m)
  PROVE  IInv'
  <1> DEFINE task == worker[r][m].tasks + 1
  <1>1. /\ worker[r][m].pc = "running" /\ worker[r][m].tasks < NumTasks
        /\ worker' = [worker EXCEPT ![r][m].tasks = task]
        /\ progress' = IF progress["benchmark"].status = "idle" THEN progress
                       ELSE [progress EXCEPT !["benchmark"].completedTasks = task,
                                             !["benchmark"].entries = Cut(@ + 1)]
        /\ UNCHANGED <<run, slots, mixed>>
    BY DEF RunTask
  <1>2. worker[r][m] \in WorkerState /\ task \in 0 .. NumTasks
    BY <1>1, OperationsAssumption DEF IInv, TypeOK, WorkerState
  <1> HIDE DEF task
  <1>3. \A q \in Runs, n \in Models : worker'[q][n].pc = worker[q][n].pc
    BY <1>1, <1>2 DEF IInv, TypeOK, WorkerState
  <1>4. worker' \in [Runs -> [Models -> WorkerState]]
    BY <1>1, <1>2 DEF IInv, TypeOK, WorkerState
  <1>5. /\ progress' \in [Families -> OperationState]
        /\ \A g \in Families : /\ progress'[g].status = progress[g].status
                               /\ progress'[g].total = progress[g].total
                               /\ progress'[g].completed = progress[g].completed
                               /\ progress'[g].failed = progress[g].failed
    <2>1. CASE progress["benchmark"].status = "idle"
      BY <2>1, <1>1 DEF IInv, TypeOK
    <2>2. CASE progress["benchmark"].status # "idle"
      <3> DEFINE b == progress["benchmark"]
                 p == [status |-> b.status, total |-> b.total, completed |-> b.completed,
                       failed |-> b.failed, completedTasks |-> task,
                       entries |-> Cut(b.entries + 1)]
      <3>1. b \in OperationState
        BY DEF IInv, TypeOK, Families
      <3>2. Cut(b.entries + 1) \in 0 .. LogCap
        BY <3>1, OperationsAssumption DEF OperationState, Cut
      <3>3. p \in OperationState
        BY <3>1, <3>2, <1>2 DEF OperationState
      <3>4. progress' = [progress EXCEPT !["benchmark"].completedTasks = task,
                                         !["benchmark"].entries = Cut(@ + 1)]
        BY <2>2, <1>1
      <3>5. progress'["benchmark"] = p
            /\ \A g \in Families \ {"benchmark"} : progress'[g] = progress[g]
        BY <3>1, <3>4 DEF OperationState, IInv, TypeOK, Families
      <3>6. progress' = [g \in Families |-> progress'[g]]
        BY <3>4 DEF IInv, TypeOK
      <3> QED
        BY <3>1, <3>3, <3>5, <3>6 DEF IInv, TypeOK, Families
    <2> QED
      BY <2>1, <2>2
  <1>6. TypeOK'
    BY <1>1, <1>4, <1>5 DEF IInv, TypeOK
  <1>7. RunShape'
    BY <1>1 DEF IInv, RunShape
  <1>8. \A q \in Runs : Holding(q)' = Holding(q) /\ Working(q)' = Working(q)
    BY <1>3 DEF Holding, Working
  <1>9. WithinConcurrency' /\ WorkersEndFirst'
    BY <1>1, <1>8 DEF IInv, SuiteInv, WithinConcurrency, WorkersEndFirst
  <1>10. WorkIsNew'
    BY <1>1, <1>3 DEF IInv, SuiteInv, WorkIsNew, TypeOK, RunState
  <1>11. RecordInv'
    BY <1>1, <1>5, SameRecords DEF RunsOf
  <1> QED
    BY <1>6, <1>7, <1>9, <1>10, <1>11 DEF IInv, SuiteInv

(* The records and the runs stay as they are.                              *)
LEMMA WorkerEnds ==
  ASSUME IInv, UNCHANGED <<progress, run, mixed>>
  PROVE  RunShape' /\ RecordInv'
  <1>1. RunShape'
    BY DEF IInv, RunShape
  <1>2. RecordInv'
    BY SameRecords DEF RunsOf
  <1> QED
    BY <1>1, <1>2

(* A worker that ends gives back the slot it held. *)
LEMMA ReleaseStep ==
  ASSUME IInv, NEW r \in Runs, NEW m \in Models, Release(r, m)
  PROVE  IInv'
  <1>1. /\ worker[r][m].pc = "running"
        /\ worker' = [worker EXCEPT ![r][m].pc = "released"]
        /\ slots' = [slots EXCEPT ![r] = @ - 1]
        /\ UNCHANGED <<progress, run, mixed>>
    BY DEF Release
  <1>2. worker[r][m] \in WorkerState
    BY DEF IInv, TypeOK
  <1>3. /\ worker' \in [Runs -> [Models -> WorkerState]]
        /\ worker'[r][m].pc = "released"
        /\ \A n \in Models \ {m} : worker'[r][n] = worker[r][n]
        /\ \A q \in Runs \ {r} : worker'[q] = worker[q]
    BY <1>1, <1>2 DEF IInv, TypeOK, WorkerState
  <1>4. /\ Holding(r)' = Holding(r) \ {m} /\ m \in Holding(r)
        /\ \A q \in Runs \ {r} : Holding(q)' = Holding(q)
    BY <1>1, <1>3 DEF Holding
  <1>5. /\ IsFiniteSet(Holding(r)) /\ Cardinality(Holding(r)) \in Nat
        /\ Cardinality(Holding(r)') = Cardinality(Holding(r)) - 1
    BY <1>4, HoldingFinite, FS_RemoveElement
  <1>6. Cardinality(Holding(r)) # 0
    BY <1>4, <1>5, FS_EmptySet
  <1>7. slots[r] = Cardinality(Holding(r)) /\ slots[r] \in 0 .. Concurrency
    BY DEF IInv, SuiteInv, WithinConcurrency, TypeOK
  <1>8. slots'[r] = slots[r] - 1 /\ \A q \in Runs \ {r} : slots'[q] = slots[q]
    BY <1>1 DEF IInv, TypeOK
  <1>9. slots' \in [Runs -> 0 .. Concurrency]
    BY <1>1, <1>5, <1>6, <1>7, OperationsAssumption DEF IInv, TypeOK
  <1>10. TypeOK'
    BY <1>1, <1>3, <1>9 DEF IInv, TypeOK
  <1>11. WithinConcurrency'
    <2> SUFFICES ASSUME NEW q \in Runs
                 PROVE  slots'[q] = Cardinality(Holding(q)') /\ slots'[q] =< Concurrency
      BY DEF WithinConcurrency
    <2>1. slots'[q] \in 0 .. Concurrency
      BY <1>9
    <2>2. CASE q = r
      BY <2>1, <2>2, <1>5, <1>7, <1>8, OperationsAssumption
    <2>3. CASE q # r
      BY <2>1, <2>3, <1>4, <1>8, OperationsAssumption DEF IInv, SuiteInv, WithinConcurrency
    <2> QED
      BY <2>2, <2>3
  <1>12. \A q \in Runs : Working(q)' = Working(q)
    BY <1>1, <1>3 DEF Working
  <1>13. WorkersEndFirst'
    BY <1>1, <1>12 DEF IInv, SuiteInv, WorkersEndFirst
  <1>14. WorkIsNew'
    <2> SUFFICES ASSUME NEW q \in Runs, NEW n \in run[q].work
                 PROVE  worker'[q][n].pc = "none"
      BY <1>1 DEF WorkIsNew
    <2>1. n \in Models /\ worker[q][n].pc = "none"
      BY DEF IInv, TypeOK, RunState, SuiteInv, WorkIsNew
    <2> QED
      BY <2>1, <1>1, <1>3
  <1> QED
    BY <1>1, <1>10, <1>11, <1>13, <1>14, WorkerEnds DEF IInv, SuiteInv

(* A worker that is gone held no slot any more. *)
LEMMA DoneStep ==
  ASSUME IInv, NEW r \in Runs, NEW m \in Models, Done(r, m)
  PROVE  IInv'
  <1>1. /\ worker[r][m].pc = "released"
        /\ worker' = [worker EXCEPT ![r][m] = NoWorker]
        /\ UNCHANGED <<progress, run, slots, mixed>>
    BY DEF Done
  <1>2. NoWorker \in WorkerState /\ NoWorker.pc = "none"
    BY OperationsAssumption DEF NoWorker, WorkerState
  <1>3. /\ worker' \in [Runs -> [Models -> WorkerState]]
        /\ worker'[r][m] = NoWorker
        /\ \A n \in Models \ {m} : worker'[r][n] = worker[r][n]
        /\ \A q \in Runs \ {r} : worker'[q] = worker[q]
    BY <1>1, <1>2 DEF IInv, TypeOK
  <1>4. TypeOK'
    BY <1>1, <1>3 DEF IInv, TypeOK
  <1>5. \A q \in Runs : Holding(q)' = Holding(q) /\ Working(q)' \subseteq Working(q)
    BY <1>1, <1>2, <1>3 DEF Holding, Working
  <1>6. WithinConcurrency' /\ WorkersEndFirst'
    BY <1>1, <1>5 DEF IInv, SuiteInv, WithinConcurrency, WorkersEndFirst
  <1>7. WorkIsNew'
    <2> SUFFICES ASSUME NEW q \in Runs, NEW n \in run[q].work
                 PROVE  worker'[q][n].pc = "none"
      BY <1>1 DEF WorkIsNew
    <2>1. n \in Models /\ worker[q][n].pc = "none"
      BY DEF IInv, TypeOK, RunState, SuiteInv, WorkIsNew
    <2> QED
      BY <2>1, <1>2, <1>3
  <1> QED
    BY <1>1, <1>4, <1>6, <1>7, WorkerEnds DEF IInv, SuiteInv

-------------------------------------------------------------------------------
(* All steps together.                                                     *)

(* Every step of the loop of a run keeps the invariant. *)
LEMMA RunStepInv ==
  ASSUME IInv, NEW r \in Runs, RunStep(r)
  PROVE  IInv'
  <1>1. run[r] \in RunState
    BY DEF IInv, TypeOK
  <1>2. CASE run[r].kind \in Families
    BY <1>2, NextTargetStep, SkipTargetStep, InterviewStep, CountTargetStep, FinishStep,
       BeginTargetSuiteStep, SpawnStep, EndTargetSuiteStep DEF RunStep
  <1>3. CASE run[r].kind = "suite"
    <2>1. run[r].pc = "spawn"
      BY <1>3 DEF IInv, RunShape
    <2>2. EndSuite(r) \/ \E m \in Models : Spawn(r, m)
      BY <2>1 DEF RunStep, NextTarget, SkipTarget, Interview, CountTarget, Finish,
                  BeginTargetSuite
    <2> QED
      BY <1>3, <2>2, EndSuiteStep, SpawnStep
  <1>4. CASE run[r].kind = "none"
    <2>1. run[r].pc = "idle"
      BY <1>4 DEF IInv, RunShape
    <2> QED
      BY <2>1 DEF RunStep, NextTarget, SkipTarget, Interview, CountTarget, Finish,
                  BeginTargetSuite, Spawn, EndSuite
  <1> QED
    BY <1>1, <1>2, <1>3, <1>4 DEF RunState, Kinds

(* Every step keeps the invariant. *)
LEMMA NextInv ==
  ASSUME IInv, [Next]_operationVars
  PROVE  IInv'
  <1>1. CASE Next
    <2> PICK r \in Runs :
          \/ \E f \in Families, targets \in Lists : Begin(r, f, targets)
          \/ \E work \in SUBSET Models : BeginSuite(r, work)
          \/ RunStep(r)
          \/ \E m \in Models : WorkerStep(r, m)
      BY <1>1 DEF Next
    <2>1. CASE \E f \in Families, targets \in Lists : Begin(r, f, targets)
      BY <2>1, BeginStep
    <2>2. CASE \E work \in SUBSET Models : BeginSuite(r, work)
      BY <2>2, BeginSuiteStep
    <2>3. CASE RunStep(r)
      BY <2>3, RunStepInv
    <2>4. CASE \E m \in Models : WorkerStep(r, m)
      BY <2>4, RunTaskStep, ReleaseStep, DoneStep DEF WorkerStep
    <2> QED
      BY <2>1, <2>2, <2>3, <2>4
  <1>2. CASE UNCHANGED operationVars
    <2>1. TypeOK' /\ SuiteInv'
      BY <1>2 DEF operationVars, IInv, TypeOK, SuiteInv, WithinConcurrency, WorkersEndFirst,
                  WorkIsNew, Holding, Working
    <2>2. RunShape' /\ RecordInv'
      BY <1>2, WorkerEnds DEF operationVars
    <2> QED
      BY <2>1, <2>2 DEF IInv
  <1> QED
    BY <1>1, <1>2

(* The inductive invariant holds in every behaviour. *)
LEMMA Inductive == Spec => []IInv
  <1>1. Init => IInv
    BY InitInv
  <1>2. IInv /\ [Next]_operationVars => IInv'
    BY NextInv
  <1> QED
    BY <1>1, <1>2, PTL DEF Spec

-------------------------------------------------------------------------------
(* The progress records, runs, slots and workers keep their types: the log *)
(* never outgrows its cap and no slot is given back twice.                 *)
THEOREM TypesKept == Spec => []TypeOK
  <1>1. IInv => TypeOK
    BY DEF IInv
  <1> QED
    BY <1>1, Inductive, PTL

(* No suite works on more models at once than BenchmarkConcurrency allows, *)
(* and its channel holds one value for each (suite.go:109-124).            *)
THEOREM SlotsBound == Spec => []WithinConcurrency
  <1>1. IInv => WithinConcurrency
    BY DEF IInv, SuiteInv
  <1> QED
    BY <1>1, Inductive, PTL

(* A run goes on, counts and ends only without workers left (suite.go:126). *)
THEOREM WorkersGone == Spec => []WorkersEndFirst
  <1>1. IInv => WorkersEndFirst
    BY DEF IInv, SuiteInv
  <1> QED
    BY <1>1, Inductive, PTL

(* The record of a run alone in its family counts that run's targets       *)
(* (models.go:172-249, handlers.go:583-612).                               *)
THEOREM RecordCounts == Spec => []CountsOneRun
  <1>1. ASSUME IInv
        PROVE  CountsOneRun
    <2> SUFFICES ASSUME NEW f \in Families, ~mixed[f]
                 PROVE  /\ progress[f].completed =< progress[f].total
                        /\ progress[f].failed =< progress[f].completed + 1
                        /\ progress[f].status = "completed" =>
                             /\ progress[f].completed = progress[f].total
                             /\ progress[f].failed =< progress[f].total
      BY DEF CountsOneRun
    <2>1. progress[f] \in OperationState
      BY <1>1 DEF IInv, TypeOK
    <2>2. CASE progress[f].status = "running"
      <3>1. PICK r \in Runs : run[r].kind = f
        BY <1>1, <2>2 DEF IInv, RecordInv, RunningHasRun, RunsOf
      <3>2. r \in RunsOf(f)
        BY <3>1 DEF RunsOf
      <3>3. FollowsRun(f, r)
        BY <1>1, <3>2 DEF IInv, RecordInv, OneWriter
      <3>4. /\ run[r].at \in Nat /\ Len(run[r].targets) \in Nat
            /\ run[r].at =< Len(run[r].targets)
        BY <1>1, <3>1, ListFacts
      <3> QED
        BY <2>1, <2>2, <3>3, <3>4 DEF FollowsRun, OperationState
    <2>3. CASE progress[f].status # "running"
      BY <1>1, <2>1, <2>3 DEF IInv, RecordInv, OneWriter, OperationState
    <2> QED
      BY <2>2, <2>3
  <1> QED
    BY <1>1, Inductive, PTL

(* However runs overlap, a record that says "running" has a run under way  *)
(* (models.go:246, handlers.go:609).                                       *)
THEOREM NoStaleRunning == Spec => []RunningHasRun
  <1>1. IInv => RunningHasRun
    BY DEF IInv, RecordInv
  <1> QED
    BY <1>1, Inductive, PTL

-------------------------------------------------------------------------------
(* Why runs end.  RunsEnd rests on fairness and stays with the model       *)
(* checker; what it needs of the steps is proved: none leads a run back,   *)
(* and a run that cannot go on waits for a worker, which always can.       *)

(* Phases a run goes through for each target of its list.                  *)
PhasesLeft(pc) == CASE pc = "next" -> 4 [] pc = "model" -> 3 [] pc = "spawn" -> 2
                    [] pc = "count" -> 1 [] OTHER -> 0

(* From x to y a run comes nearer to its end: it is over, or has counted   *)
(* one target more, or is in a later phase of the same one, or has fewer   *)
(* models to start.                                                        *)
Nearer(x, y) ==
  \/ y.pc = "idle"
  \/ /\ y.kind = x.kind /\ y.targets = x.targets
     /\ \/ y.at = x.at + 1 /\ y.at =< Len(x.targets)
        \/ y.at = x.at /\ PhasesLeft(y.pc) < PhasesLeft(x.pc)
        \/ y.at = x.at /\ y.pc = x.pc /\ y.work # x.work /\ y.work \subseteq x.work

WorkerNearer(v, w) ==
  \/ v.pc = "running" /\ w.pc = "running" /\ v.tasks < w.tasks
  \/ v.pc = "running" /\ w.pc = "released"
  \/ v.pc = "released" /\ w.pc = "none"

(* A step that changes a run brings it nearer to its end, and so for its   *)
(* workers; a worker only starts on a model that still had to be started.  *)
NeverBack ==
  \A r \in Runs :
    /\ run[r].pc # "idle" /\ run'[r] # run[r] => Nearer(run[r], run'[r])
    /\ \A m \in Models : worker'[r][m] # worker[r][m] =>
         \/ worker[r][m].pc = "none" /\ m \in run[r].work \ run'[r].work
         \/ WorkerNearer(worker[r][m], worker'[r][m])

(* Whether the loop of a run has a step: only a suite's loop may have none. *)
LoopCanGoOn(r) ==
  \/ run[r].pc \in {"next", "count"}
  \/ run[r].pc = "model" /\ run[r].kind \in Families
  \/ run[r].pc = "spawn" /\ (AllDone(r) \/ (run[r].work # {} /\ SlotFree(r)))

NobodyStuck ==
  \A r \in Runs : run[r].pc # "idle" /\ ~LoopCanGoOn(r) => Working(r) # {}

(* A step of the loop of one run.                                          *)
LEMMA LoopForward ==
  ASSUME NEW r \in Runs, \A q \in Runs \ {r} : run'[q] = run[q], worker' = worker,
         run[r].pc = "idle" \/ Nearer(run[r], run'[r])
  PROVE  NeverBack
  BY DEF NeverBack

(* A step of one worker.                                                   *)
LEMMA WorkerForward ==
  ASSUME IInv, NEW r \in Runs, NEW m \in Models, NEW w,
         worker' = [worker EXCEPT ![r][m] = w], WorkerNearer(worker[r][m], w), run' = run
  PROVE  NeverBack
  <1>1. \A q \in Runs : \A n \in Models :
          worker'[q][n] = IF q = r /\ n = m THEN w ELSE worker[q][n]
    BY DEF IInv, TypeOK
  <1> QED
    BY <1>1 DEF NeverBack

(* The loop of a run over a list, or of the suite for one target.          *)
LEMMA RunForward ==
  ASSUME IInv, NEW r \in Runs, RunStep(r)
  PROVE  NeverBack
  <1>1. run[r] \in RunState /\ run \in [Runs -> RunState]
    BY DEF IInv, TypeOK
  <1>2. run[r].pc \in {"model", "count"} =>
          run[r].at + 1 =< Len(run[r].targets)
    <2>1. ASSUME run[r].pc \in {"model", "count"}
          PROVE  run[r].kind \in Families
      BY <1>1, <2>1 DEF IInv, RunShape, RunState, Kinds
    <2> QED
      BY <2>1, ListFacts
  <1>3. CASE NextTarget(r)
    <2>1. /\ run[r].pc = "next" /\ worker' = worker /\ \A q \in Runs \ {r} : run'[q] = run[q]
          /\ run'[r] = [run[r] EXCEPT !.pc = "model"]
      BY <1>1, <1>3 DEF NextTarget
    <2>2. Nearer(run[r], run'[r])
      BY <1>1, <2>1 DEF Nearer, PhasesLeft, RunState
    <2> QED
      BY <2>1, <2>2, LoopForward
  <1>4. CASE SkipTarget(r) \/ CountTarget(r)
    <2>1. /\ run[r].pc \in {"model", "count"} /\ worker' = worker
          /\ \A q \in Runs \ {r} : run'[q] = run[q]
          /\ run'[r] = [run[r] EXCEPT !.pc = "next", !.at = @ + 1]
      BY <1>1, <1>4 DEF SkipTarget, CountTarget
    <2>2. Nearer(run[r], run'[r])
      BY <1>1, <1>2, <2>1 DEF Nearer, RunState
    <2> QED
      BY <2>1, <2>2, LoopForward
  <1>5. CASE \E ok \in BOOLEAN : Interview(r, ok)
    <2>1. /\ run[r].pc = "model" /\ worker' = worker /\ \A q \in Runs \ {r} : run'[q] = run[q]
          /\ run'[r] = [run[r] EXCEPT !.pc = "count"]
      BY <1>1, <1>5 DEF Interview
    <2>2. Nearer(run[r], run'[r])
      BY <1>1, <2>1 DEF Nearer, PhasesLeft, RunState
    <2> QED
      BY <2>1, <2>2, LoopForward
  <1>6. CASE Finish(r)
    <2>1. /\ worker' = worker /\ \A q \in Runs \ {r} : run'[q] = run[q]
          /\ run'[r].pc = "idle"
      BY <1>1, <1>6 DEF Finish, IdleRun, NewRun
    <2> QED
      BY <2>1, LoopForward DEF Nearer
  <1>7. CASE \E enabled \in BOOLEAN : BeginTargetSuite(r, enabled)
    <2>1. PICK work :
            /\ run[r].pc = "model" /\ worker' = worker /\ \A q \in Runs \ {r} : run'[q] = run[q]
            /\ run'[r] = [run[r] EXCEPT !.pc = "spawn", !.work = work]
      BY <1>1, <1>7 DEF BeginTargetSuite
    <2>2. Nearer(run[r], run'[r])
      BY <1>1, <2>1 DEF Nearer, PhasesLeft, RunState
    <2> QED
      BY <2>1, <2>2, LoopForward
  <1>8. ASSUME NEW m \in Models, Spawn(r, m)
        PROVE  NeverBack
    <2>1. /\ run[r].pc = "spawn" /\ m \in run[r].work /\ \A q \in Runs \ {r} : run'[q] = run[q]
          /\ run'[r] = [run[r] EXCEPT !.work = @ \ {m}]
      BY <1>1, <1>8 DEF Spawn
    <2>2. /\ run'[r].kind = run[r].kind /\ run'[r].targets = run[r].targets
          /\ run'[r].at = run[r].at /\ run'[r].pc = run[r].pc
          /\ run'[r].work = run[r].work \ {m}
      BY <1>1, <2>1 DEF RunState
    <2>3. Nearer(run[r], run'[r])
      BY <2>1, <2>2 DEF Nearer
    <2>4. worker[r][m].pc = "none"
      BY <2>1 DEF IInv, SuiteInv, WorkIsNew
    <2>5. \A q \in Runs : \A n \in Models :
            q # r \/ n # m => worker'[q][n] = worker[q][n]
      BY <1>8 DEF Spawn, IInv, TypeOK
    <2> QED
      BY <2>1, <2>2, <2>3, <2>4, <2>5 DEF NeverBack
  <1>9. CASE EndSuite(r)
    <2>1. /\ run[r].pc = "spawn" /\ worker' = worker /\ \A q \in Runs \ {r} : run'[q] = run[q]
          /\ run'[r] = IF run[r].kind = "suite" THEN IdleRun ELSE [run[r] EXCEPT !.pc = "count"]
      BY <1>1, <1>9 DEF EndSuite
    <2>2. Nearer(run[r], run'[r])
      BY <1>1, <2>1 DEF Nearer, PhasesLeft, RunState, IdleRun, NewRun
    <2> QED
      BY <2>1, <2>2, LoopForward
  <1> QED
    BY <1>3, <1>4, <1>5, <1>6, <1>7, <1>8, <1>9 DEF RunStep

(* Every step of every run: a run never goes back to a phase or a target   *)
(* it has left, nor starts a model twice, whatever other runs do to the    *)
(* records (models.go:172-249, suite.go:102-130).                          *)
THEOREM RunsOnlyAdvance == Spec => [][NeverBack]_operationVars
  <1>1. ASSUME IInv, Next
        PROVE  NeverBack
    <2> PICK r \in Runs :
          \/ \E f \in Families, targets \in Lists : Begin(r, f, targets)
          \/ \E work \in SUBSET Models : BeginSuite(r, work)
          \/ RunStep(r)
          \/ \E m \in Models : WorkerStep(r, m)
      BY <1>1 DEF Next
    <2>1. CASE \/ \E f \in Families, targets \in Lists : Begin(r, f, targets)
               \/ \E work \in SUBSET Models : BeginSuite(r, work)
      <3>1. /\ run[r].pc = "idle" /\ worker' = worker
            /\ \A q \in Runs \ {r} : run'[q] = run[q]
        BY <1>1, <2>1 DEF Begin, BeginSuite, IInv, TypeOK
      <3> QED
        BY <3>1, LoopForward
    <2>2. CASE RunStep(r)
      BY <1>1, <2>2, RunForward
    <2>3. ASSUME NEW m \in Models, WorkerStep(r, m)
          PROVE  NeverBack
      <3>1. worker[r][m] \in WorkerState
        BY <1>1 DEF IInv, TypeOK
      <3>2. CASE RunTask(r, m)
        <4> DEFINE w == [worker[r][m] EXCEPT !.tasks = @ + 1]
        <4>1. /\ worker' = [worker EXCEPT ![r][m] = w] /\ run' = run
              /\ worker[r][m].pc = "running"
          BY <1>1, <3>2 DEF RunTask, IInv, TypeOK
        <4>2. WorkerNearer(worker[r][m], w)
          BY <3>1, <4>1, OperationsAssumption DEF WorkerNearer, WorkerState
        <4> HIDE DEF w
        <4> QED
          BY <1>1, <4>1, <4>2, WorkerForward
      <3>3. CASE Release(r, m)
        <4> DEFINE w == [worker[r][m] EXCEPT !.pc = "released"]
        <4>1. /\ worker' = [worker EXCEPT ![r][m] = w] /\ run' = run
              /\ worker[r][m].pc = "running"
          BY <1>1, <3>3 DEF Release, IInv, TypeOK
        <4>2. WorkerNearer(worker[r][m], w)
          BY <3>1, <4>1 DEF WorkerNearer, WorkerState
        <4> HIDE DEF w
        <4> QED
          BY <1>1, <4>1, <4>2, WorkerForward
      <3>4. CASE Done(r, m)
        <4>1. /\ worker' = [worker EXCEPT ![r][m] = NoWorker] /\ run' = run
              /\ WorkerNearer(worker[r][m], NoWorker)
          BY <3>4 DEF Done, WorkerNearer, NoWorker
        <4> QED
          BY <1>1, <4>1, WorkerForward
      <3> QED
        BY <2>3, <3>2, <3>3, <3>4 DEF WorkerStep
    <2> QED
      BY <2>1, <2>2, <2>3
  <1>2. ASSUME IInv, [Next]_operationVars
        PROVE  [NeverBack]_operationVars
    BY <1>1, <1>2
  <1> QED
    BY <1>2, Inductive, PTL DEF Spec

(* Nobody waits for nothing: a suite's loop without a free slot, or with   *)
(* nothing left to start, has a worker that runs a task or ends            *)
(* (suite.go:109-126).                                                     *)
THEOREM WaitsForWorker == Spec => []NobodyStuck
  <1>1. ASSUME IInv
        PROVE  NobodyStuck
    <2> SUFFICES ASSUME NEW r \in Runs, run[r].pc # "idle", ~LoopCanGoOn(r), Working(r) = {}
                 PROVE  FALSE
      BY DEF NobodyStuck
    <2>1. run[r] \in RunState
      BY <1>1 DEF IInv, TypeOK
    <2>2. run[r].pc = "spawn"
      BY <1>1, <2>1 DEF LoopCanGoOn, RunState, IInv, RunShape, Kinds
    <2>3. Holding(r) = {} /\ slots[r] = 0
      <3>1. Holding(r) = {}
        BY DEF Holding, Working
      <3> QED
        BY <1>1, <3>1, FS_EmptySet DEF IInv, SuiteInv, WithinConcurrency
    <2>4. SlotFree(r)
      BY <2>3, OperationsAssumption DEF SlotFree
    <2> QED
      BY <2>2, <2>4 DEF LoopCanGoOn, AllDone
  <1> QED
    BY <1>1, Inductive, PTL
================================================================================
