----------------------------- MODULE ModelRegistry -----------------------------
(***************************************************************************)
(* The models the router knows: the rows of the models table, keyed by     *)
(* name and source, and the in-memory collection, keyed by name only, that *)
(* requests read.  Admin handlers change the database first and the        *)
(* collection next, background operations work on the database row by row  *)
(* and then replace the collection by what they read back; nothing makes   *)
(* one of them wait for another.  Every statement (or transaction) on the  *)
(* database and every critical section of modelMutex is one action.        *)
(***************************************************************************)
EXTENDS Integers, FiniteSets

CONSTANTS Names,     (* model names                                         *)
          Sources,   (* provider names                                      *)
          NoSource,  (* the source of no entry                              *)
          Reasoners, (* names IsReasoningModel recognises                   *)
          Ops,       (* goroutines that run registry operations             *)
          Kinds,     (* the operations they run, a subset of AllKinds       *)
          Faults     (* whether reading the models back may fail            *)

AdminKinds == {"enable", "disable", "reason", "unreason", "reset", "delete"}

AllKinds == AdminKinds \cup {"discover", "tag", "update", "benchmark"}

ASSUME RegistryAssumption ==
  /\ NoSource \notin Sources
  /\ Reasoners \subseteq Names
  /\ Kinds \subseteq AllKinds
  /\ Faults \in BOOLEAN

VARIABLES table,     (* models: table[<<name, source>>] is a row or NoRow    *)
          scores,    (* benchmark_results: the keys that have results       *)
          decisions, (* routing_decisions: rows [selected, provider, used]  *)
          memory,    (* modelCollection: memory[name] is an entry or Missing *)
          op,        (* op[o]: what goroutine o is doing                    *)
          gone,      (* history: keys an admin has deleted, and nobody has  *)
                     (* listed or asked to be tagged since                  *)
          chosen     (* history: names an admin has enabled, ever           *)

rows == <<table, scores, decisions>>
registryVars == <<table, scores, decisions, memory, op, gone, chosen>>

Keys == Names \X Sources

(* Tags matter as useful (some strength, hasUsefulTags) or empty.           *)
Row == [tags : {"useful", "empty"}, enabled : BOOLEAN, reasoning : BOOLEAN]

NoRow == [tags |-> "absent", enabled |-> FALSE, reasoning |-> FALSE]

Entry(r, s) == [source |-> s, tags |-> r.tags, enabled |-> r.enabled,
                reasoning |-> r.reasoning]

Missing == Entry(NoRow, NoSource)

(* Wrong variant: enabled models are disabled whatever their tags.         *)
AnyEnabled(e) == e.enabled

(* A model the router cannot judge: enabled, and without useful tags.      *)
Unusable(e) == e.enabled /\ e.tags # "useful"

Entries == {Entry(r, s) : r \in Row, s \in Sources} \cup {Missing}

Nothing == [n \in Names |-> Missing]

IdleOp == [kind |-> "none", pc |-> "idle", left |-> {}, todo |-> {}, got |-> Nothing]

TypeOK ==
  /\ table \in [Keys -> Row \cup {NoRow}]
  /\ scores \subseteq Keys
  /\ memory \in [Names -> Entries]
  /\ op \in [Ops -> [kind : Kinds \cup {"none"},
                     pc : {"idle", "apply", "working", "merged", "cleaning", "install"},
                     left : SUBSET Sources, todo : SUBSET Keys,
                     got : [Names -> Entries]]]
  /\ gone \subseteq Keys
  /\ chosen \subseteq Names

-------------------------------------------------------------------------------
(* GetAllModels returns a map keyed by name: of several rows with the same *)
(* name one, in the order of the query's rows, overwrites the others.      *)

SourcesOf(n) == {s \in Sources : table[<<n, s>>] # NoRow}

Selections == {f \in [Names -> Sources \cup {NoSource}] :
                 \A n \in Names : IF SourcesOf(n) = {} THEN f[n] = NoSource
                                  ELSE f[n] \in SourcesOf(n)}

GetAllModels(f) == [n \in Names |-> IF f[n] = NoSource THEN Missing
                                    ELSE Entry(table[<<n, f[n]>>], f[n])]

(* The database holds what earlier runs left, in which an admin has enabled *)
(* the enabled models without useful tags; the server has loaded it.       *)
Init ==
  /\ table \in [Keys -> Row \cup {NoRow}]
  /\ scores = {}
  /\ decisions = {}
  /\ \E f \in Selections : memory = GetAllModels(f)
  /\ op = [o \in Ops |-> IdleOp]
  /\ gone = {}
  /\ chosen = {n \in Names : \E s \in Sources : Unusable(table[<<n, s>>])}

-------------------------------------------------------------------------------
(* Admin handlers: enable, disable, reasoning on or off, reset, delete.    *)
(* First one statement or transaction on the row of the given key ...      *)

Edited(kind, r) ==
  CASE kind = "enable"   -> [r EXCEPT !.enabled = TRUE]
    [] kind = "disable"  -> [r EXCEPT !.enabled = FALSE]
    [] kind = "reason"   -> [r EXCEPT !.reasoning = TRUE]
    [] kind = "unreason" -> [r EXCEPT !.reasoning = FALSE]
    [] kind = "reset"    -> [r EXCEPT !.enabled = FALSE, !.tags = "empty"]

UpdatedRow(kind, r) == IF kind = "delete" \/ r = NoRow THEN NoRow ELSE Edited(kind, r)

(* Wrong variant: only a reset clears benchmark results and analytics.     *)
OnlyResetClears(kind) == kind = "reset"

ClearsHistory(kind) == kind \in {"reset", "delete"}

AdminWrite(o, kind, k) ==
  /\ op[o].pc = "idle"
  /\ table' = [table EXCEPT ![k] = UpdatedRow(kind, @)]
  /\ scores' = IF ClearsHistory(kind) THEN scores \ {k} ELSE scores
  /\ decisions' = IF ClearsHistory(kind)
                  THEN {d \in decisions : <<d.selected, d.provider>> # k} ELSE decisions
  /\ op' = [op EXCEPT ![o] = [IdleOp EXCEPT !.kind = kind, !.pc = "apply", !.todo = {k}]]
  /\ gone' = IF kind = "delete" THEN gone \cup {k} ELSE gone
  /\ chosen' = IF kind = "enable" THEN chosen \cup {k[1]} ELSE chosen
  /\ UNCHANGED memory

(* Wrong variant: the deleted model stays in memory.                       *)
EditedEntryKept(kind, e) == IF kind = "delete" \/ e = Missing THEN e ELSE Edited(kind, e)

EditedEntry(kind, e) == IF kind = "delete" \/ e = Missing THEN Missing ELSE Edited(kind, e)

(* ... then, under modelMutex, the entry of that NAME, whatever its source. *)
AdminApply(o, k) ==
  /\ op[o].pc = "apply"
  /\ k \in op[o].todo
  /\ memory' = [memory EXCEPT ![k[1]] = EditedEntry(op[o].kind, @)]
  /\ op' = [op EXCEPT ![o] = IdleOp]
  /\ UNCHANGED <<rows, gone, chosen>>

-------------------------------------------------------------------------------
(* Background operations begin: discovery and the full update on all       *)
(* enabled providers, tagging on the given targets, a benchmark run on the *)
(* enabled models in memory, all or the one a filter names.                *)

Begin(o, kind, left, todo) ==
  /\ op[o].pc = "idle"
  /\ op' = [op EXCEPT ![o] = [IdleOp EXCEPT !.kind = kind, !.pc = "working",
                                            !.left = left, !.todo = todo]]
  /\ gone' = gone \ (IF kind = "tag" THEN todo ELSE {})
  /\ UNCHANGED <<rows, memory, chosen>>

(* Wrong variant: every name is benchmarked, in memory or not.             *)
AllTargets == {<<n, memory[n].source>> : n \in Names}

EnabledTargets == {<<n, memory[n].source>> : n \in {m \in Names : memory[m].enabled}}

BeginBenchmark(o) ==
  /\ EnabledTargets # {}
  /\ \E todo \in {EnabledTargets} \cup {{k} : k \in EnabledTargets} \cup {{}} :
       Begin(o, "benchmark", {}, todo)

(* A provider lists its models; discovery asks one provider after another, *)
(* the update asks all of them in goroutines of their own.                 *)
ListModels(o, s, names) ==
  /\ op[o].pc = "working"
  /\ s \in op[o].left
  /\ op[o].kind = "discover" => op[o].todo = {}
  /\ op' = [op EXCEPT ![o].left = @ \ {s}, ![o].todo = @ \cup (names \X {s})]
  /\ gone' = gone \ (names \X {s})
  /\ UNCHANGED <<rows, memory, chosen>>

Done(o, k) == [op EXCEPT ![o].todo = @ \ {k}]

(* A key is passed over: its statement failed, its provider is unknown.    *)
Skip(o, k) ==
  /\ op[o].pc \in {"working", "cleaning"}
  /\ k \in op[o].todo
  /\ op' = Done(o, k)
  /\ UNCHANGED <<rows, memory, gone, chosen>>

(* RegisterDiscoveredModel: a row that is there is left alone.             *)
Register(o, k) ==
  /\ op[o].pc = "working" /\ op[o].kind = "discover"
  /\ k \in op[o].todo
  /\ table' = [table EXCEPT ![k] = IF @ # NoRow THEN @
                 ELSE [tags |-> "empty", enabled |-> FALSE, reasoning |-> FALSE]]
  /\ op' = Done(o, k)
  /\ UNCHANGED <<scores, decisions, memory, gone, chosen>>

(* What a capability interview leads to: the model is no chat model and    *)
(* its row goes (DeleteModel), or it is saved (SaveModel, an upsert):      *)
(* enabled if it named strengths and is not to be disabled.                *)
SavedRow(n, tags, enabled) == [tags |-> tags, enabled |-> enabled,
                               reasoning |-> n \in Reasoners]

(* Wrong variant: whatever is not to be disabled is enabled.               *)
OutcomesUntested(n) == {NoRow} \cup {SavedRow(n, t, e) : t \in {"useful", "empty"}, e \in BOOLEAN}

Outcomes(n) ==
  {NoRow, SavedRow(n, "useful", TRUE), SavedRow(n, "useful", FALSE), SavedRow(n, "empty", FALSE)}

Tag(o, k, r) ==
  /\ op[o].pc = "working" /\ op[o].kind \in {"tag", "update"}
  /\ k \in op[o].todo
  /\ r \in Outcomes(k[1])
  /\ table' = [table EXCEPT ![k] = r]
  /\ \/ /\ op[o].kind = "update" /\ r # NoRow
        /\ op' = [Done(o, k) EXCEPT ![o].got[k[1]] = Entry(r, k[2])]
     \/ (op[o].kind = "tag" \/ r = NoRow) /\ op' = Done(o, k)
  /\ UNCHANGED <<scores, decisions, memory, gone, chosen>>

(* The results of a benchmark run against k are saved.                     *)
Score(o, k) ==
  /\ op[o].pc = "working" /\ op[o].kind = "benchmark"
  /\ k \in op[o].todo
  /\ scores' = scores \cup {k}
  /\ op' = Done(o, k)
  /\ UNCHANGED <<table, decisions, memory, gone, chosen>>

WorkDone(o, pc) == op[o].pc = pc /\ op[o].left = {} /\ op[o].todo = {}

-------------------------------------------------------------------------------
(* The full update adds what it saved to memory, then reads the models and *)
(* disables the enabled ones without useful tags (disableEmptyTagModels).  *)
Merge(o) ==
  /\ WorkDone(o, "working") /\ op[o].kind = "update"
  /\ memory' = [n \in Names |-> IF op[o].got[n] # Missing THEN op[o].got[n] ELSE memory[n]]
  /\ op' = [op EXCEPT ![o].pc = "merged", ![o].got = Nothing]
  /\ UNCHANGED <<rows, gone, chosen>>

FindUntagged(o, f) ==
  /\ op[o].pc = "merged"
  /\ f \in Selections
  /\ op' = [op EXCEPT ![o].pc = "cleaning",
                      ![o].todo = {<<n, f[n]>> : n \in {m \in Names : Unusable(GetAllModels(f)[m])}}]
  /\ UNCHANGED <<rows, memory, gone, chosen>>

DisableUntagged(o, k) ==
  /\ op[o].pc = "cleaning"
  /\ k \in op[o].todo
  /\ table' = [table EXCEPT ![k] = UpdatedRow("disable", @)]
  /\ op' = Done(o, k)
  /\ UNCHANGED <<scores, decisions, memory, gone, chosen>>

(* loadModelsFromDatabase ends every background operation: the rows are    *)
(* read first, the collection is replaced in a later critical section.     *)
ReadyToLoad(o) == \/ WorkDone(o, "working") /\ op[o].kind # "update"
                  \/ WorkDone(o, "cleaning")

Load(o, f) ==
  /\ ReadyToLoad(o)
  /\ f \in Selections
  /\ op' = [op EXCEPT ![o].pc = "install", ![o].got = GetAllModels(f)]
  /\ UNCHANGED <<rows, memory, gone, chosen>>

LoadFails(o) ==
  /\ Faults
  /\ ReadyToLoad(o)
  /\ op' = [op EXCEPT ![o] = IdleOp]
  /\ UNCHANGED <<rows, memory, gone, chosen>>

Install(o) ==
  /\ op[o].pc = "install"
  /\ memory' = op[o].got
  /\ op' = [op EXCEPT ![o] = IdleOp]
  /\ UNCHANGED <<rows, gone, chosen>>

(* The process dies, with whatever was running in it, and starts again;    *)
(* it serves with an empty collection if the models cannot be read.        *)
Restart ==
  /\ \/ \E f \in Selections : memory' = GetAllModels(f)
     \/ Faults /\ memory' = Nothing
  /\ op' = [o \in Ops |-> IdleOp]
  /\ UNCHANGED <<rows, gone, chosen>>

AdminStep(o) ==
  \E k \in Keys : \/ \E kind \in AdminKinds \cap Kinds : AdminWrite(o, kind, k)
                  \/ AdminApply(o, k)

BackgroundStep(o) ==
  \/ \E kind \in {"discover", "update"} \cap Kinds, left \in SUBSET Sources :
       Begin(o, kind, left, {})
  \/ "tag" \in Kinds /\ \E todo \in SUBSET Keys \ {{}} : Begin(o, "tag", {}, todo)
  \/ "benchmark" \in Kinds /\ BeginBenchmark(o)
  \/ \E s \in Sources, names \in SUBSET Names : ListModels(o, s, names)
  \/ \E k \in Keys : \/ Skip(o, k)
                     \/ Register(o, k)
                     \/ \E r \in Row \cup {NoRow} : Tag(o, k, r)
                     \/ Score(o, k)
                     \/ DisableUntagged(o, k)
  \/ Merge(o)
  \/ \E f \in Selections : FindUntagged(o, f) \/ Load(o, f)
  \/ LoadFails(o)
  \/ Install(o)

Next ==
  \/ \E o \in Ops : AdminStep(o) \/ BackgroundStep(o)
  \/ Restart

Spec == Init /\ [][Next]_registryVars

-------------------------------------------------------------------------------
(* Properties *)

Routable(n, e) == e.enabled /\ e.tags # "useful" => n \in chosen

(* A model without useful capability tags is enabled, in the table, in     *)
(* memory, or in what an operation is about to put there, only if an admin *)
(* has enabled that name: discovery, tagging, resets, updates and reloads  *)
(* never make an untagged model routable (models.go:307-308).              *)
TaggedOrChosen ==
  \A n \in Names :
    /\ \A s \in Sources : Routable(n, table[<<n, s>>])
    /\ Routable(n, memory[n])
    /\ \A o \in Ops : Routable(n, op[o].got[n])

(* Between operations the collection in memory is what the table says:     *)
(* every name with a row is there, as one of its rows, and no other.       *)
MemoryMirrorsTable ==
  (\A o \in Ops : op[o].pc = "idle") =>
    \A n \in Names :
      IF SourcesOf(n) = {} THEN memory[n] = Missing
      ELSE \E s \in SourcesOf(n) : memory[n] = Entry(table[<<n, s>>], s)

(* What an admin's deletion removed does not come back, neither the row    *)
(* nor benchmark results, unless after it a provider lists the model again *)
(* or an admin has it tagged again (handlers.go:902).                      *)
PermanentlyDeleted ==
  \A k \in gone : table[k] = NoRow /\ k \notin scores

(* disableEmptyTagModels disables only models that lack useful tags.       *)
CleansUntagged ==
  \A o \in Ops : op[o].pc = "cleaning" /\ op'[o].pc = "cleaning" =>
    \A k \in op[o].todo \ op'[o].todo :
      table[k].enabled /\ ~table'[k].enabled => table[k].tags # "useful"

CleansOnlyUntagged == [][CleansUntagged]_registryVars
================================================================================
