-------------------------- MODULE ModelRegistryProofs --------------------------
(***************************************************************************)
(* Proofs about ModelRegistry, for all sets of names, sources, goroutines  *)
(* and kinds of operation: types, that no path other than an admin's       *)
(* enabling makes a model without capability tags routable, and what       *)
(* UndisturbedRegistry says of operations that nothing comes in between.   *)
(***************************************************************************)
EXTENDS UndisturbedRegistry, TLAPS

(* What an admin handler that has written to the table still has to do.    *)
Pending ==
  \A o \in Ops : op[o].pc = "apply" =>
    /\ op[o].kind \in AdminKinds
    /\ op[o].kind = "enable" => \A k \in op[o].todo : k[1] \in chosen

IInv == TypeOK /\ TaggedOrChosen /\ Pending

(* The state TypeOK gives one operation. *)
OpRecord == [kind : Kinds \cup {"none"},
             pc : {"idle", "apply", "working", "merged", "cleaning", "install"},
             left : SUBSET Sources, todo : SUBSET Keys, got : [Names -> Entries]]

-------------------------------------------------------------------------------
(* Data: rows, entries, and what a query may return.                       *)

(* A row read with its source is an entry. *)
LEMMA EntryType ==
  ASSUME NEW r \in Row, NEW s \in Sources
  PROVE  Entry(r, s) \in Entries
  BY DEF Entries

(* The entry of a name that is not there. *)
LEMMA MissingType == Missing \in Entries /\ Missing.enabled = FALSE /\ Missing.tags = "absent"
  BY DEF Entries, Missing, Entry, NoRow

(* An operation at rest. *)
LEMMA IdleType == IdleOp \in OpRecord /\ IdleOp.got = Nothing /\ IdleOp.pc = "idle"
  BY MissingType DEF IdleOp, OpRecord, Nothing

(* An entry is missing or a row read with its source, so an enabled one    *)
(* has a source.                                                           *)
LEMMA EntryFields ==
  ASSUME NEW e \in Entries
  PROVE  /\ e.tags \in {"useful", "empty", "absent"}
         /\ e.enabled \in BOOLEAN
         /\ e.enabled => e.source \in Sources
         /\ e # Missing => \E r \in Row, s \in Sources : e = Entry(r, s)
  <1>1. CASE e = Missing
    BY <1>1 DEF Missing, Entry, NoRow
  <1>2. CASE \E r \in Row, s \in Sources : e = Entry(r, s)
    BY <1>2 DEF Entry, Row
  <1> QED  BY <1>1, <1>2 DEF Entries

(* An admin's edit keeps a row a row, and enables only by "enable".        *)
LEMMA EditedRow ==
  ASSUME NEW kind \in AdminKinds, NEW r \in Row, kind # "delete"
  PROVE  /\ Edited(kind, r) \in Row
         /\ kind # "enable" => /\ Edited(kind, r).enabled => r.enabled
                               /\ Edited(kind, r).enabled => Edited(kind, r).tags = r.tags
  BY DEF AdminKinds, Edited, Row

(* The same of an entry in memory. *)
LEMMA EditedEntryType ==
  ASSUME NEW kind \in AdminKinds, NEW e \in Entries
  PROVE  /\ EditedEntry(kind, e) \in Entries
         /\ kind # "enable" /\ EditedEntry(kind, e).enabled =>
              e.enabled /\ EditedEntry(kind, e).tags = e.tags
  <1>1. CASE kind = "delete" \/ e = Missing
    BY <1>1, MissingType DEF EditedEntry
  <1>2. CASE kind # "delete" /\ e # Missing
    <2>1. PICK r \in Row, s \in Sources : e = Entry(r, s)
      BY <1>2, EntryFields
    <2>2. Edited(kind, e) = Entry(Edited(kind, r), s)
      BY <1>2, <2>1 DEF AdminKinds, Edited, Entry, Row
    <2>3. Edited(kind, r) \in Row
      BY <1>2, EditedRow
    <2>4. EditedEntry(kind, e) \in Entries
      BY <1>2, <2>2, <2>3, EntryType DEF EditedEntry
    <2>5. kind # "enable" /\ EditedEntry(kind, e).enabled =>
            e.enabled /\ EditedEntry(kind, e).tags = e.tags
      BY <1>2, <2>1, <2>2, EditedRow DEF EditedEntry, Entry
    <2> QED  BY <2>4, <2>5
  <1> QED  BY <1>1, <1>2

(* Whatever selection of rows a query returns, it is a collection, and     *)
(* holds no routable model the table does not hold.                        *)
LEMMA QueryType ==
  ASSUME IInv, NEW f \in Selections
  PROVE  /\ GetAllModels(f) \in [Names -> Entries]
         /\ \A n \in Names : Routable(n, GetAllModels(f)[n])
  <1>1. SUFFICES ASSUME NEW n \in Names
                 PROVE  /\ GetAllModels(f)[n] \in Entries
                        /\ Routable(n, GetAllModels(f)[n])
    BY DEF GetAllModels
  <1>2. CASE f[n] = NoSource
    BY <1>2, MissingType DEF GetAllModels, Routable
  <1>3. CASE f[n] # NoSource
    <2>1. f[n] \in SourcesOf(n)
      BY <1>3 DEF Selections
    <2>2. f[n] \in Sources /\ table[<<n, f[n]>>] \in Row
      BY <2>1 DEF SourcesOf, IInv, TypeOK, Keys
    <2>3. GetAllModels(f)[n] = Entry(table[<<n, f[n]>>], f[n])
      BY <1>3 DEF GetAllModels
    <2>4. Routable(n, table[<<n, f[n]>>])
      BY <2>2 DEF IInv, TaggedOrChosen
    <2> QED  BY <2>2, <2>3, <2>4, EntryType DEF Routable, Entry
  <1> QED  BY <1>2, <1>3

-------------------------------------------------------------------------------
(* Steps.  A step moves one goroutine to a record that is well-typed, and  *)
(* leaves table and memory with no model that is untagged and not chosen.  *)

Allowed(n, e) == e.enabled /\ e.tags # "useful" => n \in chosen'

(* What a step must show of the rows, entries and goroutines it leaves to *)
(* keep the inductive invariant.                                          *)
LEMMA StepTo ==
  ASSUME IInv, NEW o \in Ops, NEW r \in OpRecord,
         op' = [op EXCEPT ![o] = r],
         table' \in [Keys -> Row \cup {NoRow}], scores' \subseteq Keys,
         memory' \in [Names -> Entries], gone' \subseteq Keys,
         chosen \subseteq chosen', chosen' \subseteq Names,
         \A n \in Names, s \in Sources : Allowed(n, table'[<<n, s>>]),
         \A n \in Names : Allowed(n, memory'[n]) /\ Allowed(n, r.got[n]),
         r.pc = "apply" => /\ r.kind \in AdminKinds
                           /\ r.kind = "enable" => \A k \in r.todo : k[1] \in chosen'
  PROVE  IInv'
  <1>0. op \in [Ops -> OpRecord]
    BY DEF IInv, TypeOK, OpRecord
  <1>1. op'[o] = r /\ \A x \in Ops : x # o => op'[x] = op[x]
    BY <1>0
  <1>2. op' \in [Ops -> OpRecord]
    BY <1>0
  <1>3. TypeOK'
    BY <1>2 DEF TypeOK, OpRecord
  <1>4. \A x \in Ops, n \in Names : Allowed(n, op'[x].got[n])
    BY <1>1 DEF IInv, TaggedOrChosen, Routable, Allowed
  <1>5. TaggedOrChosen'
    BY <1>4 DEF TaggedOrChosen, Routable, Allowed
  <1>6. Pending'
    BY <1>1 DEF IInv, Pending
  <1> QED  BY <1>3, <1>5, <1>6 DEF IInv

(* What holds of the state a step leaves from, in the terms of StepTo.     *)
LEMMA Before ==
  ASSUME IInv, chosen \subseteq chosen'
  PROVE  /\ table \in [Keys -> Row \cup {NoRow}] /\ scores \subseteq Keys
         /\ memory \in [Names -> Entries] /\ gone \subseteq Keys /\ chosen \subseteq Names
         /\ op \in [Ops -> OpRecord]
         /\ \A n \in Names, s \in Sources : Allowed(n, table[<<n, s>>])
         /\ \A n \in Names : Allowed(n, memory[n])
         /\ \A o \in Ops, n \in Names : Allowed(n, op[o].got[n])
  BY DEF IInv, TypeOK, OpRecord, TaggedOrChosen, Routable, Allowed

(* A step that only moves a goroutine, and takes nothing new to load.      *)
LEMMA OpOnly ==
  ASSUME IInv, NEW o \in Ops, NEW r \in OpRecord,
         op' = [op EXCEPT ![o] = r], UNCHANGED <<table, scores, memory, chosen>>,
         gone' \subseteq Keys, r.pc # "apply",
         \A n \in Names : Routable(n, r.got[n])
  PROVE  IInv'
  <1>1. \A n \in Names : Allowed(n, r.got[n])
    BY DEF Routable, Allowed
  <1> QED  BY <1>1, Before, StepTo

(* A step that ends an operation and leaves table and memory alone.        *)
LEMMA NothingAllowed == \A n \in Names : Allowed(n, IdleOp.got[n]) /\ Routable(n, IdleOp.got[n])
  BY IdleType, MissingType DEF Nothing, Allowed, Routable

(* An admin statement on the table keeps the invariant. *)
LEMMA AdminWriteInv ==
  ASSUME IInv, NEW o \in Ops, NEW kind \in AdminKinds \cap Kinds, NEW k \in Keys,
         AdminWrite(o, kind, k)
  PROVE  IInv'
  <1> DEFINE r == [IdleOp EXCEPT !.kind = kind, !.pc = "apply", !.todo = {k}]
  <1>1. chosen \subseteq chosen' /\ chosen' \subseteq Names
    BY Before DEF AdminWrite, Keys
  <1>2. r \in OpRecord /\ r.got = Nothing /\ r.pc = "apply" /\ r.kind = kind /\ r.todo = {k}
    BY IdleType DEF OpRecord, IdleOp, Nothing
  <1>3. UpdatedRow(kind, table[k]) \in Row \cup {NoRow}
    BY <1>1, Before, EditedRow DEF UpdatedRow
  <1>4. table' = [table EXCEPT ![k] = UpdatedRow(kind, table[k])]
    BY DEF AdminWrite
  <1>5. table' \in [Keys -> Row \cup {NoRow}]
    BY <1>1, <1>3, <1>4, Before
  <1>6. ASSUME NEW n \in Names, NEW s \in Sources
        PROVE  Allowed(n, table'[<<n, s>>])
    <2>1. CASE <<n, s>> # k
      BY <2>1, <1>1, <1>4, Before DEF Keys
    <2>2. CASE <<n, s>> = k /\ kind = "enable"
      BY <2>2 DEF AdminWrite, Allowed
    <2>3. CASE <<n, s>> = k /\ kind # "enable"
      <3>1. table'[k] = UpdatedRow(kind, table[k])
        BY <1>1, <1>4, Before
      <3>2. Allowed(n, table[k])
        BY <2>3, <1>1, Before
      <3>3. CASE kind = "delete" \/ table[k] = NoRow
        BY <3>1, <3>3, <2>3 DEF UpdatedRow, NoRow, Allowed
      <3>4. CASE kind # "delete" /\ table[k] # NoRow
        <4>1. table[k] \in Row
          BY <3>4, <1>1, Before
        <4> QED  BY <2>3, <3>1, <3>2, <3>4, <4>1, EditedRow DEF UpdatedRow, Allowed
      <3> QED  BY <3>3, <3>4
    <2> QED  BY <2>1, <2>2, <2>3
  <1>7. /\ scores' \subseteq Keys /\ gone' \subseteq Keys /\ memory' = memory
        /\ op' = [op EXCEPT ![o] = r]
    BY <1>1, Before DEF AdminWrite
  <1>8. \A n \in Names : Allowed(n, r.got[n])
    BY <1>2, NothingAllowed, IdleType
  <1>9. kind = "enable" => k[1] \in chosen'
    BY DEF AdminWrite
  <1> HIDE DEF r
  <1> QED  BY <1>1, <1>2, <1>5, <1>6, <1>7, <1>8, <1>9, Before, StepTo

(* The change of the collection that follows it keeps the invariant. *)
LEMMA AdminApplyInv ==
  ASSUME IInv, NEW o \in Ops, NEW k \in Keys, AdminApply(o, k)
  PROVE  IInv'
  <1> DEFINE kind == op[o].kind
             e == memory[k[1]]
  <1>1. chosen' = chosen /\ kind \in AdminKinds /\ k[1] \in Names
    BY DEF AdminApply, IInv, Pending, Keys
  <1>2. e \in Entries /\ Allowed(k[1], e)
    BY <1>1, Before
  <1>3. EditedEntry(kind, e) \in Entries
    BY <1>1, <1>2, EditedEntryType
  <1>4. Allowed(k[1], EditedEntry(kind, e))
    <2>1. CASE kind = "enable"
      BY <2>1 DEF AdminApply, IInv, Pending, Allowed
    <2>2. CASE kind # "enable"
      BY <2>2, <1>1, <1>2, EditedEntryType DEF Allowed
    <2> QED  BY <2>1, <2>2
  <1>5. memory' = [memory EXCEPT ![k[1]] = EditedEntry(kind, e)]
    BY DEF AdminApply
  <1>6. memory' \in [Names -> Entries] /\ \A n \in Names : Allowed(n, memory'[n])
    BY <1>1, <1>3, <1>4, <1>5, Before
  <1>7. /\ op' = [op EXCEPT ![o] = IdleOp]
        /\ table' = table /\ scores' = scores /\ gone' = gone
    BY DEF AdminApply, rows
  <1> QED  BY <1>1, <1>6, <1>7, IdleType, NothingAllowed, Before, StepTo

(* A goroutine that drops a key of its work, or adds one to it, or moves   *)
(* on, with nothing new to load.                                           *)
LEMMA BeginInv ==
  ASSUME IInv, NEW o \in Ops, NEW kind \in Kinds, NEW left \in SUBSET Sources,
         NEW todo \in SUBSET Keys, Begin(o, kind, left, todo)
  PROVE  IInv'
  <1> DEFINE r == [IdleOp EXCEPT !.kind = kind, !.pc = "working", !.left = left, !.todo = todo]
  <1>1. r \in OpRecord /\ r.got = Nothing /\ r.pc = "working"
    BY IdleType DEF OpRecord, IdleOp, Nothing
  <1>2. \A n \in Names : Routable(n, r.got[n])
    BY <1>1, NothingAllowed, IdleType
  <1>3. /\ op' = [op EXCEPT ![o] = r] /\ gone' \subseteq Keys
        /\ UNCHANGED <<table, scores, memory, chosen>>
    BY Before DEF Begin, rows
  <1> HIDE DEF r
  <1> QED  BY <1>1, <1>2, <1>3, OpOnly

(* Starting a benchmark run, which reads the routable rows first. *)
LEMMA BeginBenchmarkInv ==
  ASSUME IInv, NEW o \in Ops, "benchmark" \in Kinds, BeginBenchmark(o)
  PROVE  IInv'
  <1>1. EnabledTargets \subseteq Keys
    <2>1. ASSUME NEW n \in Names, memory[n].enabled
          PROVE  memory[n].source \in Sources
      BY <2>1, EntryFields DEF IInv, TypeOK
    <2> QED  BY <2>1 DEF EnabledTargets, Keys
  <1>2. PICK todo \in {EnabledTargets} \cup {{k} : k \in EnabledTargets} \cup {{}} :
          Begin(o, "benchmark", {}, todo)
    BY DEF BeginBenchmark
  <1>3. todo \in SUBSET Keys
    BY <1>1, <1>2
  <1> QED  BY <1>2, <1>3, BeginInv

(* What a goroutine has got to load stays as it is when only its place and *)
(* its work change.                                                        *)
LEMMA KeepsGot ==
  ASSUME IInv, NEW o \in Ops, NEW r \in OpRecord, r.got = op[o].got
  PROVE  \A n \in Names : Routable(n, r.got[n])
  BY DEF IInv, TaggedOrChosen

(* Asking a provider for its models keeps the invariant. *)
LEMMA ListModelsInv ==
  ASSUME IInv, NEW o \in Ops, NEW s \in Sources, NEW names \in SUBSET Names,
         ListModels(o, s, names)
  PROVE  IInv'
  <1> DEFINE r == [op[o] EXCEPT !.left = @ \ {s}, !.todo = @ \cup (names \X {s})]
  <1>1. op \in [Ops -> OpRecord] /\ op[o] \in OpRecord
    BY Before DEF IInv, TypeOK, OpRecord
  <1>2. r \in OpRecord /\ r.got = op[o].got /\ r.pc = "working"
    BY <1>1 DEF OpRecord, ListModels, Keys
  <1>3. /\ op' = [op EXCEPT ![o] = r] /\ gone' \subseteq Keys
        /\ UNCHANGED <<table, scores, memory, chosen>>
    BY <1>1, Before DEF ListModels, rows
  <1> HIDE DEF r
  <1> QED  BY <1>2, <1>3, KeepsGot, OpOnly

(* The record of a goroutine that is done with a key. *)
LEMMA DoneType ==
  ASSUME IInv, NEW o \in Ops, NEW k \in Keys
  PROVE  \E r \in OpRecord : /\ Done(o, k) = [op EXCEPT ![o] = r]
                             /\ r.pc = op[o].pc /\ r.got = op[o].got
                             /\ r.todo = op[o].todo \ {k}
  <1>1. op[o] \in OpRecord
    BY DEF IInv, TypeOK, OpRecord
  <1>2. [op[o] EXCEPT !.todo = @ \ {k}] \in OpRecord
    BY <1>1 DEF OpRecord
  <1> QED  BY <1>1, <1>2 DEF Done, OpRecord

(* A key that is passed over keeps the invariant. *)
LEMMA SkipInv ==
  ASSUME IInv, NEW o \in Ops, NEW k \in Keys, Skip(o, k)
  PROVE  IInv'
  <1>1. PICK r \in OpRecord : /\ Done(o, k) = [op EXCEPT ![o] = r]
                              /\ r.pc = op[o].pc /\ r.got = op[o].got
    BY DoneType
  <1>2. /\ op' = [op EXCEPT ![o] = r] /\ gone' \subseteq Keys /\ r.pc # "apply"
        /\ UNCHANGED <<table, scores, memory, chosen>>
    BY <1>1, Before DEF Skip, rows
  <1> QED  BY <1>1, <1>2, KeepsGot, OpOnly

(* A statement on one row that leaves an allowed row there. *)
LEMMA RowStep ==
  ASSUME IInv, NEW o \in Ops, NEW k \in Keys, NEW r \in OpRecord,
         NEW row \in Row \cup {NoRow}, Allowed(k[1], row),
         table' = [table EXCEPT ![k] = row], op' = [op EXCEPT ![o] = r], r.pc # "apply",
         \A n \in Names : Allowed(n, r.got[n]),
         UNCHANGED <<scores, decisions, memory, gone, chosen>>
  PROVE  IInv'
  <1>1. table' \in [Keys -> Row \cup {NoRow}]
    BY Before
  <1>2. ASSUME NEW n \in Names, NEW s \in Sources
        PROVE  Allowed(n, table'[<<n, s>>])
    <2>0. <<n, s>> \in Keys /\ table \in [Keys -> Row \cup {NoRow}] /\ Allowed(n, table[<<n, s>>])
      BY Before DEF Keys
    <2>1. CASE <<n, s>> # k
      BY <2>0, <2>1
    <2>2. CASE <<n, s>> = k
      <3>1. table'[k] = row /\ k[1] = n
        BY <2>0, <2>2
      <3> QED  BY <2>2, <3>1
    <2> QED  BY <2>1, <2>2
  <1> QED  BY <1>1, <1>2, Before, StepTo

(* Registering a discovered model: new rows are untagged and disabled. *)
LEMMA RegisterInv ==
  ASSUME IInv, NEW o \in Ops, NEW k \in Keys, Register(o, k)
  PROVE  IInv'
  <1> DEFINE row == IF table[k] # NoRow THEN table[k]
                    ELSE [tags |-> "empty", enabled |-> FALSE, reasoning |-> FALSE]
  <1>1. PICK r \in OpRecord : /\ Done(o, k) = [op EXCEPT ![o] = r]
                              /\ r.pc = op[o].pc /\ r.got = op[o].got
    BY DoneType
  <1>2. row \in Row \cup {NoRow} /\ Allowed(k[1], row)
    <2>1. CASE table[k] # NoRow
      BY <2>1, Before DEF Register, Keys
    <2>2. CASE table[k] = NoRow
      BY <2>2 DEF Row, Allowed
    <2> QED  BY <2>1, <2>2
  <1>3. \A n \in Names : Allowed(n, r.got[n])
    BY <1>1, KeepsGot DEF Register, Routable, Allowed
  <1>4. /\ table' = [table EXCEPT ![k] = row] /\ op' = [op EXCEPT ![o] = r] /\ r.pc # "apply"
        /\ UNCHANGED <<scores, decisions, memory, gone, chosen>>
    BY <1>1 DEF Register
  <1> HIDE DEF row
  <1> QED  BY <1>2, <1>3, <1>4, RowStep

(* No interview makes an untagged model routable. *)
LEMMA OutcomeAllowed ==
  ASSUME NEW n \in Names, NEW r \in Outcomes(n)
  PROVE  r \in Row \cup {NoRow} /\ Allowed(n, r) /\ (r.enabled => r.tags = "useful")
  <1>1. ASSUME NEW t \in {"useful", "empty"}, NEW e \in BOOLEAN
        PROVE  /\ SavedRow(n, t, e) \in Row
               /\ SavedRow(n, t, e).tags = t /\ SavedRow(n, t, e).enabled = e
    <2>1. (n \in Reasoners) \in BOOLEAN
      OBVIOUS
    <2> DEFINE b == n \in Reasoners
    <2>2. b \in BOOLEAN /\ SavedRow(n, t, e) = [tags |-> t, enabled |-> e, reasoning |-> b]
      BY <2>1 DEF SavedRow
    <2> HIDE DEF b
    <2> QED  BY <2>2 DEF Row
  <1>2. CASE r = NoRow
    BY <1>2 DEF NoRow, Allowed
  <1>3. CASE r # NoRow
    BY <1>1, <1>3 DEF Outcomes, Allowed
  <1> QED  BY <1>2, <1>3

(* Tagging a model and saving it keeps the invariant. *)
LEMMA TagInv ==
  ASSUME IInv, NEW o \in Ops, NEW k \in Keys, NEW row \in Row \cup {NoRow}, Tag(o, k, row)
  PROVE  IInv'
  <1>1. k[1] \in Names /\ k[2] \in Sources
    BY DEF Keys
  <1>2. Allowed(k[1], row) /\ (row.enabled => row.tags = "useful")
    BY <1>1, OutcomeAllowed DEF Tag
  <1>3. PICK r \in OpRecord : /\ Done(o, k) = [op EXCEPT ![o] = r]
                              /\ r.pc = op[o].pc /\ r.got = op[o].got
    BY DoneType
  <1>4. /\ table' = [table EXCEPT ![k] = row]
        /\ UNCHANGED <<scores, decisions, memory, gone, chosen>>
    BY DEF Tag
  <1>5. CASE op' = Done(o, k)
    <2>1. \A n \in Names : Allowed(n, r.got[n])
      BY <1>3, <1>4, KeepsGot DEF Routable, Allowed
    <2>2. op' = [op EXCEPT ![o] = r] /\ r.pc # "apply"
      BY <1>3, <1>5 DEF Tag
    <2> QED  BY <1>2, <1>3, <1>4, <2>1, <2>2, RowStep
  <1>6. CASE row # NoRow /\ op' = [Done(o, k) EXCEPT ![o].got[k[1]] = Entry(row, k[2])]
    <2> DEFINE q == [r EXCEPT !.got = [r.got EXCEPT ![k[1]] = Entry(row, k[2])]]
    <2>1. Entry(row, k[2]) \in Entries
      BY <1>1, <1>6, EntryType
    <2>2. q \in OpRecord /\ q.pc = r.pc /\ q.got = [r.got EXCEPT ![k[1]] = Entry(row, k[2])]
      BY <1>1, <1>3, <2>1 DEF OpRecord
    <2>3. op' = [op EXCEPT ![o] = q]
      BY <1>3, <1>6 DEF OpRecord, IInv, TypeOK
    <2>4. \A n \in Names : Allowed(n, q.got[n])
      <3>1. r.got \in [Names -> Entries]
        BY <1>3 DEF OpRecord
      <3>2. \A n \in Names : Allowed(n, r.got[n])
        BY <1>3, <1>4, KeepsGot DEF Routable, Allowed
      <3>3. Allowed(k[1], Entry(row, k[2]))
        BY <1>2 DEF Entry, Allowed
      <3> QED  BY <2>2, <3>1, <3>2, <3>3
    <2> HIDE DEF q
    <2>5. q.pc # "apply"
      BY <1>3, <2>2 DEF Tag
    <2> QED  BY <1>2, <1>4, <2>2, <2>3, <2>4, <2>5, RowStep
  <1> QED  BY <1>5, <1>6 DEF Tag

(* Saving a benchmark result touches no row. *)
LEMMA ScoreInv ==
  ASSUME IInv, NEW o \in Ops, NEW k \in Keys, Score(o, k)
  PROVE  IInv'
  <1>1. PICK r \in OpRecord : /\ Done(o, k) = [op EXCEPT ![o] = r]
                              /\ r.pc = op[o].pc /\ r.got = op[o].got
    BY DoneType
  <1>2. \A n \in Names : Allowed(n, r.got[n])
    BY <1>1, KeepsGot DEF Score, Routable, Allowed
  <1>3. /\ op' = [op EXCEPT ![o] = r] /\ scores' \subseteq Keys /\ r.pc # "apply"
        /\ UNCHANGED <<table, memory, gone, chosen>>
    BY <1>1, Before DEF Score
  <1> QED  BY <1>1, <1>2, <1>3, Before, StepTo

(* Merging scores into the collection keeps the invariant. *)
LEMMA MergeInv ==
  ASSUME IInv, NEW o \in Ops, Merge(o)
  PROVE  IInv'
  <1> DEFINE r == [op[o] EXCEPT !.pc = "merged", !.got = Nothing]
  <1>1. op \in [Ops -> OpRecord] /\ op[o] \in OpRecord
    BY DEF IInv, TypeOK, OpRecord
  <1>2. Nothing \in [Names -> Entries]
    BY MissingType DEF Nothing
  <1>3. r \in OpRecord /\ r.got = Nothing /\ r.pc = "merged"
    BY <1>1, <1>2 DEF OpRecord
  <1>4. op' = [op EXCEPT ![o] = r] /\ UNCHANGED <<table, scores, gone, chosen>>
    BY <1>1 DEF Merge, rows, OpRecord
  <1>5. memory' \in [Names -> Entries]
    BY <1>1, <1>4, Before DEF Merge, OpRecord
  <1>6. \A n \in Names : Allowed(n, memory'[n])
    BY <1>4, Before DEF Merge
  <1>7. \A n \in Names : Allowed(n, r.got[n])
    BY <1>3, NothingAllowed, IdleType
  <1> HIDE DEF r
  <1> QED  BY <1>3, <1>4, <1>5, <1>6, <1>7, Before, StepTo

(* Reading the models that have no useful tags keeps the invariant. *)
LEMMA FindUntaggedInv ==
  ASSUME IInv, NEW o \in Ops, NEW f \in Selections, FindUntagged(o, f)
  PROVE  IInv'
  <1> DEFINE todo == {<<n, f[n]>> : n \in {m \in Names : Unusable(GetAllModels(f)[m])}}
             r == [op[o] EXCEPT !.pc = "cleaning", !.todo = todo]
  <1>1. todo \in SUBSET Keys
    <2>1. ASSUME NEW n \in Names, Unusable(GetAllModels(f)[n])
          PROVE  f[n] \in Sources
      <3>1. f[n] # NoSource
        BY <2>1, MissingType DEF GetAllModels, Unusable
      <3> QED  BY <3>1 DEF Selections, SourcesOf
    <2> QED  BY <2>1 DEF Keys
  <1> HIDE DEF todo
  <1>2. op \in [Ops -> OpRecord] /\ op[o] \in OpRecord
    BY DEF IInv, TypeOK, OpRecord
  <1>3. r \in OpRecord /\ r.got = op[o].got /\ r.pc = "cleaning"
    BY <1>1, <1>2 DEF OpRecord
  <1>4. /\ op' = [op EXCEPT ![o] = r] /\ gone' \subseteq Keys
        /\ UNCHANGED <<table, scores, memory, chosen>>
    BY <1>2, Before DEF FindUntagged, rows, todo
  <1> HIDE DEF r
  <1> QED  BY <1>3, <1>4, KeepsGot, OpOnly

(* Disabling one of them keeps the invariant. *)
LEMMA DisableUntaggedInv ==
  ASSUME IInv, NEW o \in Ops, NEW k \in Keys, DisableUntagged(o, k)
  PROVE  IInv'
  <1> DEFINE row == UpdatedRow("disable", table[k])
  <1>1. PICK r \in OpRecord : /\ Done(o, k) = [op EXCEPT ![o] = r]
                              /\ r.pc = op[o].pc /\ r.got = op[o].got
    BY DoneType
  <1>2. chosen' = chosen /\ table[k] \in Row \cup {NoRow}
    BY Before DEF DisableUntagged
  <1>3. row \in Row \cup {NoRow} /\ Allowed(k[1], row)
    <2>1. CASE table[k] = NoRow
      BY <2>1 DEF UpdatedRow, NoRow, Allowed
    <2>2. CASE table[k] # NoRow
      <3>1. row = [table[k] EXCEPT !.enabled = FALSE] /\ table[k] \in Row
        BY <1>2, <2>2 DEF UpdatedRow, Edited
      <3> QED  BY <3>1 DEF Row, Allowed
    <2> QED  BY <2>1, <2>2
  <1>4. \A n \in Names : Allowed(n, r.got[n])
    BY <1>1, <1>2, KeepsGot DEF Routable, Allowed
  <1>5. /\ table' = [table EXCEPT ![k] = row] /\ op' = [op EXCEPT ![o] = r] /\ r.pc # "apply"
        /\ UNCHANGED <<scores, decisions, memory, gone, chosen>>
    BY <1>1 DEF DisableUntagged
  <1> HIDE DEF row
  <1> QED  BY <1>3, <1>4, <1>5, RowStep

(* Reading the models back takes only rows of the table. *)
LEMMA LoadInv ==
  ASSUME IInv, NEW o \in Ops, NEW f \in Selections, Load(o, f)
  PROVE  IInv'
  <1> DEFINE got == GetAllModels(f)
             r == [op[o] EXCEPT !.pc = "install", !.got = got]
  <1>1. got \in [Names -> Entries] /\ \A n \in Names : Routable(n, got[n])
    BY QueryType
  <1>2. op' = [op EXCEPT ![o].pc = "install", ![o].got = got]
    BY DEF Load
  <1> HIDE DEF got
  <1>3. op \in [Ops -> OpRecord] /\ op[o] \in OpRecord
    BY DEF IInv, TypeOK, OpRecord
  <1>4. r \in OpRecord /\ r.got = got /\ r.pc = "install"
    BY <1>1, <1>3 DEF OpRecord
  <1>5. op' = [op EXCEPT ![o] = r]
    BY <1>2, <1>3 DEF OpRecord
  <1>6. gone' \subseteq Keys /\ UNCHANGED <<table, scores, memory, chosen>>
    BY Before DEF Load, rows
  <1> HIDE DEF r
  <1> QED  BY <1>1, <1>4, <1>5, <1>6, OpOnly

(* A reload that fails drops what it read. *)
LEMMA LoadFailsInv ==
  ASSUME IInv, NEW o \in Ops, LoadFails(o)
  PROVE  IInv'
  <1>1. /\ op' = [op EXCEPT ![o] = IdleOp] /\ gone' \subseteq Keys
        /\ UNCHANGED <<table, scores, memory, chosen>>
    BY Before DEF LoadFails, rows
  <1> QED  BY <1>1, IdleType, NothingAllowed, OpOnly

(* Replacing the collection by the models read back keeps the invariant. *)
LEMMA InstallInv ==
  ASSUME IInv, NEW o \in Ops, Install(o)
  PROVE  IInv'
  <1>1. op' = [op EXCEPT ![o] = IdleOp] /\ UNCHANGED <<table, scores, gone, chosen>>
    BY DEF Install, rows
  <1>2. memory' = op[o].got
    BY DEF Install
  <1>3. memory' \in [Names -> Entries] /\ \A n \in Names : Allowed(n, memory'[n])
    BY <1>1, <1>2, Before DEF OpRecord
  <1> QED  BY <1>1, <1>3, IdleType, NothingAllowed, Before, StepTo

(* A restart keeps the table and ends every operation. *)
LEMMA RestartInv ==
  ASSUME IInv, Restart
  PROVE  IInv'
  <1>2. memory' \in [Names -> Entries] /\ \A n \in Names : Routable(n, memory'[n])
    <2>1. CASE \E f \in Selections : memory' = GetAllModels(f)
      BY <2>1, QueryType
    <2>2. CASE memory' = Nothing
      BY <2>2, MissingType DEF Nothing, Routable
    <2> QED  BY <2>1, <2>2 DEF Restart
  <1>3. op' \in [Ops -> OpRecord] /\ \A o \in Ops : op'[o] = IdleOp
    BY IdleType DEF Restart
  <1>4. UNCHANGED <<table, scores, gone, chosen>>
    BY DEF Restart, rows
  <1>5. TypeOK'
    BY <1>2, <1>3, <1>4, Before DEF TypeOK, OpRecord
  <1>6. TaggedOrChosen'
    BY <1>2, <1>3, <1>4, NothingAllowed DEF IInv, TaggedOrChosen, Routable
  <1>7. Pending'
    BY <1>3, IdleType DEF Pending
  <1> QED  BY <1>5, <1>6, <1>7 DEF IInv

-------------------------------------------------------------------------------
(* The invariant holds at the start, every step keeps it.                  *)

(* At the start the untagged enabled models are those once chosen. *)
LEMMA InitInv == Init => IInv
  <1> SUFFICES ASSUME Init PROVE IInv
    OBVIOUS
  <1>1. PICK f \in Selections : memory = GetAllModels(f)
    BY DEF Init
  <1>2. table \in [Keys -> Row \cup {NoRow}]
        /\ \A n \in Names : \A s \in Sources : Routable(n, table[<<n, s>>])
    BY DEF Init, Routable, Unusable
  <1>3. \A o \in Ops : op[o] = IdleOp
    BY DEF Init
  <1>4. ASSUME NEW n \in Names
        PROVE  memory[n] \in Entries /\ Routable(n, memory[n])
    <2>1. CASE f[n] = NoSource
      BY <1>1, <2>1, MissingType DEF GetAllModels, Routable
    <2>2. CASE f[n] # NoSource
      <3>1. f[n] \in Sources /\ table[<<n, f[n]>>] # NoRow /\ <<n, f[n]>> \in Keys
        BY <2>2 DEF Selections, SourcesOf, Keys
      <3>2. memory[n] = Entry(table[<<n, f[n]>>], f[n])
        BY <1>1, <2>2 DEF GetAllModels
      <3> QED  BY <1>2, <3>1, <3>2, EntryType DEF Routable, Entry
    <2> QED  BY <2>1, <2>2
  <1>5. TypeOK
    <2>1. op \in [Ops -> OpRecord]
      BY IdleType DEF Init
    <2>2. memory \in [Names -> Entries]
      BY <1>1, <1>4 DEF GetAllModels
    <2> QED  BY <1>2, <2>1, <2>2 DEF Init, TypeOK, OpRecord
  <1>6. TaggedOrChosen
    BY <1>2, <1>3, <1>4, NothingAllowed DEF TaggedOrChosen, Routable, Keys
  <1>7. Pending
    BY <1>3, IdleType DEF Pending
  <1> QED  BY <1>5, <1>6, <1>7 DEF IInv

(* One step of one goroutine, or a restart, or nothing. *)
LEMMA StepInv == IInv /\ [Next]_registryVars => IInv'
  <1> SUFFICES ASSUME IInv, [Next]_registryVars PROVE IInv'
    OBVIOUS
  <1>1. CASE UNCHANGED registryVars
    BY <1>1 DEF registryVars, IInv, TypeOK, TaggedOrChosen, Routable, Pending
  <1>2. CASE Restart
    BY <1>2, RestartInv
  <1>3. ASSUME NEW o \in Ops, AdminStep(o)
        PROVE  IInv'
    BY <1>3, AdminWriteInv, AdminApplyInv DEF AdminStep
  <1>4. ASSUME NEW o \in Ops, BackgroundStep(o)
        PROVE  IInv'
    <2>1. CASE \E kind \in {"discover", "update"} \cap Kinds, left \in SUBSET Sources :
                 Begin(o, kind, left, {})
      BY <2>1, BeginInv
    <2>2. CASE "tag" \in Kinds /\ \E todo \in SUBSET Keys \ {{}} : Begin(o, "tag", {}, todo)
      BY <2>2, BeginInv
    <2>3. CASE "benchmark" \in Kinds /\ BeginBenchmark(o)
      BY <2>3, BeginBenchmarkInv
    <2>4. CASE \E s \in Sources, names \in SUBSET Names : ListModels(o, s, names)
      BY <2>4, ListModelsInv
    <2>5. ASSUME NEW k \in Keys,
                 \/ Skip(o, k) \/ Register(o, k) \/ Score(o, k) \/ DisableUntagged(o, k)
                 \/ \E r \in Row \cup {NoRow} : Tag(o, k, r)
          PROVE  IInv'
      BY <2>5, SkipInv, RegisterInv, ScoreInv, DisableUntaggedInv, TagInv
    <2>6. CASE Merge(o)
      BY <2>6, MergeInv
    <2>7. CASE \E f \in Selections : FindUntagged(o, f) \/ Load(o, f)
      BY <2>7, FindUntaggedInv, LoadInv
    <2>8. CASE LoadFails(o) \/ Install(o)
      BY <2>8, LoadFailsInv, InstallInv
    <2> QED  BY <1>4, <2>1, <2>2, <2>3, <2>4, <2>5, <2>6, <2>7, <2>8 DEF BackgroundStep
  <1> QED  BY <1>1, <1>2, <1>3, <1>4 DEF Next

(* The inductive invariant holds in every behaviour, whatever operations   *)
(* overlap, fail half-way or are cut off by a restart.                     *)
THEOREM Invariance == Spec => []IInv
  BY InitInv, StepInv, PTL DEF Spec

(* Table, collection and operations keep their shape (models.go,           *)
(* handlers.go: every entry installed in memory is a row that was read).   *)
THEOREM TypeCorrect == Spec => []TypeOK
  <1>1. IInv => TypeOK
    BY DEF IInv
  <1> QED  BY <1>1, Invariance, PTL

(* Discovery, tagging, updates, resets and reloads, in any interleaving,   *)
(* never make a model without useful capability tags routable: only an     *)
(* admin enabling that name does (models.go:307-308, 224).                 *)
THEOREM OnlyTaggedOrChosen == Spec => []TaggedOrChosen
  <1>1. IInv => TaggedOrChosen
    BY DEF IInv
  <1> QED  BY <1>1, Invariance, PTL

-------------------------------------------------------------------------------
(* What holds as long as no two operations overlap, reading succeeds, and  *)
(* no admin changes a name that another provider has too.                  *)

(* Entry e is what table t says of name n: one of its rows, or nothing.    *)
Mirrors(t, n, e) ==
  \/ e = Missing /\ \A s \in Sources : t[<<n, s>>] = NoRow
  \/ \E s \in Sources : t[<<n, s>>] # NoRow /\ e = Entry(t[<<n, s>>], s)

(* An operation r is on its way to a collection that mirrors the table: an *)
(* admin handler by the change it has still to make, a reload by what it   *)
(* has read.  Its work brings back no deleted model and cleans no tagged.  *)
OnItsWay(r, t, mem, g) ==
  /\ r.pc = "apply" =>
       \A k \in r.todo, n \in Names :
         Mirrors(t, n, IF n = k[1] THEN EditedEntry(r.kind, mem[n]) ELSE mem[n])
  /\ r.pc = "install" => \A n \in Names : Mirrors(t, n, r.got[n])
  /\ r.pc = "working" => r.todo \cap g = {}
  /\ r.pc = "cleaning" => \A k \in r.todo : t[k].tags # "useful"

Alone == \A o, x \in Ops : o # x => op[o].pc = "idle" \/ op[x].pc = "idle"

AtRest == (\A o \in Ops : op[o].pc = "idle") => \A n \in Names : Mirrors(table, n, memory[n])

Undisturbed ==
  /\ Alone
  /\ AtRest
  /\ \A o \in Ops : OnItsWay(op[o], table, memory, gone)
  /\ PermanentlyDeleted

HistoryInv == IInv /\ (~disturbed => Undisturbed)

(* Mirrors is the condition of MemoryMirrorsTable. *)
LEMMA MirrorsIs ==
  ASSUME NEW n \in Names
  PROVE  Mirrors(table, n, memory[n]) <=>
           IF SourcesOf(n) = {} THEN memory[n] = Missing
           ELSE \E s \in SourcesOf(n) : memory[n] = Entry(table[<<n, s>>], s)
  <1>1. ASSUME NEW s \in Sources, table[<<n, s>>] # NoRow
        PROVE  Entry(table[<<n, s>>], s) # Missing
    BY RegistryAssumption DEF Entry, Missing
  <1> QED  BY <1>1 DEF Mirrors, SourcesOf

(* Whatever a query returns mirrors the table. *)
LEMMA QueryMirrors ==
  ASSUME NEW f \in Selections, NEW n \in Names
  PROVE  Mirrors(table, n, GetAllModels(f)[n])
  <1>1. CASE f[n] = NoSource
    <2>1. SourcesOf(n) = {}
      BY <1>1, RegistryAssumption DEF Selections, SourcesOf
    <2> QED  BY <1>1, <2>1 DEF Mirrors, GetAllModels, SourcesOf
  <1>2. CASE f[n] # NoSource
    <2>1. f[n] \in SourcesOf(n)
      BY <1>2 DEF Selections
    <2> QED  BY <1>2, <2>1 DEF Mirrors, GetAllModels, SourcesOf
  <1> QED  BY <1>1, <1>2

(* What an operation is left with keeps all of it, if nobody else is under *)
(* way after its step.                                                     *)
LEMMA UndisturbedTo ==
  ASSUME IInv, Undisturbed, ~Overlap', NEW o \in Ops, NEW r \in OpRecord,
         op' = [op EXCEPT ![o] = r], op[o].pc # "idle" \/ r.pc # "idle",
         r.pc = "idle" => \A n \in Names : Mirrors(table', n, memory'[n]),
         OnItsWay(r, table', memory', gone'),
         \A k \in gone' : table'[k] = NoRow /\ k \notin scores'
  PROVE  Undisturbed'
  <1>1. op'[o] = r /\ \A x \in Ops : x # o => op'[x] = op[x]
    BY DEF IInv, TypeOK
  <1>2. \A x \in Ops : x # o => op[x].pc = "idle"
    BY <1>1 DEF Undisturbed, Alone, Overlap
  <1>3. Alone'
    BY DEF Overlap, Alone
  <1>4. AtRest'
    BY <1>1 DEF AtRest
  <1>5. ASSUME NEW x \in Ops
        PROVE  OnItsWay(op'[x], table', memory', gone')
    BY <1>1, <1>2 DEF OnItsWay
  <1> QED  BY <1>3, <1>4, <1>5 DEF Undisturbed, PermanentlyDeleted

(* Before an operation that begins undisturbed, all is at rest. *)
LEMMA BeginsAtRest ==
  ASSUME IInv, Undisturbed, ~Overlap', NEW o \in Ops, NEW r,
         op' = [op EXCEPT ![o] = r], op[o].pc = "idle", r.pc # "idle"
  PROVE  \A n \in Names : Mirrors(table, n, memory[n])
  <1>1. op'[o] = r /\ \A x \in Ops : x # o => op'[x] = op[x]
    BY DEF IInv, TypeOK
  <1>2. \A x \in Ops : op[x].pc = "idle"
    BY <1>1 DEF Overlap
  <1> QED  BY <1>2 DEF Undisturbed, AtRest

-------------------------------------------------------------------------------
(* An admin handler, undisturbed.                                          *)

(* Its change in memory mirrors its change in the table, if no other       *)
(* provider has the name.                                                  *)
LEMMA EditMirrors ==
  ASSUME IInv, NEW kind \in AdminKinds, NEW k \in Keys, SourcesOf(k[1]) \subseteq {k[2]},
         NEW n \in Names, NEW e \in Entries, Mirrors(table, n, e)
  PROVE  Mirrors([table EXCEPT ![k] = UpdatedRow(kind, table[k])], n,
                 IF n = k[1] THEN EditedEntry(kind, e) ELSE e)
  <1> DEFINE row == UpdatedRow(kind, table[k])
             t == [table EXCEPT ![k] = row]
  <1>1. table \in [Keys -> Row \cup {NoRow}] /\ k = <<k[1], k[2]>> /\ k[2] \in Sources
    BY DEF IInv, TypeOK, Keys
  <1>2. t[k] = row /\ \A x \in Keys : x # k => t[x] = table[x]
    BY <1>1
  <1> HIDE DEF row, t
  <1>3. CASE n # k[1]
    <2>1. \A s \in Sources : t[<<n, s>>] = table[<<n, s>>]
      BY <1>1, <1>2, <1>3 DEF Keys
    <2>2. Mirrors(t, n, e)
      BY <2>1 DEF Mirrors
    <2> QED  BY <1>3, <2>2 DEF t, row
  <1>4. CASE n = k[1] /\ table[k] = NoRow
    <2>1. row = NoRow /\ \A s \in Sources : table[<<n, s>>] = NoRow
      BY <1>1, <1>4 DEF row, UpdatedRow, SourcesOf
    <2>2. \A s \in Sources : t[<<n, s>>] = NoRow
      BY <1>2, <1>4, <2>1 DEF Keys
    <2>3. e = Missing
      BY <2>1 DEF Mirrors
    <2>4. Mirrors(t, n, EditedEntry(kind, e))
      BY <2>2, <2>3 DEF Mirrors, EditedEntry
    <2> QED  BY <1>4, <2>4 DEF t, row
  <1>5. CASE n = k[1] /\ table[k] # NoRow
    <2>1. e = Entry(table[k], k[2]) /\ table[k] \in Row
      <3>1. k = <<n, k[2]>> /\ table[<<n, k[2]>>] # NoRow
        BY <1>1, <1>5
      <3>2. PICK s \in Sources : table[<<n, s>>] # NoRow /\ e = Entry(table[<<n, s>>], s)
        BY <1>1, <3>1 DEF Mirrors
      <3>3. s = k[2]
        BY <1>5, <3>2 DEF SourcesOf
      <3> QED  BY <1>1, <1>5, <3>1, <3>2, <3>3
    <2>2. \A s \in Sources : s # k[2] => t[<<n, s>>] = NoRow
      BY <1>1, <1>2, <1>5 DEF SourcesOf, Keys
    <2>3. CASE kind = "delete"
      <3>1. row = NoRow /\ EditedEntry(kind, e) = Missing
        BY <2>3 DEF row, UpdatedRow, EditedEntry
      <3>2. Mirrors(t, n, EditedEntry(kind, e))
        BY <1>1, <1>2, <1>5, <2>2, <3>1 DEF Mirrors
      <3> QED  BY <1>5, <3>2 DEF t, row
    <2>4. CASE kind # "delete"
      <3>1. row = Edited(kind, table[k]) /\ row \in Row
        BY <1>5, <2>1, <2>4, EditedRow DEF row, UpdatedRow
      <3>2. e # Missing /\ row # NoRow
        <4>1. e.source = k[2] /\ Missing.source = NoSource
          BY <2>1 DEF Entry, Missing
        <4>2. row.tags # "absent"
          BY <3>1 DEF Row
        <4> QED  BY <1>1, <4>1, <4>2, RegistryAssumption DEF NoRow
      <3>3. EditedEntry(kind, e) = Edited(kind, e)
        BY <2>4, <3>2 DEF EditedEntry
      <3>4. Edited(kind, e) = Entry(Edited(kind, table[k]), k[2])
        BY <2>1, <2>4 DEF AdminKinds, Edited, Entry, Row
      <3>5. Mirrors(t, n, EditedEntry(kind, e))
        BY <1>1, <1>2, <1>5, <3>1, <3>2, <3>3, <3>4 DEF Mirrors
      <3> QED  BY <1>5, <3>5 DEF t, row
    <2> QED  BY <2>3, <2>4
  <1> QED  BY <1>3, <1>4, <1>5

(* Its statement, or transaction, on the table. *)
LEMMA AdminWriteUndisturbed ==
  ASSUME IInv, Undisturbed, ~Overlap', ~SharedName,
         NEW o \in Ops, NEW kind \in AdminKinds \cap Kinds, NEW k \in Keys, AdminWrite(o, kind, k)
  PROVE  Undisturbed'
  <1> DEFINE r == [IdleOp EXCEPT !.kind = kind, !.pc = "apply", !.todo = {k}]
  <1>1. r \in OpRecord /\ r.kind = kind /\ r.pc = "apply" /\ r.todo = {k}
    BY IdleType DEF OpRecord, IdleOp, Nothing
  <1>2. /\ op' = [op EXCEPT ![o] = r] /\ op[o].pc = "idle" /\ memory' = memory
        /\ table' = [table EXCEPT ![k] = UpdatedRow(kind, table[k])]
        /\ SourcesOf(k[1]) \subseteq {k[2]}
    BY DEF AdminWrite, SharedName
  <1> HIDE DEF r
  <1>3. \A n \in Names : Mirrors(table, n, memory[n]) /\ memory[n] \in Entries
    BY <1>1, <1>2, BeginsAtRest DEF IInv, TypeOK
  <1>4. OnItsWay(r, table', memory', gone')
    BY <1>1, <1>2, <1>3, EditMirrors DEF OnItsWay
  <1>5. ASSUME NEW x \in gone'
        PROVE  table'[x] = NoRow /\ x \notin scores'
    <2>1. gone' \subseteq Keys /\ table \in [Keys -> Row \cup {NoRow}]
      BY DEF AdminWrite, IInv, TypeOK
    <2>2. CASE x = k /\ kind = "delete"
      BY <1>2, <2>1, <2>2 DEF AdminWrite, UpdatedRow, ClearsHistory
    <2>3. CASE x \in gone
      <3>1. table[x] = NoRow /\ x \notin scores /\ x \in Keys
        BY <2>1, <2>3 DEF Undisturbed, PermanentlyDeleted
      <3>2. table'[x] = NoRow
        BY <1>2, <2>1, <3>1 DEF UpdatedRow
      <3>3. scores' \subseteq scores
        BY DEF AdminWrite
      <3> QED  BY <3>1, <3>2, <3>3
    <2> QED  BY <2>2, <2>3 DEF AdminWrite
  <1> QED  BY <1>1, <1>2, <1>4, <1>5, UndisturbedTo

(* The change of the collection it ends with. *)
LEMMA AdminApplyUndisturbed ==
  ASSUME IInv, Undisturbed, ~Overlap', NEW o \in Ops, NEW k \in Keys, AdminApply(o, k)
  PROVE  Undisturbed'
  <1>1. /\ op' = [op EXCEPT ![o] = IdleOp] /\ op[o].pc = "apply" /\ k \in op[o].todo
        /\ memory' = [memory EXCEPT ![k[1]] = EditedEntry(op[o].kind, memory[k[1]])]
        /\ table' = table /\ scores' = scores /\ gone' = gone
    BY DEF AdminApply, rows
  <1>2. ASSUME NEW n \in Names
        PROVE  Mirrors(table', n, memory'[n])
    <2>1. memory'[n] = IF n = k[1] THEN EditedEntry(op[o].kind, memory[n]) ELSE memory[n]
      BY <1>1 DEF IInv, TypeOK
    <2> QED  BY <1>1, <2>1 DEF Undisturbed, OnItsWay
  <1>3. OnItsWay(IdleOp, table', memory', gone')
    BY IdleType DEF OnItsWay
  <1>4. \A x \in gone' : table'[x] = NoRow /\ x \notin scores'
    BY <1>1 DEF Undisturbed, PermanentlyDeleted
  <1> QED  BY <1>1, <1>2, <1>3, <1>4, IdleType, UndisturbedTo

-------------------------------------------------------------------------------
(* A background operation, undisturbed.                                    *)

(* Work begins on no model that is deleted: a provider is asked first, an  *)
(* admin asked for the tagging, or memory had the model as its row.        *)
LEMMA BeginUndisturbed ==
  ASSUME IInv, Undisturbed, ~Overlap', NEW o \in Ops, NEW kind \in Kinds,
         NEW left \in SUBSET Sources, NEW todo \in SUBSET Keys, Begin(o, kind, left, todo),
         kind = "tag" \/ todo \cap gone = {}
  PROVE  Undisturbed'
  <1> DEFINE r == [IdleOp EXCEPT !.kind = kind, !.pc = "working", !.left = left, !.todo = todo]
  <1>1. r \in OpRecord /\ r.pc = "working" /\ r.todo = todo
    BY IdleType DEF OpRecord, IdleOp, Nothing
  <1>2. /\ op' = [op EXCEPT ![o] = r] /\ gone' \subseteq gone /\ todo \cap gone' = {}
        /\ table' = table /\ scores' = scores
    BY DEF Begin, rows
  <1> HIDE DEF r
  <1>3. OnItsWay(r, table', memory', gone')
    BY <1>1, <1>2 DEF OnItsWay
  <1>4. \A k \in gone' : table'[k] = NoRow /\ k \notin scores'
    BY <1>2 DEF Undisturbed, PermanentlyDeleted
  <1> QED  BY <1>1, <1>2, <1>3, <1>4, UndisturbedTo

(* A benchmark that starts while nothing else runs is alone. *)
LEMMA BeginBenchmarkUndisturbed ==
  ASSUME IInv, Undisturbed, ~Overlap', NEW o \in Ops, "benchmark" \in Kinds, BeginBenchmark(o)
  PROVE  Undisturbed'
  <1>1. PICK todo \in {EnabledTargets} \cup {{k} : k \in EnabledTargets} \cup {{}} :
          Begin(o, "benchmark", {}, todo)
    BY DEF BeginBenchmark
  <1> DEFINE r == [IdleOp EXCEPT !.kind = "benchmark", !.pc = "working", !.left = {}, !.todo = todo]
  <1>2. op' = [op EXCEPT ![o] = r] /\ r.pc = "working" /\ op[o].pc = "idle"
    BY <1>1 DEF Begin, IdleOp
  <1> HIDE DEF r
  <1>3. ASSUME NEW n \in Names, memory[n].enabled
        PROVE  <<n, memory[n].source>> \in Keys \ gone
    <2>1. Mirrors(table, n, memory[n])
      BY <1>2, BeginsAtRest
    <2>2. PICK s \in Sources : table[<<n, s>>] # NoRow /\ memory[n] = Entry(table[<<n, s>>], s)
      BY <1>3, <2>1, MissingType DEF Mirrors
    <2>3. memory[n].source = s
      BY <2>2 DEF Entry
    <2> QED  BY <2>2, <2>3 DEF Undisturbed, PermanentlyDeleted, Keys
  <1>4. EnabledTargets \subseteq Keys \ gone
    BY <1>3 DEF EnabledTargets
  <1>5. todo \in SUBSET Keys /\ todo \cap gone = {}
    BY <1>1, <1>4
  <1> QED  BY <1>1, <1>5, BeginUndisturbed

(* A provider that lists a model again takes it from the deleted. *)
LEMMA ListModelsUndisturbed ==
  ASSUME IInv, Undisturbed, ~Overlap', NEW o \in Ops, NEW s \in Sources, NEW names \in SUBSET Names,
         ListModels(o, s, names)
  PROVE  Undisturbed'
  <1> DEFINE r == [op[o] EXCEPT !.left = @ \ {s}, !.todo = @ \cup (names \X {s})]
  <1>1. op \in [Ops -> OpRecord] /\ op[o] \in OpRecord
    BY DEF IInv, TypeOK, OpRecord
  <1>2. r \in OpRecord /\ r.pc = "working" /\ r.todo = op[o].todo \cup (names \X {s})
    BY <1>1 DEF OpRecord, ListModels, Keys
  <1>3. /\ op' = [op EXCEPT ![o] = r] /\ gone' = gone \ (names \X {s})
        /\ table' = table /\ scores' = scores /\ op[o].pc = "working"
    BY <1>1 DEF ListModels, rows
  <1> HIDE DEF r
  <1>4. op[o].todo \cap gone = {}
    BY <1>3 DEF Undisturbed, OnItsWay
  <1>5. OnItsWay(r, table', memory', gone')
    BY <1>2, <1>3, <1>4 DEF OnItsWay
  <1>6. \A k \in gone' : table'[k] = NoRow /\ k \notin scores'
    BY <1>3 DEF Undisturbed, PermanentlyDeleted
  <1> QED  BY <1>2, <1>3, <1>5, <1>6, UndisturbedTo

(* A step that deals with one key of the work: it leaves the other rows,   *)
(* and of a row to be cleaned the tags.                                    *)
LEMMA KeyDone ==
  ASSUME IInv, Undisturbed, ~Overlap', NEW o \in Ops, NEW k \in Keys, NEW r \in OpRecord,
         op' = [op EXCEPT ![o] = r], op[o].pc \in {"working", "cleaning"}, k \in op[o].todo,
         r.pc = op[o].pc, r.todo = op[o].todo \ {k}, gone' = gone,
         NEW row, table' = [table EXCEPT ![k] = row],
         scores' \subseteq scores \cup {k},
         op[o].pc = "cleaning" => (table[k] = NoRow => row = NoRow) /\ scores' = scores
  PROVE  Undisturbed'
  <1>1. \A x \in Keys : x # k => table'[x] = table[x]
    BY DEF IInv, TypeOK
  <1>2. table'[k] = row /\ op[o].todo \subseteq Keys /\ gone \subseteq Keys
    BY DEF IInv, TypeOK
  <1>3. OnItsWay(op[o], table, memory, gone) /\ \A x \in gone : table[x] = NoRow /\ x \notin scores
    BY DEF Undisturbed, PermanentlyDeleted
  <1>4. OnItsWay(r, table', memory', gone')
    BY <1>1, <1>2, <1>3 DEF OnItsWay
  <1>5. ASSUME NEW x \in gone
        PROVE  table'[x] = NoRow /\ x \notin scores'
    <2>1. CASE x # k
      BY <1>1, <1>2, <1>3, <2>1
    <2>2. CASE x = k
      <3>1. op[o].pc = "cleaning"
        BY <1>3, <2>2 DEF OnItsWay
      <3> QED  BY <1>2, <1>3, <2>2, <3>1
    <2> QED  BY <2>1, <2>2
  <1> QED  BY <1>4, <1>5, UndisturbedTo

(* The steps that do. *)
LEMMA KeyStepsUndisturbed ==
  ASSUME IInv, Undisturbed, ~Overlap', NEW o \in Ops, NEW k \in Keys,
         Skip(o, k) \/ Register(o, k) \/ Score(o, k) \/ DisableUntagged(o, k)
  PROVE  Undisturbed'
  <1>1. PICK r \in OpRecord : /\ Done(o, k) = [op EXCEPT ![o] = r]
                              /\ r.pc = op[o].pc /\ r.got = op[o].got
                              /\ r.todo = op[o].todo \ {k}
    BY DoneType
  <1>2. /\ op' = [op EXCEPT ![o] = r] /\ gone' = gone /\ k \in op[o].todo
        /\ op[o].pc \in {"working", "cleaning"}
    BY <1>1 DEF Skip, Register, Score, DisableUntagged
  <1>3. table = [table EXCEPT ![k] = table[k]]
    BY DEF IInv, TypeOK
  <1>4. CASE Skip(o, k) \/ Score(o, k)
    <2>1. /\ table' = [table EXCEPT ![k] = table[k]] /\ scores' \subseteq scores \cup {k}
          /\ op[o].pc = "cleaning" => scores' = scores
      BY <1>3, <1>4 DEF Skip, Score, rows
    <2> QED  BY <1>1, <1>2, <2>1, KeyDone
  <1>5. CASE Register(o, k)
    <2> DEFINE row == IF table[k] # NoRow THEN table[k]
                      ELSE [tags |-> "empty", enabled |-> FALSE, reasoning |-> FALSE]
    <2>1. table' = [table EXCEPT ![k] = row] /\ scores' = scores /\ op[o].pc = "working"
      BY <1>5 DEF Register
    <2> HIDE DEF row
    <2> QED  BY <1>1, <1>2, <2>1, KeyDone
  <1>6. CASE DisableUntagged(o, k)
    <2> DEFINE row == UpdatedRow("disable", table[k])
    <2>1. /\ table' = [table EXCEPT ![k] = row] /\ scores' = scores
          /\ table[k] = NoRow => row = NoRow
      BY <1>6 DEF DisableUntagged, UpdatedRow
    <2> HIDE DEF row
    <2> QED  BY <1>1, <1>2, <2>1, KeyDone
  <1> QED  BY <1>4, <1>5, <1>6

(* The row an undisturbed interview writes is of no deleted model. *)
LEMMA TagUndisturbed ==
  ASSUME IInv, Undisturbed, ~Overlap', NEW o \in Ops, NEW k \in Keys, NEW row \in Row \cup {NoRow},
         Tag(o, k, row)
  PROVE  Undisturbed'
  <1>1. PICK r \in OpRecord : /\ Done(o, k) = [op EXCEPT ![o] = r]
                              /\ r.pc = op[o].pc /\ r.got = op[o].got
                              /\ r.todo = op[o].todo \ {k}
    BY DoneType
  <1>2. /\ op[o].pc = "working" /\ k \in op[o].todo /\ gone' = gone /\ scores' = scores
        /\ table' = [table EXCEPT ![k] = row]
    BY DEF Tag
  <1>3. CASE op' = Done(o, k)
    BY <1>1, <1>2, <1>3, KeyDone
  <1>4. CASE row # NoRow /\ op' = [Done(o, k) EXCEPT ![o].got[k[1]] = Entry(row, k[2])]
    <2> DEFINE q == [r EXCEPT !.got = [r.got EXCEPT ![k[1]] = Entry(row, k[2])]]
    <2>1. Entry(row, k[2]) \in Entries /\ k[1] \in Names
      BY <1>4, EntryType DEF Keys
    <2>2. q \in OpRecord /\ q.pc = r.pc /\ q.todo = r.todo
      BY <1>1, <2>1 DEF OpRecord
    <2>3. op' = [op EXCEPT ![o] = q]
      BY <1>1, <1>4 DEF OpRecord, IInv, TypeOK
    <2> HIDE DEF q
    <2> QED  BY <1>1, <1>2, <2>2, <2>3, KeyDone
  <1> QED  BY <1>3, <1>4 DEF Tag

(* Collecting what was saved, and reading what is to be cleaned. *)
LEMMA MergeUndisturbed ==
  ASSUME IInv, Undisturbed, ~Overlap', NEW o \in Ops, Merge(o)
  PROVE  Undisturbed'
  <1> DEFINE r == [op[o] EXCEPT !.pc = "merged", !.got = Nothing]
  <1>1. op \in [Ops -> OpRecord] /\ op[o] \in OpRecord /\ Nothing \in [Names -> Entries]
    BY MissingType DEF IInv, TypeOK, OpRecord, Nothing
  <1>2. r \in OpRecord /\ r.pc = "merged"
    BY <1>1 DEF OpRecord
  <1>3. /\ op' = [op EXCEPT ![o] = r] /\ table' = table /\ scores' = scores /\ gone' = gone
    BY <1>1 DEF Merge, rows, OpRecord
  <1> HIDE DEF r
  <1>4. OnItsWay(r, table', memory', gone')
    BY <1>2 DEF OnItsWay
  <1>5. \A k \in gone' : table'[k] = NoRow /\ k \notin scores'
    BY <1>3 DEF Undisturbed, PermanentlyDeleted
  <1> QED  BY <1>2, <1>3, <1>4, <1>5, UndisturbedTo

(* What the cleanup selects has no useful tags. *)
LEMMA FindUntaggedUndisturbed ==
  ASSUME IInv, Undisturbed, ~Overlap', NEW o \in Ops, NEW f \in Selections, FindUntagged(o, f)
  PROVE  Undisturbed'
  <1> DEFINE todo == {<<n, f[n]>> : n \in {m \in Names : Unusable(GetAllModels(f)[m])}}
             r == [op[o] EXCEPT !.pc = "cleaning", !.todo = todo]
  <1>1. ASSUME NEW n \in Names, Unusable(GetAllModels(f)[n])
        PROVE  <<n, f[n]>> \in Keys /\ table[<<n, f[n]>>].tags # "useful"
    <2>1. f[n] # NoSource
      BY <1>1, MissingType DEF GetAllModels, Unusable
    <2>2. GetAllModels(f)[n] = Entry(table[<<n, f[n]>>], f[n])
      BY <2>1 DEF GetAllModels
    <2> QED  BY <1>1, <2>1, <2>2 DEF Selections, SourcesOf, Unusable, Entry, Keys
  <1>2. todo \in SUBSET Keys /\ \A k \in todo : table[k].tags # "useful"
    BY <1>1
  <1>3. op' = [op EXCEPT ![o].pc = "cleaning", ![o].todo = todo]
    BY DEF FindUntagged
  <1> HIDE DEF todo
  <1>4. op \in [Ops -> OpRecord] /\ op[o] \in OpRecord
    BY DEF IInv, TypeOK, OpRecord
  <1>5. r \in OpRecord /\ r.pc = "cleaning" /\ r.todo = todo
    BY <1>2, <1>4 DEF OpRecord
  <1>6. op' = [op EXCEPT ![o] = r] /\ table' = table /\ scores' = scores /\ gone' = gone
    BY <1>3, <1>4 DEF FindUntagged, rows
  <1> HIDE DEF r
  <1>7. OnItsWay(r, table', memory', gone')
    BY <1>2, <1>5, <1>6 DEF OnItsWay
  <1>8. \A k \in gone' : table'[k] = NoRow /\ k \notin scores'
    BY <1>6 DEF Undisturbed, PermanentlyDeleted
  <1> QED  BY <1>5, <1>6, <1>7, <1>8, UndisturbedTo

(* Reading the models back, and replacing the collection by them. *)
LEMMA LoadUndisturbed ==
  ASSUME IInv, Undisturbed, ~Overlap', NEW o \in Ops, NEW f \in Selections, Load(o, f)
  PROVE  Undisturbed'
  <1> DEFINE got == GetAllModels(f)
             r == [op[o] EXCEPT !.pc = "install", !.got = got]
  <1>1. got \in [Names -> Entries] /\ \A n \in Names : Mirrors(table, n, got[n])
    BY QueryType, QueryMirrors
  <1>2. op' = [op EXCEPT ![o].pc = "install", ![o].got = got]
    BY DEF Load
  <1> HIDE DEF got
  <1>3. op \in [Ops -> OpRecord] /\ op[o] \in OpRecord
    BY DEF IInv, TypeOK, OpRecord
  <1>4. r \in OpRecord /\ r.got = got /\ r.pc = "install"
    BY <1>1, <1>3 DEF OpRecord
  <1>5. op' = [op EXCEPT ![o] = r] /\ table' = table /\ scores' = scores /\ gone' = gone
    BY <1>2, <1>3 DEF OpRecord, Load, rows
  <1> HIDE DEF r
  <1>6. OnItsWay(r, table', memory', gone')
    BY <1>1, <1>4, <1>5 DEF OnItsWay
  <1>7. \A k \in gone' : table'[k] = NoRow /\ k \notin scores'
    BY <1>5 DEF Undisturbed, PermanentlyDeleted
  <1> QED  BY <1>4, <1>5, <1>6, <1>7, UndisturbedTo

(* What a reload read still mirrors the table when it is installed. *)
LEMMA InstallUndisturbed ==
  ASSUME IInv, Undisturbed, ~Overlap', NEW o \in Ops, Install(o)
  PROVE  Undisturbed'
  <1>1. /\ op' = [op EXCEPT ![o] = IdleOp] /\ op[o].pc = "install" /\ memory' = op[o].got
        /\ table' = table /\ scores' = scores /\ gone' = gone
    BY DEF Install, rows
  <1>2. \A n \in Names : Mirrors(table', n, memory'[n])
    BY <1>1 DEF Undisturbed, OnItsWay
  <1>3. OnItsWay(IdleOp, table', memory', gone')
    BY IdleType DEF OnItsWay
  <1>4. \A k \in gone' : table'[k] = NoRow /\ k \notin scores'
    BY <1>1 DEF Undisturbed, PermanentlyDeleted
  <1> QED  BY <1>1, <1>2, <1>3, <1>4, IdleType, UndisturbedTo

(* A restart that can read the models, or finds none to read. *)
LEMMA RestartUndisturbed ==
  ASSUME IInv, Undisturbed, ~NothingRead, Restart
  PROVE  Undisturbed'
  <1>1. PICK f \in Selections : memory' = GetAllModels(f)
    BY DEF Restart, NothingRead
  <1>2. /\ table' = table /\ scores' = scores /\ gone' = gone
        /\ op' = [o \in Ops |-> IdleOp]
    BY DEF Restart, rows
  <1>3. \A n \in Names : Mirrors(table', n, memory'[n])
    BY <1>1, <1>2, QueryMirrors
  <1>4. \A o \in Ops : op'[o].pc = "idle"
    BY <1>2, IdleType
  <1> QED  BY <1>2, <1>3, <1>4 DEF Undisturbed, Alone, AtRest, OnItsWay, PermanentlyDeleted

-------------------------------------------------------------------------------
(* The invariant of the registry with its history.                         *)

(* At the start nothing is under way, and the server has loaded the table. *)
LEMMA HistoryInitInv == HistoryInit => HistoryInv
  <1> SUFFICES ASSUME HistoryInit PROVE HistoryInv
    OBVIOUS
  <1>1. IInv /\ Init
    BY InitInv DEF HistoryInit
  <1>2. \A n \in Names : Mirrors(table, n, memory[n])
    BY <1>1, QueryMirrors DEF Init
  <1>3. \A o \in Ops : op[o].pc = "idle"
    BY <1>1, IdleType DEF Init
  <1>4. gone = {}
    BY <1>1 DEF Init
  <1> QED  BY <1>1, <1>2, <1>3, <1>4
           DEF HistoryInv, Undisturbed, Alone, AtRest, OnItsWay, PermanentlyDeleted

(* Every step that does not disturb keeps what holds undisturbed. *)
LEMMA HistoryStepInv == HistoryInv /\ [HistoryNext]_historyVars => HistoryInv'
  <1> SUFFICES ASSUME HistoryInv, [HistoryNext]_historyVars PROVE HistoryInv'
    OBVIOUS
  <1>1. IInv'
    BY StepInv DEF HistoryInv, HistoryNext, historyVars
  <1>2. CASE UNCHANGED historyVars
    <2>1. /\ op' = op /\ table' = table /\ memory' = memory /\ gone' = gone /\ scores' = scores
          /\ disturbed' = disturbed
      BY <1>2 DEF historyVars, registryVars
    <2> QED  BY <1>1, <2>1 DEF HistoryInv, Undisturbed, Alone, AtRest, OnItsWay, PermanentlyDeleted
  <1>3. ASSUME HistoryNext, ~disturbed'
        PROVE  Undisturbed'
    <2>1. IInv /\ Undisturbed /\ ~Overlap' /\ ~NothingRead /\ ~SharedName /\ Next
      BY <1>3 DEF HistoryNext, HistoryInv
    <2>2. CASE Restart
      BY <2>1, <2>2, RestartUndisturbed
    <2>3. ASSUME NEW o \in Ops, AdminStep(o)
          PROVE  Undisturbed'
      BY <2>1, <2>3, AdminWriteUndisturbed, AdminApplyUndisturbed DEF AdminStep
    <2>4. ASSUME NEW o \in Ops, BackgroundStep(o)
          PROVE  Undisturbed'
      <3>1. CASE \E kind \in {"discover", "update"} \cap Kinds, left \in SUBSET Sources :
                   Begin(o, kind, left, {})
        BY <2>1, <3>1, BeginUndisturbed
      <3>2. CASE "tag" \in Kinds /\ \E todo \in SUBSET Keys \ {{}} : Begin(o, "tag", {}, todo)
        BY <2>1, <3>2, BeginUndisturbed
      <3>3. CASE "benchmark" \in Kinds /\ BeginBenchmark(o)
        BY <2>1, <3>3, BeginBenchmarkUndisturbed
      <3>4. CASE \E s \in Sources, names \in SUBSET Names : ListModels(o, s, names)
        BY <2>1, <3>4, ListModelsUndisturbed
      <3>5. ASSUME NEW k \in Keys,
                   \/ Skip(o, k) \/ Register(o, k) \/ Score(o, k) \/ DisableUntagged(o, k)
                   \/ \E r \in Row \cup {NoRow} : Tag(o, k, r)
            PROVE  Undisturbed'
        BY <2>1, <3>5, KeyStepsUndisturbed, TagUndisturbed
      <3>6. CASE Merge(o)
        BY <2>1, <3>6, MergeUndisturbed
      <3>7. CASE \E f \in Selections : FindUntagged(o, f) \/ Load(o, f)
        BY <2>1, <3>7, FindUntaggedUndisturbed, LoadUndisturbed
      <3>8. CASE LoadFails(o) \/ Install(o)
        BY <2>1, <3>8, InstallUndisturbed DEF NothingRead
      <3> QED  BY <2>4, <3>1, <3>2, <3>3, <3>4, <3>5, <3>6, <3>7, <3>8 DEF BackgroundStep
    <2> QED  BY <2>1, <2>2, <2>3, <2>4 DEF Next
  <1> QED  BY <1>1, <1>2, <1>3 DEF HistoryInv

(* The invariant with its history holds in every behaviour. *)
LEMMA HistoryInvariance == HistorySpec => []HistoryInv
  BY HistoryInitInv, HistoryStepInv, PTL DEF HistorySpec

(* As long as nothing disturbs it, the collection requests read is what    *)
(* the table says whenever no operation is under way (models.go:65,        *)
(* handlers.go:835).                                                       *)
THEOREM MemoryMirrors == HistorySpec => []MirrorsUndisturbed
  <1>1. HistoryInv => MirrorsUndisturbed
    BY MirrorsIs DEF HistoryInv, Undisturbed, AtRest, MirrorsUndisturbed, MemoryMirrorsTable
  <1> QED  BY <1>1, HistoryInvariance, PTL

(* As long as nothing disturbs it, a deleted model stays deleted, row and  *)
(* benchmark results, until a provider lists it or an admin has it tagged  *)
(* again (handlers.go:902).                                                *)
THEOREM DeletedStays == HistorySpec => []DeletedUndisturbed
  <1>1. HistoryInv => DeletedUndisturbed
    BY DEF HistoryInv, Undisturbed, DeletedUndisturbed
  <1> QED  BY <1>1, HistoryInvariance, PTL

(* As long as nothing disturbs it, the cleanup pass disables no model that *)
(* has useful tags (disableEmptyTagModels).                                *)
THEOREM CleanupSafe == HistorySpec => CleansUndisturbed
  <1>1. HistoryInv /\ [HistoryNext]_historyVars => [~disturbed => CleansUntagged]_historyVars
    <2> SUFFICES ASSUME HistoryInv, ~disturbed, NEW o \in Ops,
                        op[o].pc = "cleaning", NEW k \in op[o].todo
                 PROVE  table[k].tags # "useful"
      BY DEF CleansUntagged
    <2> QED  BY DEF HistoryInv, Undisturbed, OnItsWay
  <1> QED  BY <1>1, HistoryInvariance, PTL DEF HistorySpec, CleansUndisturbed
===============================================================================
