----------------------------- MODULE RoutingProofs -----------------------------
(***************************************************************************)
(* Proofs about Routing, for all sets of names, sources, prompts, callers  *)
(* and registry operations: what the decision cache remembers, whom the    *)
(* router calls, and what the logged decisions say.                        *)
(***************************************************************************)
EXTENDS Routing, ModelRegistryProofs

(* The states RoutingTypeOK gives a caller in the cache, and its request.  *)
LookupRecord == [pc : {"idle", "looking", "deciding", "storing"}, key : CacheKeys,
                 model : Models \cup {NoModel}]

RequestRecord == [api : Apis \cup {"none"},
                  pc : {"idle", "snapshot", "deciding", "resolve", "call", "sent"},
                  prompt : Prompts, snap : Snapshots,
                  decided : Models \cup {NoModel}, model : Models \cup {NoModel},
                  info : Entries, routed : BOOLEAN]

RowRecord == [selected : Models \cup {NoModel}, provider : Sources, used : Names]

(* A decision that may be remembered for a key.                            *)
Usable(k, m) == m \in Offered(k[2]) \cup {FallbackModel}

(* What the logged name of a decision has to do with the model used.       *)
Named(selected, used) ==
  selected = used \/ (MetaFails /\ selected \in {NoModel, FallbackModel})

(* An entry that may be called: Routable, when admins have enabled ch.     *)
Judged(n, e, ch) == e.enabled /\ e.tags # "useful" => n \in ch

(* A request r whose caller is at l in the cache, when the models of       *)
(* collection mem are enabled, those in s have been since it arrived, and  *)
(* admins have enabled the names ch: it is in the cache exactly while it   *)
(* decides, asks about its own snapshot, keeps a decision the row may      *)
(* name, and does not go on to call a model nobody ever offered it, or one *)
(* that nobody tagged or wanted.                                           *)
CallerOK(r, l, s, mem, ch) ==
  /\ l.pc # "idle" <=> r.pc = "deciding"
  /\ r.pc = "deciding" => l.key = <<r.prompt, r.snap>>
  /\ l.pc = "storing" => Usable(l.key, l.model)
  /\ r.routed /\ r.pc \in {"resolve", "call", "sent"} => Named(r.decided, r.model)
  /\ r.routed /\ r.api # "ollama" /\ r.pc \in {"call", "sent"} =>
       r.model \in Names /\ r.info # Missing
  /\ r.pc # "idle" => Enabled(mem) \subseteq s
  /\ r.pc = "call" /\ r.info.enabled =>
       <<r.model, r.info.source>> \in s /\ Judged(r.model, r.info, ch)

MemoOK(mm) == /\ mm \in [CacheKeys -> Models \cup {NoModel}]
              /\ \A k \in CacheKeys : mm[k] # NoModel => Usable(k, mm[k])

RowsOK(rs) == rs \subseteq {d \in RowRecord : Named(d.selected, d.used)}

CallersOK ==
  /\ lookup \in [Callers -> LookupRecord]
  /\ req \in [Callers -> RequestRecord]
  /\ seen \in [Callers -> SUBSET Keys]
  /\ \A g \in Callers : CallerOK(req[g], lookup[g], seen[g], memory, chosen)

RInv == IInv /\ MemoOK(memo) /\ RowsOK(decisions \cup unsaved) /\ CallersOK

-------------------------------------------------------------------------------
(* Data: the fallback, collections offered, a caller at rest.              *)

(* The fallback is always a name, never none. *)
LEMMA FallbackIsModel == FallbackModel # NoModel /\ FallbackModel \in Models /\ Names \subseteq Models
  BY RoutingAssumption DEF FallbackModel, Models

(* A snapshot holds enabled entries only. *)
LEMMA SnapshotType ==
  ASSUME memory \in [Names -> Entries]
  PROVE  GetEnabledModels \in Snapshots
  BY MissingType DEF GetEnabledModels, Snapshots

(* Nothing offered is a snapshot too. *)
LEMMA NothingType == Nothing \in Snapshots
  BY MissingType DEF Nothing, Snapshots

(* A name that is offered is a name. *)
LEMMA OfferedNames == \A snap : Offered(snap) \subseteq Names
  BY DEF Offered

(* An enabled entry has a source. *)
LEMMA EnabledType ==
  ASSUME NEW mem \in [Names -> Entries]
  PROVE  Enabled(mem) \in SUBSET Keys
  <1>1. ASSUME NEW n \in Names, mem[n].enabled
        PROVE  mem[n].source \in Sources
    BY <1>1, EntryFields
  <1> QED  BY <1>1 DEF Enabled, Keys

(* A caller without a request. *)
LEMMA NoRequestType ==
  /\ NoRequest \in RequestRecord
  /\ NoRequest.pc = "idle" /\ NoRequest.prompt \in Prompts
  /\ NoRequest.decided = NoModel /\ NoRequest.snap = Nothing
  <1>1. (CHOOSE p \in Prompts : TRUE) \in Prompts
    BY RoutingAssumption
  <1> QED  BY <1>1, NothingType, MissingType DEF NoRequest, NewRequest, RequestRecord

(* It is at rest whatever it knew, if it is not in the cache. *)
LEMMA NoRequestOK ==
  ASSUME NEW l, l.pc = "idle", NEW s, NEW mem, NEW ch
  PROVE  CallerOK(NoRequest, l, s, mem, ch)
  BY NoRequestType DEF CallerOK

-------------------------------------------------------------------------------
(* Steps of a request.  Each moves one caller, to a request and a place in *)
(* the cache that are well-typed and agree.                                *)

(* What a step of caller g must show to keep the invariant. *)
LEMMA CallerTo ==
  ASSUME RInv, NEW g \in Callers, NEW r \in RequestRecord, NEW l \in LookupRecord,
         NEW s \in SUBSET Keys,
         UNCHANGED registryVars,
         req' = [req EXCEPT ![g] = r], lookup' = [lookup EXCEPT ![g] = l],
         seen' = [seen EXCEPT ![g] = s],
         CallerOK(r, l, s, memory, chosen), MemoOK(memo'), RowsOK(unsaved')
  PROVE  RInv'
  <1>1. IInv'
    BY StepInv DEF RInv
  <1>2. memory' = memory /\ decisions' = decisions /\ chosen' = chosen
    BY DEF registryVars
  <1>3. RowsOK(decisions' \cup unsaved')
    BY <1>2 DEF RInv, RowsOK
  <1>4. /\ lookup' \in [Callers -> LookupRecord] /\ req' \in [Callers -> RequestRecord]
        /\ seen' \in [Callers -> SUBSET Keys]
    BY DEF RInv, CallersOK
  <1>5. ASSUME NEW x \in Callers
        PROVE  CallerOK(req'[x], lookup'[x], seen'[x], memory', chosen')
    <2>1. CASE x = g
      BY <1>2, <2>1 DEF RInv, CallersOK
    <2>2. CASE x # g
      <3>1. req'[x] = req[x] /\ lookup'[x] = lookup[x] /\ seen'[x] = seen[x]
        BY <2>2 DEF RInv, CallersOK
      <3>2. CallerOK(req[x], lookup[x], seen[x], memory, chosen)
        BY DEF RInv, CallersOK
      <3> QED  BY <1>2, <3>1, <3>2
    <2> QED  BY <2>1, <2>2
  <1> QED  BY <1>1, <1>3, <1>4, <1>5 DEF RInv, CallersOK

(* A caller before a step, in the terms of CallerTo. *)
LEMMA CallerAt ==
  ASSUME RInv, NEW g \in Callers
  PROVE  /\ req[g] \in RequestRecord /\ lookup[g] \in LookupRecord /\ seen[g] \in SUBSET Keys
         /\ CallerOK(req[g], lookup[g], seen[g], memory, chosen)
         /\ lookup = [lookup EXCEPT ![g] = lookup[g]]
         /\ seen = [seen EXCEPT ![g] = seen[g]]
         /\ MemoOK(memo) /\ RowsOK(unsaved) /\ memory \in [Names -> Entries]
         /\ \A n \in Names : Judged(n, memory[n], chosen)
  BY DEF RInv, CallersOK, RowsOK, IInv, TypeOK, TaggedOrChosen, Routable, Judged

(* A request arrives: it knows the models enabled now; one that names its  *)
(* model goes on to call it, with the entry memory has.                    *)
LEMMA ArriveInv ==
  ASSUME RInv, NEW g \in Callers, NEW api \in Apis, NEW p \in Prompts,
         NEW name \in Names \cup {NoModel}, Arrive(g, api, p, name)
  PROVE  RInv'
  <1> DEFINE explicit == name \in Names /\ memory[name] # Missing
             r == IF explicit THEN NewRequest(api, "call", p, name, memory[name], FALSE)
                              ELSE NewRequest(api, "snapshot", p, NoModel, Missing, TRUE)
  <1>1. /\ req' = [req EXCEPT ![g] = r] /\ req[g].pc = "idle"
        /\ seen' = [seen EXCEPT ![g] = Enabled(memory)]
        /\ lookup' = lookup /\ memo' = memo /\ unsaved' = unsaved /\ UNCHANGED registryVars
    BY DEF Arrive
  <1>2. explicit \in BOOLEAN
    OBVIOUS
  <1>3. CASE explicit
    <2>1. r = [api |-> api, pc |-> "call", prompt |-> p, snap |-> Nothing,
               decided |-> NoModel, model |-> name, info |-> memory[name], routed |-> FALSE]
      BY <1>3 DEF NewRequest
    <2> HIDE DEF r
    <2>2. memory[name] \in Entries /\ name \in Models
      BY <1>3, CallerAt, FallbackIsModel DEF Models
    <2>3. r \in RequestRecord
      BY <2>1, <2>2, NothingType DEF RequestRecord
    <2>4. memory[name].enabled => <<name, memory[name].source>> \in Enabled(memory)
      BY <1>3 DEF Enabled
    <2>5. Judged(name, memory[name], chosen)
      BY <1>3, CallerAt
    <2>6. CallerOK(r, lookup[g], Enabled(memory), memory, chosen)
      BY <1>1, <2>1, <2>4, <2>5, CallerAt DEF CallerOK
    <2> QED  BY <1>1, <2>3, <2>6, CallerAt, CallerTo, EnabledType
  <1>4. CASE ~explicit
    <2>1. r = [api |-> api, pc |-> "snapshot", prompt |-> p, snap |-> Nothing,
               decided |-> NoModel, model |-> NoModel, info |-> Missing, routed |-> TRUE]
      BY <1>4 DEF NewRequest
    <2> HIDE DEF r
    <2>2. r \in RequestRecord
      BY <2>1, NothingType, MissingType DEF RequestRecord
    <2>3. CallerOK(r, lookup[g], Enabled(memory), memory, chosen)
      BY <1>1, <2>1, CallerAt DEF CallerOK
    <2> QED  BY <1>1, <2>2, <2>3, CallerAt, CallerTo, EnabledType
  <1> QED  BY <1>2, <1>3, <1>4

(* A caller moved in the cache keeps its own key and a decision. *)
LEMMA LookupType ==
  ASSUME NEW pc \in {"idle", "looking", "deciding", "storing"}, NEW k \in CacheKeys,
         NEW m \in Models \cup {NoModel}
  PROVE  [pc |-> pc, key |-> k, model |-> m] \in LookupRecord
  BY DEF LookupRecord

(* The snapshot is taken and the cache asked with it. *)
LEMMA SnapshotInv ==
  ASSUME RInv, NEW g \in Callers, Snapshot(g)
  PROVE  RInv'
  <1>1. /\ req[g].pc = "snapshot" /\ seen' = seen /\ unsaved' = unsaved
        /\ UNCHANGED registryVars
    BY DEF Snapshot
  <1>2. CASE req' = [req EXCEPT ![g] = NoRequest] /\ UNCHANGED <<memo, lookup>>
    <2>1. CallerOK(NoRequest, lookup[g], seen[g], memory, chosen)
      BY <1>1, CallerAt, NoRequestOK DEF CallerOK
    <2> QED  BY <1>1, <1>2, <2>1, CallerAt, CallerTo, NoRequestType
  <1>3. CASE /\ req' = [req EXCEPT ![g].pc = "deciding", ![g].snap = GetEnabledModels]
             /\ Memo!Ask(g, <<req[g].prompt, GetEnabledModels>>)
    <2> DEFINE snap == GetEnabledModels
               k == <<req[g].prompt, snap>>
               r == [req[g] EXCEPT !.pc = "deciding", !.snap = snap]
               l == [pc |-> "looking", key |-> k, model |-> NoModel]
    <2>1. snap \in Snapshots
      BY CallerAt, SnapshotType
    <2>2. req' = [req EXCEPT ![g].pc = "deciding", ![g].snap = snap]
      BY <1>3
    <2>3. lookup' = [lookup EXCEPT ![g] = l] /\ memo' = memo
      BY <1>3 DEF Memo!Ask, Memo!Go
    <2> HIDE DEF snap
    <2>4. r \in RequestRecord /\ r.pc = "deciding" /\ r.snap = snap /\ r.prompt = req[g].prompt
      BY <2>1, CallerAt DEF RequestRecord
    <2>5. req' = [req EXCEPT ![g] = r]
      BY <2>2 DEF RInv, CallersOK, RequestRecord
    <2>6. k \in CacheKeys
      BY <2>1, CallerAt DEF CacheKeys, RequestRecord
    <2> HIDE DEF r
    <2>7. l \in LookupRecord
      BY <2>6, LookupType
    <2>8. CallerOK(r, l, seen[g], memory, chosen)
      BY <1>1, <2>4, CallerAt DEF CallerOK
    <2> QED  BY <1>1, <2>3, <2>4, <2>5, <2>7, <2>8, CallerAt, CallerTo
  <1> QED  BY <1>2, <1>3 DEF Snapshot

(* A decision ends the caller's stay in the cache: the memory is usable,   *)
(* and the name it will log fits the model it goes on with.                *)
LEMMA SettleInv ==
  ASSUME RInv, NEW g \in Callers, NEW decided \in Models \cup {NoModel},
         NEW m \in Models \cup {NoModel}, NEW k \in CacheKeys, NEW n \in Models \cup {NoModel},
         Settle(g, decided, m), Named(decided, m), req[g].pc = "deciding",
         lookup' = [lookup EXCEPT ![g] = [pc |-> "idle", key |-> k, model |-> n]],
         MemoOK(memo'), UNCHANGED <<registryVars, unsaved, seen>>
  PROVE  RInv'
  <1> DEFINE r == [req[g] EXCEPT !.pc = "resolve", !.decided = decided, !.model = m]
             l == [pc |-> "idle", key |-> k, model |-> n]
  <1>1. r \in RequestRecord /\ r.pc = "resolve" /\ r.decided = decided /\ r.model = m
    BY CallerAt DEF RequestRecord
  <1>2. req' = [req EXCEPT ![g] = r]
    BY DEF Settle, RInv, CallersOK, RequestRecord
  <1>3. l \in LookupRecord
    BY LookupType
  <1> HIDE DEF r
  <1>4. CallerOK(r, l, seen[g], memory, chosen)
    BY <1>1, CallerAt DEF CallerOK
  <1> QED  BY <1>1, <1>2, <1>3, <1>4, CallerAt, CallerTo

(* Where a caller is while it decides. *)
LEMMA DecidingAt ==
  ASSUME RInv, NEW g \in Callers, lookup[g].pc # "idle"
  PROVE  /\ req[g].pc = "deciding"
         /\ lookup[g].key \in CacheKeys /\ lookup[g].key = <<req[g].prompt, req[g].snap>>
         /\ lookup[g].key[2] = req[g].snap
         /\ lookup[g].model \in Models \cup {NoModel}
  <1>1. /\ lookup[g].key \in CacheKeys /\ lookup[g].model \in Models \cup {NoModel}
        /\ lookup[g].pc # "idle"
    BY CallerAt DEF LookupRecord
  <1>2. req[g].pc = "deciding" /\ lookup[g].key = <<req[g].prompt, req[g].snap>>
    BY CallerAt DEF CallerOK
  <1> QED  BY <1>1, <1>2

(* The cache answers. *)
LEMMA HitInv ==
  ASSUME RInv, NEW g \in Callers, Hit(g)
  PROVE  RInv'
  <1> DEFINE k == lookup[g].key
  <1>1. /\ lookup[g].pc = "looking" /\ memo' = memo
        /\ lookup' = [lookup EXCEPT ![g] = [pc |-> "idle", key |-> k, model |-> memo[k]]]
    BY DEF Hit, Memo!Recall, Memo!Go
  <1>2. k \in CacheKeys /\ req[g].pc = "deciding"
    BY <1>1, DecidingAt
  <1>3. memo[k] \in Models \cup {NoModel}
    BY <1>2, CallerAt DEF MemoOK
  <1>4. Named(memo[k], memo[k])
    BY DEF Named
  <1>5. Settle(g, memo[k], memo[k]) /\ UNCHANGED <<registryVars, unsaved, seen>>
    BY DEF Hit
  <1> HIDE DEF k
  <1> QED  BY <1>1, <1>2, <1>3, <1>4, <1>5, CallerAt, SettleInv

(* The cache does not answer, and the request stays where it is. *)
LEMMA MissInv ==
  ASSUME RInv, NEW g \in Callers, Miss(g)
  PROVE  RInv'
  <1> DEFINE k == lookup[g].key
             l == [pc |-> "deciding", key |-> k, model |-> NoModel]
  <1>1. /\ lookup[g].pc = "looking" /\ memo' = [memo EXCEPT ![k] = NoModel]
        /\ lookup' = [lookup EXCEPT ![g] = l]
    BY DEF Miss, Memo!Forgotten, Memo!Go
  <1>2. /\ k \in CacheKeys /\ req[g].pc = "deciding" /\ k = <<req[g].prompt, req[g].snap>>
        /\ req[g] \in RequestRecord /\ seen[g] \in SUBSET Keys
    BY <1>1, DecidingAt, CallerAt
  <1>3. l \in LookupRecord
    BY <1>2, LookupType
  <1>4. MemoOK(memo')
    BY <1>1, <1>2, CallerAt DEF MemoOK
  <1>5. /\ req' = [req EXCEPT ![g] = req[g]] /\ seen' = [seen EXCEPT ![g] = seen[g]]
        /\ unsaved' = unsaved /\ UNCHANGED registryVars
    BY DEF Miss, RInv, CallersOK
  <1>6. CallerOK(req[g], l, seen[g], memory, chosen)
    BY <1>2, CallerAt DEF CallerOK
  <1> HIDE DEF k, l
  <1> QED  BY <1>1, <1>2, <1>3, <1>4, <1>5, <1>6, CallerAt, CallerTo

(* The meta-model fails: the name to be logged is none or the fallback's.  *)
LEMMA MetaModelFailsInv ==
  ASSUME RInv, NEW g \in Callers, NEW decided \in {NoModel, FallbackModel},
         MetaModelFails(g, decided)
  PROVE  RInv'
  <1> DEFINE k == lookup[g].key
  <1>1. /\ lookup[g].pc = "deciding" /\ memo' = memo
        /\ lookup' = [lookup EXCEPT ![g] = [pc |-> "idle", key |-> k, model |-> NoModel]]
    BY DEF MetaModelFails, Memo!GiveUp, Memo!Go
  <1>2. k \in CacheKeys /\ req[g].pc = "deciding"
    BY <1>1, DecidingAt
  <1>3. PICK m \in getFallbackModelName(req[g].snap) : Settle(g, decided, m)
    BY DEF MetaModelFails
  <1>4. m \in Models /\ decided \in Models \cup {NoModel}
    BY <1>3, OfferedNames, FallbackIsModel DEF getFallbackModelName
  <1>5. Named(decided, m)
    BY DEF MetaModelFails, Named
  <1>6. UNCHANGED <<registryVars, unsaved, seen>>
    BY DEF MetaModelFails
  <1> HIDE DEF k
  <1> QED  BY <1>1, <1>2, <1>3, <1>4, <1>5, <1>6, CallerAt, SettleInv

(* The meta-model replies: what is taken of it is usable. *)
LEMMA MetaModelRepliesInv ==
  ASSUME RInv, NEW g \in Callers, NEW reply \in Names \cup {NoModel},
         MetaModelReplies(g, reply)
  PROVE  RInv'
  <1> DEFINE k == lookup[g].key
             m == ValidReply(req[g].snap, reply)
  <1>1. /\ lookup[g].pc = "deciding" /\ memo' = memo
        /\ UNCHANGED <<registryVars, unsaved, seen>>
    BY DEF MetaModelReplies, Memo!Decided, Memo!Go
  <1>2. /\ k \in CacheKeys /\ req[g].pc = "deciding" /\ k = <<req[g].prompt, req[g].snap>>
        /\ k[2] = req[g].snap
    BY <1>1, DecidingAt
  <1>3. m \in Models /\ Usable(k, m)
    BY <1>2, OfferedNames, FallbackIsModel DEF ValidReply, Usable
  <1>4. CASE lookup' = [lookup EXCEPT ![g] = [pc |-> "idle", key |-> k, model |-> m]]
    <2>1. lookup'[g].pc = "idle"
      BY <1>4 DEF RInv, CallersOK
    <2>2. Settle(g, m, m) /\ Named(m, m)
      BY <2>1 DEF MetaModelReplies, Named
    <2> HIDE DEF k, m
    <2> QED  BY <1>1, <1>2, <1>3, <1>4, <2>2, CallerAt, SettleInv
  <1>5. CASE lookup' = [lookup EXCEPT ![g] = [pc |-> "storing", key |-> k, model |-> m]]
    <2> DEFINE l == [pc |-> "storing", key |-> k, model |-> m]
    <2>1. lookup'[g].pc = "storing"
      BY <1>5 DEF RInv, CallersOK
    <2>2. req' = req
      BY <2>1 DEF MetaModelReplies
    <2>3. req' = [req EXCEPT ![g] = req[g]]
      BY <2>2 DEF RInv, CallersOK
    <2> HIDE DEF k, m
    <2>4. l \in LookupRecord
      BY <1>2, <1>3, LookupType
    <2>5. CallerOK(req[g], l, seen[g], memory, chosen)
      BY <1>2, <1>3, CallerAt DEF CallerOK
    <2> HIDE DEF l
    <2>6. lookup' = [lookup EXCEPT ![g] = l]
      BY <1>5 DEF l
    <2> QED  BY <1>1, <2>3, <2>4, <2>5, <2>6, CallerAt, CallerTo
  <1> QED  BY <1>4, <1>5 DEF MetaModelReplies, Memo!Decided, Memo!Go

(* The decision is remembered; another may be forgotten for it. *)
LEMMA RememberInv ==
  ASSUME RInv, NEW g \in Callers, Remember(g)
  PROVE  RInv'
  <1> DEFINE k == lookup[g].key
             m == lookup[g].model
  <1>1. /\ lookup[g].pc = "storing"
        /\ lookup' = [lookup EXCEPT ![g] = [pc |-> "idle", key |-> k, model |-> m]]
        /\ Settle(g, m, m) /\ UNCHANGED <<registryVars, unsaved, seen>>
    BY DEF Remember, Memo!Record, Memo!Go
  <1>2. PICK lost : memo' = [x \in CacheKeys |-> IF x = k THEN m
                                                ELSE IF x \in lost THEN NoModel ELSE memo[x]]
    BY DEF Remember, Memo!Record
  <1>3. /\ k \in CacheKeys /\ req[g].pc = "deciding" /\ m \in Models \cup {NoModel}
        /\ Usable(k, m)
    BY <1>1, DecidingAt, CallerAt DEF CallerOK
  <1>4. Named(m, m)
    BY DEF Named
  <1> HIDE DEF k, m
  <1>5. MemoOK(memo')
    BY <1>2, <1>3, CallerAt DEF MemoOK
  <1> QED  BY <1>1, <1>3, <1>4, <1>5, CallerAt, SettleInv

-------------------------------------------------------------------------------
(* From the lookup of the model to the answer.                             *)

(* A caller that is past the cache, with a request that is past it too.    *)
LEMMA PastCache ==
  ASSUME RInv, NEW g \in Callers, NEW r \in RequestRecord,
         req[g].pc # "deciding", req' = [req EXCEPT ![g] = r],
         CallerOK(r, lookup[g], seen[g], memory, chosen), RowsOK(unsaved'),
         UNCHANGED <<registryVars, memo, lookup, seen>>
  PROVE  RInv'
  <1>1. UNCHANGED registryVars /\ memo' = memo /\ lookup' = lookup /\ seen' = seen
    OBVIOUS
  <1> QED  BY <1>1, CallerAt, CallerTo

(* A request that ends. *)
LEMMA EndInv ==
  ASSUME RInv, NEW g \in Callers, req[g].pc # "deciding",
         req' = [req EXCEPT ![g] = NoRequest], RowsOK(unsaved'),
         UNCHANGED <<registryVars, memo, lookup, seen>>
  PROVE  RInv'
  <1>1. CallerOK(NoRequest, lookup[g], seen[g], memory, chosen)
    BY CallerAt, NoRequestOK DEF CallerOK
  <1> QED  BY <1>1, NoRequestType, PastCache

(* The model is looked up again: it is called with what memory has of it   *)
(* now, which was enabled since the request arrived if it is enabled.      *)
LEMMA ResolveInv ==
  ASSUME RInv, NEW g \in Callers, Resolve(g)
  PROVE  RInv'
  <1> DEFINE m == req[g].model
             info == IF m \in Names THEN memory[m] ELSE Missing
             r == [req[g] EXCEPT !.pc = "call", !.info = info]
  <1>1. /\ req[g].pc = "resolve" /\ UNCHANGED <<registryVars, memo, lookup, unsaved, seen>>
        /\ RowsOK(unsaved')
    BY CallerAt DEF Resolve
  <1>2. info \in Entries /\ (info # Missing => m \in Names)
    BY CallerAt, MissingType
  <1>3. info.enabled => <<m, info.source>> \in Enabled(memory) /\ Judged(m, info, chosen)
    <2>1. CASE m \in Names
      BY <2>1, CallerAt DEF Enabled
    <2>2. CASE m \notin Names
      BY <2>2, MissingType
    <2> QED  BY <2>1, <2>2
  <1>4. CASE info = Missing /\ req[g].api # "ollama"
    <2>1. req' = [req EXCEPT ![g] = NoRequest]
      BY <1>4 DEF Resolve, RInv, CallersOK
    <2> QED  BY <1>1, <2>1, EndInv
  <1>5. CASE ~(info = Missing /\ req[g].api # "ollama")
    <2> HIDE DEF info
    <2>1. /\ r \in RequestRecord /\ r.pc = "call" /\ r.info = info /\ r.model = m
          /\ r.api = req[g].api /\ r.routed = req[g].routed /\ r.decided = req[g].decided
      BY <1>2, CallerAt DEF RequestRecord
    <2>2. req' = [req EXCEPT ![g] = r]
      BY <1>5 DEF Resolve, info
    <2> HIDE DEF r
    <2>3. CallerOK(r, lookup[g], seen[g], memory, chosen)
      <3>1. /\ lookup[g].pc = "idle"
            /\ r.routed => Named(r.decided, r.model)
            /\ Enabled(memory) \subseteq seen[g]
        BY <1>1, <2>1, CallerAt DEF CallerOK
      <3>2. r.info.enabled => /\ <<r.model, r.info.source>> \in seen[g]
                              /\ Judged(r.model, r.info, chosen)
        BY <1>3, <2>1, <3>1
      <3> QED  BY <1>2, <1>5, <2>1, <3>1, <3>2 DEF CallerOK
    <2> QED  BY <1>1, <2>1, <2>2, <2>3, PastCache
  <1> QED  BY <1>4, <1>5

(* A request that is answered leaves a row that names the model it used.   *)
LEMMA FinishInv ==
  ASSUME RInv, NEW g \in Callers, req[g].pc \in {"call", "sent"}, Finish(g),
         UNCHANGED <<registryVars, memo, lookup, seen>>
  PROVE  RInv'
  <1>1. req' = [req EXCEPT ![g] = NoRequest] /\ req[g].pc # "deciding"
    BY DEF Finish
  <1>2. CASE Logs(g)
    <2> DEFINE i == req[g].info
    <2>1. /\ req[g].model \in Names /\ i # Missing /\ Named(req[g].decided, req[g].model)
      BY <1>2, CallerAt DEF Logs, CallerOK
    <2>2. /\ i \in Entries /\ req[g].decided \in Models \cup {NoModel}
      BY CallerAt DEF RequestRecord
    <2>3. i.source \in Sources
      BY <2>1, <2>2, EntryFields DEF Entry
    <2> HIDE DEF i
    <2>4. LoggedRow(g) = [selected |-> req[g].decided, provider |-> i.source,
                          used |-> req[g].model]
      BY DEF LoggedRow, i
    <2>5. LoggedRow(g) \in RowRecord /\ Named(LoggedRow(g).selected, LoggedRow(g).used)
      BY <2>1, <2>2, <2>3, <2>4 DEF RowRecord
    <2>6. unsaved' = unsaved \cup {LoggedRow(g)}
      BY <1>2 DEF Finish
    <2>7. RowsOK(unsaved')
      BY <2>5, <2>6, CallerAt DEF RowsOK
    <2> QED  BY <1>1, <2>7, EndInv
  <1>3. CASE ~Logs(g)
    <2>1. RowsOK(unsaved')
      BY <1>3, CallerAt DEF Finish
    <2> QED  BY <1>1, <2>1, EndInv
  <1> QED  BY <1>2, <1>3

(* A request that is sent. *)
LEMMA SendInv ==
  ASSUME RInv, NEW g \in Callers, Send(g)
  PROVE  RInv'
  <1> DEFINE r == [req[g] EXCEPT !.pc = "sent"]
  <1>1. /\ req[g].pc = "call" /\ UNCHANGED <<registryVars, memo, lookup, seen>>
        /\ RowsOK(unsaved')
    BY CallerAt DEF Send
  <1>2. /\ r \in RequestRecord /\ r.pc = "sent" /\ r.info = req[g].info /\ r.model = req[g].model
        /\ r.api = req[g].api /\ r.routed = req[g].routed /\ r.decided = req[g].decided
    BY CallerAt DEF RequestRecord
  <1>3. req' = [req EXCEPT ![g] = r]
    BY DEF Send, RInv, CallersOK
  <1> HIDE DEF r
  <1>4. CallerOK(r, lookup[g], seen[g], memory, chosen)
    BY <1>1, <1>2, CallerAt DEF CallerOK
  <1> QED  BY <1>1, <1>2, <1>3, <1>4, PastCache

(* Every step of a request keeps the invariant. *)
LEMMA RequestInv ==
  ASSUME RInv, NEW g \in Callers, RequestStep(g)
  PROVE  RInv'
  <1>1. CASE Decline(g) \/ Answered(g)
    <2>1. /\ req[g].pc \in {"call", "sent"} /\ Finish(g)
          /\ UNCHANGED <<registryVars, memo, lookup, seen>>
      BY <1>1 DEF Decline, Answered
    <2> QED  BY <2>1, FinishInv
  <1> QED  BY <1>1, ArriveInv, SnapshotInv, HitInv, MissInv, MetaModelFailsInv,
              MetaModelRepliesInv, RememberInv, ResolveInv, SendInv DEF RequestStep

-------------------------------------------------------------------------------
(* Steps of the rest of the server.                                        *)

(* The logging goroutine touches the rows of decisions only. *)
LEMMA SaveRoutingDecisionInv ==
  ASSUME RInv, NEW row \in unsaved, SaveRoutingDecision(row)
  PROVE  RInv'
  <1>1. /\ UNCHANGED <<table, scores, memory, op, gone, chosen>>
        /\ memo' = memo /\ lookup' = lookup /\ req' = req /\ seen' = seen
        /\ memory' = memory /\ chosen' = chosen
        /\ decisions' \cup unsaved' \subseteq decisions \cup unsaved
    BY DEF SaveRoutingDecision
  <1>2. IInv'
    BY <1>1 DEF RInv, IInv, TypeOK, TaggedOrChosen, Routable, Pending
  <1>3. RowsOK(decisions' \cup unsaved')
    BY <1>1 DEF RInv, RowsOK
  <1> QED  BY <1>1, <1>2, <1>3 DEF RInv, CallersOK

(* Registry operations delete decisions, and add none. *)
LEMMA DecisionsKept ==
  ASSUME NEW o \in Ops, AdminStep(o) \/ BackgroundStep(o)
  PROVE  decisions' \subseteq decisions
  <1>1. ASSUME NEW k \in Keys, NEW kind \in AdminKinds \cap Kinds, AdminWrite(o, kind, k)
        PROVE  decisions' \subseteq decisions
    BY <1>1 DEF AdminWrite
  <1>2. ASSUME NEW k \in Keys, AdminApply(o, k)
        PROVE  decisions' \subseteq decisions
    BY <1>2 DEF AdminApply, rows
  <1>3. CASE BackgroundStep(o)
    BY <1>3 DEF BackgroundStep, Begin, BeginBenchmark, ListModels, Skip, Register, Tag, Score,
                DisableUntagged, Merge, FindUntagged, Load, LoadFails, Install, rows
  <1> QED  BY <1>1, <1>2, <1>3 DEF AdminStep

(* What admins have enabled, they have enabled ever after. *)
LEMMA ChosenGrows ==
  ASSUME NEW o \in Ops, AdminStep(o) \/ BackgroundStep(o)
  PROVE  chosen \subseteq chosen'
  <1>1. ASSUME NEW k \in Keys, NEW kind \in AdminKinds \cap Kinds, AdminWrite(o, kind, k)
        PROVE  chosen \subseteq chosen'
    BY <1>1 DEF AdminWrite
  <1>2. ASSUME NEW k \in Keys, AdminApply(o, k)
        PROVE  chosen \subseteq chosen'
    BY <1>2 DEF AdminApply
  <1>3. CASE BackgroundStep(o)
    BY <1>3 DEF BackgroundStep, Begin, BeginBenchmark, ListModels, Skip, Register, Tag, Score,
                DisableUntagged, Merge, FindUntagged, Load, LoadFails, Install
  <1> QED  BY <1>1, <1>2, <1>3 DEF AdminStep

(* While a registry operation changes the collection, a request in         *)
(* progress sees what is enabled from then on too.                         *)
LEMMA RegistryInv ==
  ASSUME RInv, RegistryStep
  PROVE  RInv'
  <1>1. PICK o \in Ops : AdminStep(o) \/ BackgroundStep(o)
    BY DEF RegistryStep
  <1>2. IInv'
    BY <1>1, StepInv DEF RInv, Next
  <1>3. /\ memo' = memo /\ lookup' = lookup /\ req' = req /\ unsaved' = unsaved
        /\ seen' = [g \in Callers |-> IF req[g].pc = "idle" THEN seen[g]
                                      ELSE seen[g] \cup Enabled(memory')]
    BY DEF RegistryStep, requestVars
  <1>4. Enabled(memory') \in SUBSET Keys
    BY <1>2, EnabledType DEF IInv, TypeOK
  <1>5. RowsOK(decisions' \cup unsaved')
    BY <1>1, <1>3, DecisionsKept DEF RInv, RowsOK
  <1>6. seen' \in [Callers -> SUBSET Keys]
    BY <1>3, <1>4 DEF RInv, CallersOK
  <1>7. ASSUME NEW g \in Callers
        PROVE  CallerOK(req'[g], lookup'[g], seen'[g], memory', chosen')
    <2>1. CallerOK(req[g], lookup[g], seen[g], memory, chosen)
      BY CallerAt
    <2>2. /\ req[g].pc # "idle" => Enabled(memory') \subseteq seen'[g]
          /\ seen[g] \subseteq seen'[g] /\ chosen \subseteq chosen'
      BY <1>1, <1>3, ChosenGrows
    <2>3. req'[g] = req[g] /\ lookup'[g] = lookup[g]
      BY <1>3
    <2> QED  BY <2>1, <2>2, <2>3 DEF CallerOK, Judged
  <1> QED  BY <1>2, <1>3, <1>5, <1>6, <1>7 DEF RInv, CallersOK

(* A restart leaves the rows that were saved, and nobody with a request.   *)
LEMMA RestartServerInv ==
  ASSUME RInv, RestartServer
  PROVE  RInv'
  <1>1. /\ Restart /\ memo' = [k \in CacheKeys |-> NoModel] /\ unsaved' = {}
        /\ lookup' = [g \in Callers |-> [lookup[g] EXCEPT !.pc = "idle", !.model = NoModel]]
        /\ req' = [g \in Callers |-> NoRequest] /\ seen' = [g \in Callers |-> {}]
        /\ decisions' = decisions
    BY DEF RestartServer, Restart, rows
  <1>2. IInv'
    BY <1>1, StepInv DEF RInv, Next
  <1>3. MemoOK(memo') /\ RowsOK(decisions' \cup unsaved')
    BY <1>1 DEF RInv, RowsOK, MemoOK
  <1>4. ASSUME NEW g \in Callers
        PROVE  lookup'[g] \in LookupRecord /\ lookup'[g].pc = "idle"
    <2>1. [lookup[g] EXCEPT !.pc = "idle", !.model = NoModel] \in LookupRecord
          /\ [lookup[g] EXCEPT !.pc = "idle", !.model = NoModel].pc = "idle"
      BY CallerAt DEF LookupRecord
    <2> QED  BY <1>1, <2>1
  <1>5. /\ lookup' \in [Callers -> LookupRecord] /\ req' \in [Callers -> RequestRecord]
        /\ seen' \in [Callers -> SUBSET Keys]
    <2>1. lookup' \in [Callers -> LookupRecord]
      <3> DEFINE l(g) == [lookup[g] EXCEPT !.pc = "idle", !.model = NoModel]
      <3>1. lookup' = [g \in Callers |-> l(g)]
        BY <1>1
      <3> HIDE DEF l
      <3> QED  BY <1>4, <3>1
    <2> QED  BY <1>1, <2>1, NoRequestType
  <1>6. ASSUME NEW g \in Callers
        PROVE  CallerOK(req'[g], lookup'[g], seen'[g], memory', chosen')
    BY <1>1, <1>4, NoRequestOK
  <1> QED  BY <1>2, <1>3, <1>5, <1>6 DEF RInv, CallersOK

-------------------------------------------------------------------------------
(* The invariant holds at the start, every step keeps it.                  *)

(* At the start nobody asks anything. *)
LEMMA RoutingInitInv == RoutingInit => RInv
  <1> SUFFICES ASSUME RoutingInit PROVE RInv
    OBVIOUS
  <1>1. /\ Init /\ memo = [k \in CacheKeys |-> NoModel] /\ unsaved = {} /\ decisions = {}
        /\ lookup = [g \in Callers |-> [pc |-> "idle", key |-> <<NoRequest.prompt, Nothing>>,
                                        model |-> NoModel]]
        /\ req = [g \in Callers |-> NoRequest] /\ seen = [g \in Callers |-> {}]
    BY DEF RoutingInit, Init
  <1>2. IInv
    BY <1>1, InitInv
  <1>3. MemoOK(memo) /\ RowsOK(decisions \cup unsaved)
    BY <1>1 DEF MemoOK, RowsOK
  <1>4. <<NoRequest.prompt, Nothing>> \in CacheKeys
    BY NoRequestType, NothingType DEF CacheKeys
  <1>5. lookup \in [Callers -> LookupRecord] /\ \A g \in Callers : lookup[g].pc = "idle"
    BY <1>1, <1>4, LookupType
  <1>6. \A g \in Callers : CallerOK(req[g], lookup[g], seen[g], memory, chosen)
    BY <1>1, <1>5, NoRequestOK
  <1> QED  BY <1>1, <1>2, <1>3, <1>5, <1>6, NoRequestType DEF RInv, CallersOK

(* One step of a request, of the logger, of the registry, or a restart. *)
LEMMA RoutingStepInv == RInv /\ [RoutingNext]_vars => RInv'
  <1> SUFFICES ASSUME RInv, [RoutingNext]_vars PROVE RInv'
    OBVIOUS
  <1>1. CASE UNCHANGED vars
    <2>1. /\ UNCHANGED registryVars /\ decisions' = decisions /\ memory' = memory
          /\ memo' = memo /\ lookup' = lookup /\ req' = req /\ unsaved' = unsaved /\ seen' = seen
          /\ chosen' = chosen
      BY <1>1 DEF vars, registryVars
    <2>2. IInv'
      BY <2>1, StepInv DEF RInv
    <2> QED  BY <2>1, <2>2 DEF RInv, CallersOK
  <1> QED  BY <1>1, RequestInv, SaveRoutingDecisionInv, RegistryInv, RestartServerInv
           DEF RoutingNext

(* The inductive invariant holds in every behaviour. *)
LEMMA RoutingInvariance == RoutingSpec => []RInv
  BY RoutingInitInv, RoutingStepInv, PTL DEF RoutingSpec

(* Requests, cache and logged rows keep their shape, and a row always      *)
(* names a provider and a model there is (handlers.go:137-166).            *)
THEOREM RoutingTypeCorrect == RoutingSpec => []RoutingTypeOK
  <1>1. RInv => RoutingTypeOK
    BY DEF RInv, IInv, MemoOK, RowsOK, CallersOK, RoutingTypeOK, LookupRecord, RequestRecord,
           RowRecord
  <1> QED  BY <1>1, RoutingInvariance, PTL

(* The decision cache never answers with a name the meta-model made up:    *)
(* what it remembers was offered in the snapshot of its key, or is the     *)
(* fallback (model_selection.go:86-97).                                    *)
THEOREM MemoryUsable == RoutingSpec => []RemembersUsable
  <1>1. RInv => RemembersUsable
    BY DEF RInv, MemoOK, CallersOK, CallerOK, RemembersUsable, Usable
  <1> QED  BY <1>1, RoutingInvariance, PTL

(* While requests are handled, and the decision log is written by them, no *)
(* operation leaves an enabled model the router cannot judge.              *)
THEOREM RegistrySoundWhileRouting == RoutingSpec => []TaggedOrChosen
  <1>1. RInv => TaggedOrChosen
    BY DEF RInv, IInv
  <1> QED  BY <1>1, RoutingInvariance, PTL

(* A row of the decision log names the model that was used, unless the     *)
(* meta-model failed: then none or the fallback.                           *)
THEOREM RowsCorrect == RoutingSpec => []RowsNameAnswerer
  <1>1. RInv => RowsNameAnswerer
    BY DEF RInv, RowsOK, Named, RowsNameAnswerer
  <1> QED  BY <1>1, RoutingInvariance, PTL

(* No provider is called for a model that was disabled, or gone, all the   *)
(* time since the request arrived, nor for one without useful tags that no *)
(* admin enabled: what the registry promises reaches the calls.            *)
THEOREM OnlyEnabledCalled == RoutingSpec => CallsOnlyEnabled
  <1>1. RInv /\ [RoutingNext]_vars => [CallsEnabled]_vars
    <2> SUFFICES ASSUME RInv, RoutingNext, NEW g \in Callers,
                        req[g].pc = "call", req'[g].pc = "sent"
                 PROVE  /\ <<req'[g].model, req'[g].info.source>> \in seen'[g]
                        /\ Routable(req'[g].model, req'[g].info)
      BY DEF CallsEnabled
    <2>1. PICK x \in Callers : RequestStep(x)
      <3>1. CASE \E row \in unsaved : SaveRoutingDecision(row)
        BY <3>1 DEF SaveRoutingDecision
      <3>2. CASE RegistryStep
        BY <3>2 DEF RegistryStep, requestVars
      <3>3. CASE RestartServer
        BY <3>3, NoRequestType DEF RestartServer
      <3> QED  BY <3>1, <3>2, <3>3 DEF RoutingNext
    <2>2. req \in [Callers -> RequestRecord] /\ req[g] \in RequestRecord
      BY DEF RInv, CallersOK
    <2>3. CASE Send(g)
      <3>1. seen' = seen /\ req' = [req EXCEPT ![g].pc = "sent"] /\ req[g].info.enabled
        BY <2>3 DEF Send, MayCall
      <3>2. req'[g].model = req[g].model /\ req'[g].info = req[g].info
        BY <2>2, <3>1 DEF RequestRecord
      <3>3. <<req[g].model, req[g].info.source>> \in seen[g] /\ Routable(req[g].model, req[g].info)
        BY <3>1, CallerAt DEF CallerOK, Judged, Routable
      <3> QED  BY <3>1, <3>2, <3>3
    <2>4. CASE ~Send(g)
      <3>1. x = g
        <4> SUFFICES ASSUME x # g PROVE req'[g] = req[g]
          OBVIOUS
        <4> QED  BY <2>1, <2>2 DEF RequestStep, Arrive, Snapshot, Hit, Miss, Settle,
                    MetaModelFails, MetaModelReplies, Remember, Resolve, Decline, Answered,
                    Finish, Send
      <3>2. req[g].pc = "call" /\ lookup[g].pc = "idle"
        BY CallerAt DEF CallerOK
      <3>3. Decline(g)
        BY <2>1, <2>4, <3>1, <3>2 DEF RequestStep, Arrive, Snapshot, Hit, Miss,
           MetaModelFails, MetaModelReplies, Remember, Resolve, Answered, Send,
           Memo!Recall, Memo!Forgotten, Memo!GiveUp, Memo!Decided, Memo!Record, Memo!Go
      <3>4. req'[g] = NoRequest
        BY <2>2, <3>3 DEF Decline, Finish
      <3> QED  BY <3>4, NoRequestType
    <2> QED  BY <2>3, <2>4
  <1> QED  BY <1>1, RoutingInvariance, PTL DEF RoutingSpec, CallsOnlyEnabled
===============================================================================
