-------------------------------- MODULE Routing --------------------------------
(***************************************************************************)
(* Chat requests (/chat, the OpenAI and the Ollama endpoints): a snapshot  *)
(* of the enabled models is taken, the decision cache or the meta-model    *)
(* names a model for it, the model is looked up AGAIN in the collection,   *)
(* called, and the decision logged by a goroutine of its own.  All the     *)
(* while registry operations (ModelRegistry) change table and collection.  *)
(* The decision cache is the DecisionMemo, which DecisionCache implements. *)
(***************************************************************************)
EXTENDS ModelRegistry

CONSTANTS Callers,      (* goroutines that handle requests                  *)
          Prompts,      (* normalised prompts                               *)
          NoModel,      (* no model name                                    *)
          DefaultModel, (* DEFAULT_CHAT_MODEL, NoModel if it is blank       *)
          MetaModel,    (* MODEL_SELECTION_MODEL                            *)
          MetaFails,    (* whether consulting the meta-model may fail       *)
          MaxRows       (* bound: logged decisions when a request arrives   *)

ASSUME RoutingAssumption ==
  /\ NoModel \notin Names
  /\ MetaModel # NoModel
  /\ MetaFails \in BOOLEAN
  /\ MaxRows \in Nat \ {0}
  /\ Prompts # {}

VARIABLES memo,    (* the decision cache                                    *)
          lookup,  (* lookup[g]: where g is in it                           *)
          req,     (* req[g]: the request g handles                         *)
          unsaved, (* rows whose logging goroutine has not run yet          *)
          seen     (* history: models enabled in memory since g's request   *)
                   (* arrived                                               *)

requestVars == <<memo, lookup, req, unsaved>>
vars == <<registryVars, memo, lookup, req, unsaved, seen>>

Apis == {"chat", "openai", "ollama"}

FallbackModel == IF DefaultModel # NoModel THEN DefaultModel ELSE MetaModel

Models == Names \cup {FallbackModel}

(* GetEnabledModels: what the meta-model chooses from.                     *)
GetEnabledModels == [n \in Names |-> IF memory[n].enabled THEN memory[n] ELSE Missing]

Snapshots == [Names -> {e \in Entries : e = Missing \/ e.enabled}]

(* buildDecisionCacheKey: prompt, and name, source, tags, enabled and      *)
(* reasoning of every model offered.                                       *)
CacheKeys == Prompts \X Snapshots

Memo == INSTANCE DecisionMemo WITH Keys <- CacheKeys, request <- lookup

(* A request as it is when it arrives: nothing offered, nothing decided.   *)
NewRequest(api, pc, p, model, info, routed) ==
  [api |-> api, pc |-> pc, prompt |-> p, snap |-> Nothing, decided |-> NoModel,
   model |-> model, info |-> info, routed |-> routed]

NoRequest == NewRequest("none", "idle", CHOOSE p \in Prompts : TRUE, NoModel, Missing, FALSE)

RoutingTypeOK ==
  /\ TypeOK
  /\ memo \in [CacheKeys -> Models \cup {NoModel}]
  /\ lookup \in [Callers -> [pc : {"idle", "looking", "deciding", "storing"},
                             key : CacheKeys, model : Models \cup {NoModel}]]
  /\ req \in [Callers -> [api : Apis \cup {"none"},
                          pc : {"idle", "snapshot", "deciding", "resolve", "call", "sent"},
                          prompt : Prompts, snap : Snapshots,
                          decided : Models \cup {NoModel}, model : Models \cup {NoModel},
                          info : Entries, routed : BOOLEAN]]
  /\ unsaved \cup decisions \subseteq
       [selected : Models \cup {NoModel}, provider : Sources, used : Names]
  /\ seen \in [Callers -> SUBSET Keys]

RoutingInit ==
  /\ Init
  /\ memo = [k \in CacheKeys |-> NoModel]
  /\ lookup = [g \in Callers |-> [pc |-> "idle", key |-> <<NoRequest.prompt, Nothing>>,
                                  model |-> NoModel]]
  /\ req = [g \in Callers |-> NoRequest]
  /\ unsaved = {}
  /\ seen = [g \in Callers |-> {}]

Offered(snap) == {n \in Names : snap[n] # Missing}

Enabled(mem) == {<<n, mem[n].source>> : n \in {m \in Names : mem[m].enabled}}

-------------------------------------------------------------------------------
(* A request arrives.  The OpenAI and Ollama endpoints use the model the   *)
(* caller names if memory has it, enabled or not; otherwise, and for /chat *)
(* always, the request is routed.                                          *)
Arrive(g, api, p, name) ==
  LET explicit == name \in Names /\ memory[name] # Missing IN
  /\ req[g].pc = "idle"
  /\ Cardinality(decisions \cup unsaved) < MaxRows
  /\ api = "chat" => name = NoModel
  /\ req' = [req EXCEPT ![g] =
       IF explicit THEN NewRequest(api, "call", p, name, memory[name], FALSE)
                   ELSE NewRequest(api, "snapshot", p, NoModel, Missing, TRUE)]
  /\ seen' = [seen EXCEPT ![g] = Enabled(memory)]
  /\ UNCHANGED <<registryVars, memo, lookup, unsaved>>

(* The snapshot of the enabled models; without any the request is refused. *)
Snapshot(g) ==
  /\ req[g].pc = "snapshot"
  /\ \/ /\ GetEnabledModels = Nothing
        /\ req' = [req EXCEPT ![g] = NoRequest]
        /\ UNCHANGED <<memo, lookup>>
     \/ /\ GetEnabledModels # Nothing
        /\ req' = [req EXCEPT ![g].pc = "deciding", ![g].snap = GetEnabledModels]
        /\ Memo!Ask(g, <<req[g].prompt, GetEnabledModels>>)
  /\ UNCHANGED <<registryVars, unsaved, seen>>

Settle(g, decided, model) ==
  req' = [req EXCEPT ![g].pc = "resolve", ![g].decided = decided, ![g].model = model]

(* DecideModelBasedOnCapabilities: a hit, a miss; then the meta-model      *)
(* fails, in transport (no result) or by an unusable reply (the fallback   *)
(* model as result, with an error), and the handler's fallback answers: the*)
(* default model if it is enabled, or any enabled one ...                  *)
Hit(g) ==
  /\ Memo!Recall(g)
  /\ Settle(g, memo[lookup[g].key], memo[lookup[g].key])
  /\ UNCHANGED <<registryVars, unsaved, seen>>

Miss(g) ==
  /\ Memo!Forgotten(g)
  /\ UNCHANGED <<registryVars, req, unsaved, seen>>

getFallbackModelName(snap) ==
  IF DefaultModel \in Offered(snap) THEN {DefaultModel} ELSE Offered(snap)

(* Wrong variant: the result keeps the name an unusable reply gave.        *)
MetaModelFailsRaw(g, decided) ==
  /\ MetaFails
  /\ Memo!GiveUp(g)
  /\ \E m \in getFallbackModelName(req[g].snap), x \in Offered(req[g].snap) : Settle(g, x, m)
  /\ UNCHANGED <<registryVars, unsaved, seen>>

MetaModelFails(g, decided) ==
  /\ MetaFails
  /\ Memo!GiveUp(g)
  /\ \E m \in getFallbackModelName(req[g].snap) : Settle(g, decided, m)
  /\ UNCHANGED <<registryVars, unsaved, seen>>

(* Wrong variant: the reply is taken as it is.                             *)
RawReply(snap, reply) == reply

(* ... or it replies with a name, taken if it is one of those offered.     *)
ValidReply(snap, reply) == IF reply \in Offered(snap) THEN reply ELSE FallbackModel

MetaModelReplies(g, reply) ==
  LET m == ValidReply(req[g].snap, reply) IN
  /\ Memo!Decided(g, m)
  /\ IF lookup'[g].pc = "idle" THEN Settle(g, m, m) ELSE UNCHANGED req
  /\ UNCHANGED <<registryVars, unsaved, seen>>

Remember(g) ==
  /\ Memo!Record(g)
  /\ Settle(g, lookup[g].model, lookup[g].model)
  /\ UNCHANGED <<registryVars, unsaved, seen>>

-------------------------------------------------------------------------------
(* The chosen model is looked up again.  If it has gone, /chat answers a   *)
(* placeholder and the OpenAI endpoint refuses; the Ollama endpoints go on *)
(* with a zero ModelInfo, which is not enabled.                            *)
Resolve(g) ==
  LET m == req[g].model
      info == IF m \in Names THEN memory[m] ELSE Missing
  IN
  /\ req[g].pc = "resolve"
  /\ req' = [req EXCEPT ![g] = IF info = Missing /\ @.api # "ollama" THEN NoRequest
                               ELSE [@ EXCEPT !.pc = "call", !.info = info]]
  /\ UNCHANGED <<registryVars, memo, lookup, unsaved, seen>>

LoggedRow(g) == [selected |-> req[g].decided, provider |-> req[g].info.source,
                 used |-> req[g].model]

(* Wrong variant: every routed request is logged, like the others.         *)
LogsRouted(g) == req[g].routed

Logs(g) == req[g].routed /\ req[g].api # "ollama"

(* The request is answered; routed /chat and OpenAI requests are logged.   *)
Finish(g) ==
  /\ req' = [req EXCEPT ![g] = NoRequest]
  /\ unsaved' = IF Logs(g) THEN unsaved \cup {LoggedRow(g)} ELSE unsaved

(* Wrong variant: the model is called although it is disabled.             *)
MayCallAny(info) == info # Missing

MayCall(info) == info.enabled

(* ChatWithModel: a disabled model is not called, the answer says so; nor  *)
(* is an enabled one whose provider is not configured any more.            *)
Decline(g) ==
  /\ req[g].pc = "call"
  /\ Finish(g)
  /\ UNCHANGED <<registryVars, memo, lookup, seen>>

Send(g) ==
  /\ req[g].pc = "call"
  /\ MayCall(req[g].info)
  /\ req' = [req EXCEPT ![g].pc = "sent"]
  /\ UNCHANGED <<registryVars, memo, lookup, unsaved, seen>>

(* The provider answered or failed; both are logged the same way.          *)
Answered(g) ==
  /\ req[g].pc = "sent"
  /\ Finish(g)
  /\ UNCHANGED <<registryVars, memo, lookup, seen>>

(* The logging goroutine: SaveRoutingDecision succeeds or fails.           *)
SaveRoutingDecision(row) ==
  /\ unsaved' = unsaved \ {row}
  /\ decisions' \in {decisions, decisions \cup {row}}
  /\ UNCHANGED <<table, scores, memory, op, gone, chosen, memo, lookup, req, seen>>

RequestStep(g) ==
  \/ \E api \in Apis, p \in Prompts, name \in Names \cup {NoModel} : Arrive(g, api, p, name)
  \/ Snapshot(g)
  \/ Hit(g)
  \/ Miss(g)
  \/ \E decided \in {NoModel, FallbackModel} : MetaModelFails(g, decided)
  \/ \E reply \in Names \cup {NoModel} : MetaModelReplies(g, reply)
  \/ Remember(g)
  \/ Resolve(g)
  \/ Decline(g)
  \/ Send(g)
  \/ Answered(g)

(* A registry operation runs while requests are being handled. *)
RegistryStep ==
  /\ \E o \in Ops : AdminStep(o) \/ BackgroundStep(o)
  /\ seen' = [g \in Callers |-> IF req[g].pc = "idle" THEN seen[g]
                                ELSE seen[g] \cup Enabled(memory')]
  /\ UNCHANGED requestVars

(* The process dies: requests, rows not yet logged and the cache are lost. *)
RestartServer ==
  /\ Restart
  /\ memo' = [k \in CacheKeys |-> NoModel]
  /\ lookup' = [g \in Callers |-> [lookup[g] EXCEPT !.pc = "idle", !.model = NoModel]]
  /\ req' = [g \in Callers |-> NoRequest]
  /\ unsaved' = {}
  /\ seen' = [g \in Callers |-> {}]

RoutingNext ==
  \/ \E g \in Callers : RequestStep(g)
  \/ \E row \in unsaved : SaveRoutingDecision(row)
  \/ RegistryStep
  \/ RestartServer

RoutingSpec == RoutingInit /\ [][RoutingNext]_vars

-------------------------------------------------------------------------------
(* Properties *)

(* Whatever the decision cache answers, now or after the decision under    *)
(* way is recorded, is a model of the snapshot it is asked with, or the    *)
(* fallback model: never a name the meta-model made up.                    *)
RemembersUsable ==
  LET Usable(k, m) == m \in Offered(k[2]) \cup {FallbackModel}
  IN  /\ \A k \in CacheKeys : memo[k] # NoModel => Usable(k, memo[k])
      /\ \A g \in Callers : lookup[g].pc = "storing" => Usable(lookup[g].key, lookup[g].model)

(* A provider is only called for a model that was enabled, with that       *)
(* source, at some moment since the request arrived, and that has useful   *)
(* tags unless an admin enabled its name: no cached decision, fallback or  *)
(* name given by the caller reaches a model that was disabled or gone all  *)
(* the time, or an untagged one nobody wanted.                             *)
CallsEnabled ==
  \A g \in Callers : req[g].pc = "call" /\ req'[g].pc = "sent" =>
    /\ <<req'[g].model, req'[g].info.source>> \in seen'[g]
    /\ Routable(req'[g].model, req'[g].info)

CallsOnlyEnabled == [][CallsEnabled]_vars

(* A logged decision names the model that answered, unless the meta-model  *)
(* failed: then it names none, or the fallback model (model_selection.go:  *)
(* 86-97).                                                                 *)
RowsNameAnswerer ==
  \A d \in decisions \cup unsaved :
    d.selected = d.used \/ (MetaFails /\ d.selected \in {NoModel, FallbackModel})
================================================================================
