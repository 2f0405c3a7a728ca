------------------------------ MODULE Providers ------------------------------
(***************************************************************************)
(* Provider configuration (providers.go, config.go, apikeys_handlers.go):  *)
(* the list in s.config, which the console's handlers change under         *)
(* providerMutex, the file providers.json they save it to, and the copy of *)
(* the list that the LLM client calls providers with.  Handlers hold the   *)
(* mutex from beginning to end and are one step each; a connectivity test  *)
(* lets go of it while it calls the provider, and a change of an API key   *)
(* takes it only to resolve the keys again.                                *)
(*                                                                         *)
(* Of a provider the model keeps whether it is enabled, as all the fields  *)
(* that are only stored (URLs, paths, timeout, models) go the same way,    *)
(* and the variables and keys of the provider and of one model override.   *)
(***************************************************************************)
EXTENDS FiniteSets

CONSTANTS Names,       (* names a provider may have                         *)
          DefaultName, (* the provider of defaultProviders                  *)
          Vars,        (* environment variables that hold API keys          *)
          DefaultVar,  (* OPENAI_API_KEY                                    *)
          Keys,        (* API keys                                          *)
          NoVar,       (* no variable is named                              *)
          ProviderVars, OverrideVars, (* what providers and overrides name  *)
          NoKey,       (* the variable is not set, or no key was resolved   *)
          Absent,      (* there is no provider of that name                 *)
          Unreadable,  (* providers.json is not there, or is not JSON       *)
          KeyRequests, (* goroutines that set or delete API keys            *)
          Tests,       (* goroutines that test a provider                   *)
          NoTest,      (* a goroutine that tests no provider                *)
          Mounted,     (* providers.json is a bind mount                    *)
          Faults       (* whether saving may fail                           *)

ASSUME ProvidersAssumption ==
  /\ DefaultName \in Names
  /\ DefaultVar \in Vars
  /\ NoVar \notin Vars
  /\ ProviderVars \subseteq Vars \cup {NoVar} /\ DefaultVar \in ProviderVars
  /\ OverrideVars \subseteq Vars \cup {NoVar} /\ NoVar \in OverrideVars
  /\ NoTest \notin Names
  /\ Mounted \in BOOLEAN /\ Faults \in BOOLEAN

MaybeKey == Keys \cup {NoKey}

Environments == [Vars -> MaybeKey]

(* mvar and mkey: those of the model override.                             *)
ProviderConfig == [enabled : BOOLEAN, var : ProviderVars, key : MaybeKey,
                   mvar : OverrideVars, mkey : MaybeKey]

(* A provider in the file, whose keys are not written.  The field enabled  *)
(* may be missing in a file written by hand.                               *)
ProviderJSON == [enabled : {"true", "false", "missing"}, var : ProviderVars, mvar : OverrideVars]

ASSUME AbsentAssumption ==
  /\ Absent \notin ProviderConfig /\ Absent \notin ProviderJSON
  /\ Unreadable \notin [Names -> ProviderJSON \cup {Absent}]

Lists == [Names -> ProviderConfig \cup {Absent}]
Files == [Names -> ProviderJSON \cup {Absent}]

Present(list) == {n \in Names : list[n] # Absent}

VARIABLES osenv,    (* the environment of the process                       *)
          stored,   (* what .env says of the API keys                       *)
          memory,   (* s.config.Providers                                   *)
          file,     (* providers.json                                       *)
          client,   (* the providers of the LLM client                      *)
          shared,   (* providers whose model overrides are one array in     *)
                    (* memory and in client                                 *)
          resolving,(* key requests between Setenv and resolveAllProviderKeys *)
          testing,  (* testing[t]: the provider that goroutine t tests      *)
          results,  (* keys of providerTestInfo                             *)
          unsaved,  (* history: since the last save that worked, one failed *)
                    (* after a change, or has destroyed the file            *)
          unseen,   (* history: the client was not given the last change    *)
          overtaken (* history: providers deleted while they were tested    *)

vars == <<osenv, stored, memory, file, client, shared, resolving, testing,
          results, unsaved, unseen, overtaken>>

TypeOK ==
  /\ osenv \in Environments /\ stored \in Environments
  /\ memory \in Lists
  /\ file \in Files \cup {Unreadable}
  /\ client \in Lists
  /\ shared \subseteq Names
  /\ resolving \subseteq KeyRequests
  /\ testing \in [Tests -> Names \cup {NoTest}]
  /\ results \subseteq Names
  /\ unsaved \in BOOLEAN /\ unseen \in BOOLEAN
  /\ overtaken \subseteq Names

-------------------------------------------------------------------------------
(* ResolveProviderKeys: where no variable is named the key stays as it is. *)
ResolveProviderKeys(p, env) ==
  [enabled |-> p.enabled,
   var     |-> p.var,  key  |-> IF p.var = NoVar THEN p.key ELSE env[p.var],
   mvar    |-> p.mvar, mkey |-> IF p.mvar = NoVar THEN p.mkey ELSE env[p.mvar]]

(* A provider whose keys have not been resolved yet.                       *)
Unresolved(enabled, var, mvar) ==
  [enabled |-> enabled, var |-> var, key |-> NoKey, mvar |-> mvar, mkey |-> NoKey]

(* loadProviders: enabled unless the file says otherwise.                  *)
EnabledIn(json) == json.enabled # "false"

defaultProviders(env) ==
  [n \in Names |-> IF n = DefaultName
                   THEN ResolveProviderKeys(Unresolved(TRUE, DefaultVar, NoVar), env)
                   ELSE Absent]

loadProviders(content, env) ==
  IF content = Unreadable THEN defaultProviders(env)
  ELSE [n \in Names |->
          IF content[n] = Absent THEN Absent
          ELSE ResolveProviderKeys(
                 Unresolved(EnabledIn(content[n]), content[n].var, content[n].mvar), env)]

(* Wrong variant: the key is written too.                                  *)
MarshalWithKey(p) ==
  [enabled |-> IF p.enabled THEN "true" ELSE "false", var |-> p.var, key |-> p.key,
   mvar |-> p.mvar]

(* Wrong variant: omitempty leaves a field out that is false.              *)
MarshalOmitting(p) ==
  [enabled |-> IF p.enabled THEN "true" ELSE "missing", var |-> p.var, mvar |-> p.mvar]

Marshal(p) ==
  [enabled |-> IF p.enabled THEN "true" ELSE "false", var |-> p.var, mvar |-> p.mvar]

MarshalAll(list) == [n \in Names |-> IF list[n] = Absent THEN Absent ELSE Marshal(list[n])]

(* SaveProviders: a temporary file is written and renamed; if the target   *)
(* is mounted, or the rename fails, the file itself is written.            *)
SaveProviders(list) == file' = MarshalAll(list)

(* The temporary file cannot be written, or writing in place fails.        *)
SaveFails == Faults /\ file' \in {file, Unreadable}

(* The client copies the list; the arrays of overrides are not copied.     *)
SetProviders(list) ==
  /\ client' = list
  /\ shared' = Present(list)
  /\ unseen' = FALSE

(* The end of the handlers that change a provider that is there: when the  *)
(* save fails the memory stays changed.  In still, the overrides that are  *)
(* shared still, the keys resolved in memory are the client's too.         *)
Save(list, still) ==
  /\ memory' = list
  /\ \/ SaveProviders(list) /\ SetProviders(list) /\ unsaved' = FALSE
     \/ /\ SaveFails
        /\ shared' = still
        /\ client' = [n \in Names |-> IF n \in still
                                      THEN [enabled |-> client[n].enabled,
                                            var |-> client[n].var, key |-> client[n].key,
                                            mvar |-> client[n].mvar, mkey |-> list[n].mkey]
                                      ELSE client[n]]
        /\ unsaved' = TRUE /\ unseen' = TRUE

-------------------------------------------------------------------------------
Init ==
  /\ stored \in Environments /\ osenv = stored
  /\ file \in Files \cup {Unreadable}
  /\ memory = loadProviders(file, osenv)
  /\ client = memory /\ shared = Present(memory)
  /\ resolving = {}
  /\ testing = [t \in Tests |-> NoTest]
  /\ results = {} /\ overtaken = {}
  /\ unsaved = FALSE /\ unseen = FALSE

(* Wrong variant: a provider that could not be saved stays in memory.      *)
AddKeeping(n, enabled, var, mvar) ==
  LET added == [memory EXCEPT ![n] =
                  ResolveProviderKeys(Unresolved(enabled, var, mvar), osenv)] IN
  /\ memory[n] = Absent
  /\ memory' = added
  /\ \/ SaveProviders(added) /\ SetProviders(added) /\ unsaved' = FALSE
     \/ SaveFails /\ unsaved' = (unsaved \/ file' # file) /\ UNCHANGED <<client, shared, unseen>>
  /\ UNCHANGED <<osenv, stored, resolving, testing, results, overtaken>>

handleAddProvider(n, enabled, var, mvar) ==
  LET added == [memory EXCEPT ![n] =
                  ResolveProviderKeys(Unresolved(enabled, var, mvar), osenv)] IN
  /\ memory[n] = Absent
  /\ \/ SaveProviders(added) /\ memory' = added /\ SetProviders(added) /\ unsaved' = FALSE
     \/ /\ SaveFails
        /\ unsaved' = (unsaved \/ file' # file)
        /\ UNCHANGED <<memory, client, shared, unseen>>
  /\ UNCHANGED <<osenv, stored, resolving, testing, results, overtaken>>

handleUpdateProvider(n, enabled, var) ==
  LET p == memory[n]
      updated == [enabled |-> enabled, var |-> var, key |-> p.key,
                  mvar |-> p.mvar, mkey |-> p.mkey]
  IN
  /\ p # Absent
  /\ Save([memory EXCEPT ![n] = ResolveProviderKeys(updated, osenv)], shared)
  /\ UNCHANGED <<osenv, stored, resolving, testing, results, overtaken>>

handleToggleProvider(n, enabled) ==
  LET p == memory[n]
      toggled == [enabled |-> enabled, var |-> p.var, key |-> p.key,
                  mvar |-> p.mvar, mkey |-> p.mkey]
  IN
  /\ p # Absent
  /\ Save([memory EXCEPT ![n] = toggled], shared)
  /\ UNCHANGED <<osenv, stored, resolving, testing, results, overtaken>>

(* The overrides are replaced by a new array.                              *)
handleUpdateModelConfigs(n, mvar) ==
  LET p == memory[n]
      configured == [enabled |-> p.enabled, var |-> p.var, key |-> p.key,
                     mvar |-> mvar, mkey |-> NoKey]
  IN
  /\ p # Absent
  /\ Save([memory EXCEPT ![n] = ResolveProviderKeys(configured, osenv)], shared \ {n})
  /\ UNCHANGED <<osenv, stored, resolving, testing, results, overtaken>>

(* Wrong variant: the result of the last test is not deleted.              *)
DeleteOnly(n) ==
  /\ memory[n] # Absent
  /\ overtaken' = IF \E t \in Tests : testing[t] = n THEN overtaken \cup {n}
                  ELSE overtaken \ {n}
  /\ Save([memory EXCEPT ![n] = Absent], shared \ {n})
  /\ UNCHANGED <<osenv, stored, resolving, testing, results>>

handleDeleteProvider(n) ==
  /\ memory[n] # Absent
  /\ results' = results \ {n}
  /\ overtaken' = IF \E t \in Tests : testing[t] = n THEN overtaken \cup {n}
                  ELSE overtaken \ {n}
  /\ Save([memory EXCEPT ![n] = Absent], shared \ {n})
  /\ UNCHANGED <<osenv, stored, resolving, testing>>

(* handleTestProvider copies the provider under the lock, calls it without *)
(* and stores the result under the lock again.                             *)
StartTest(t, n) ==
  /\ testing[t] = NoTest /\ memory[n] # Absent
  /\ testing' = [testing EXCEPT ![t] = n]
  /\ UNCHANGED <<osenv, stored, memory, file, client, shared, resolving, results,
                 unsaved, unseen, overtaken>>

EndTest(t) ==
  /\ testing[t] # NoTest
  /\ results' = results \cup {testing[t]}
  /\ testing' = [testing EXCEPT ![t] = NoTest]
  /\ UNCHANGED <<osenv, stored, memory, file, client, shared, resolving,
                 unsaved, unseen, overtaken>>

(* handleSetApiKey and handleDeleteApiKey, once .env is written (Settings  *)
(* has that step by step): Setenv or Unsetenv,                             *)
ChangeKey(q, v, key) ==
  /\ q \notin resolving
  /\ stored' = [stored EXCEPT ![v] = key]
  /\ osenv' = [osenv EXCEPT ![v] = key]
  /\ resolving' = resolving \cup {q}
  /\ UNCHANGED <<memory, file, client, shared, testing, results, unsaved, unseen, overtaken>>

Resolved == [n \in Names |-> IF memory[n] = Absent THEN Absent
                             ELSE ResolveProviderKeys(memory[n], osenv)]

(* Wrong variant: the client is not given the providers.                   *)
ResolveInMemory(q) ==
  /\ q \in resolving
  /\ memory' = Resolved
  /\ client' = [n \in Names |-> IF n \in shared
                                THEN [client[n] EXCEPT !.mkey = memory'[n].mkey] ELSE client[n]]
  /\ resolving' = resolving \ {q}
  /\ UNCHANGED <<osenv, stored, file, shared, testing, results, unsaved, unseen, overtaken>>

(* and then the keys of all providers are resolved anew; nothing is saved. *)
resolveAllProviderKeys(q) ==
  /\ q \in resolving
  /\ memory' = Resolved
  /\ SetProviders(memory')
  /\ resolving' = resolving \ {q}
  /\ UNCHANGED <<osenv, stored, file, testing, results, unsaved, overtaken>>

(* The process dies, perhaps while it writes providers.json in place, and  *)
(* starts again: NewServer and NewClient.                                  *)
Restart ==
  /\ file' \in IF Mounted \/ Faults THEN {file, Unreadable} ELSE {file}
  /\ osenv' = stored
  /\ memory' = loadProviders(file', stored)
  /\ SetProviders(memory')
  /\ resolving' = {}
  /\ testing' = [t \in Tests |-> NoTest]
  /\ results' = {} /\ overtaken' = {}
  /\ unsaved' = FALSE
  /\ UNCHANGED stored

ProviderRequest(n) ==
  \/ \E enabled \in BOOLEAN, var \in ProviderVars, mvar \in OverrideVars :
       handleAddProvider(n, enabled, var, mvar)
  \/ \E enabled \in BOOLEAN, var \in ProviderVars : handleUpdateProvider(n, enabled, var)
  \/ \E enabled \in BOOLEAN : handleToggleProvider(n, enabled)
  \/ \E mvar \in OverrideVars : handleUpdateModelConfigs(n, mvar)
  \/ handleDeleteProvider(n)
  \/ \E t \in Tests : StartTest(t, n)

Next ==
  \/ \E n \in Names : ProviderRequest(n)
  \/ \E t \in Tests : EndTest(t)
  \/ \E q \in KeyRequests : resolveAllProviderKeys(q) \/
       \E v \in Vars, key \in MaybeKey : ChangeKey(q, v, key)
  \/ Restart

Spec == Init /\ [][Next]_vars

-------------------------------------------------------------------------------
(* Properties *)

(* A restart finds the providers the process runs with, enabled or not as  *)
(* they are now, unless the last save has failed: a provider that could    *)
(* not be saved is not kept, a disabled one does not come back enabled     *)
(* (providers.go:195-202, config.go:306-328).                              *)
RestartKeepsProviders == ~unsaved => MarshalAll(loadProviders(file, osenv)) = MarshalAll(memory)

(* The client calls the providers that the console shows, with the same    *)
(* keys, unless the last change could not be saved (client.go:60-80).      *)
ClientFollows == ~unseen => client = memory

(* ForModel: the key a call of the model with the override sends.          *)
ForModel(p) == IF p.mkey # NoKey THEN p.mkey ELSE p.key

(* Wherever a provider names its variable, a call sends the key that the   *)
(* environment holds now, unless a request is about to resolve it, and     *)
(* whatever saves have failed: the override's key, or without one the      *)
(* provider's (config.go:68-88, 347-366).                                  *)
CallsSendCurrentKeys ==
  resolving = {} =>
    \A n \in Present(client) :
      LET p == client[n] IN
      p.var # NoVar =>
        ForModel(p) = IF p.mvar # NoVar /\ osenv[p.mvar] # NoKey THEN osenv[p.mvar]
                      ELSE osenv[p.var]

(* A test result is shown for a provider that is there, unless the test    *)
(* has outlived the provider (providers.go:289, 380-382).                  *)
ResultsHaveProvider == results \subseteq Present(memory) \cup overtaken
================================================================================
