--------------------------- MODULE ProvidersProofs ---------------------------
(* Proofs about Providers: types, that a restart finds the same providers, *)
(* that the client follows them, the keys it sends, and the test results.  *)
EXTENDS Providers, TLAPS

(* Fields of a provider, and that it is one.                               *)
LEMMA ConfigFields ==
  ASSUME NEW p \in ProviderConfig
  PROVE  /\ p.enabled \in BOOLEAN /\ p.var \in ProviderVars /\ p.key \in MaybeKey
         /\ p.mvar \in OverrideVars /\ p.mkey \in MaybeKey
         /\ p # Absent
BY AbsentAssumption DEF ProviderConfig

(* Which variables there are, and which names. *)
LEMMA VarsAre ==
  /\ \A v \in ProviderVars \cup OverrideVars : v # NoVar => v \in Vars
  /\ NoVar \in OverrideVars /\ DefaultVar \in ProviderVars /\ DefaultVar \in Vars
  /\ DefaultName \in Names /\ NoTest \notin Names
BY ProvidersAssumption DEF ProvidersAssumption

(* A variable of the environment has a key or none. *)
LEMMA EnvAt ==
  ASSUME NEW env \in Environments, NEW v \in Vars
  PROVE  env[v] \in MaybeKey
BY DEF Environments

(* A provider as it is before its keys are resolved. *)
LEMMA UnresolvedType ==
  ASSUME NEW e \in BOOLEAN, NEW v \in ProviderVars, NEW m \in OverrideVars
  PROVE  Unresolved(e, v, m) \in ProviderConfig
BY DEF Unresolved, ProviderConfig, MaybeKey

(* Resolving the keys of a provider gives a provider with the same fields  *)
(* in the file.                                                            *)
LEMMA ResolveType ==
  ASSUME NEW p \in ProviderConfig, NEW env \in Environments
  PROVE  /\ ResolveProviderKeys(p, env) \in ProviderConfig
         /\ ResolveProviderKeys(p, env) # Absent
         /\ Marshal(ResolveProviderKeys(p, env)) = Marshal(p)
<1>1. /\ p.enabled \in BOOLEAN /\ p.var \in ProviderVars /\ p.key \in MaybeKey
      /\ p.mvar \in OverrideVars /\ p.mkey \in MaybeKey
  BY ConfigFields
<1>2. (IF p.var = NoVar THEN p.key ELSE env[p.var]) \in MaybeKey
  BY <1>1, VarsAre, EnvAt
<1>3. (IF p.mvar = NoVar THEN p.mkey ELSE env[p.mvar]) \in MaybeKey
  BY <1>1, VarsAre, EnvAt
<1>4. ResolveProviderKeys(p, env) \in ProviderConfig
  BY <1>1, <1>2, <1>3 DEF ResolveProviderKeys, ProviderConfig
<1>5. Marshal(ResolveProviderKeys(p, env)) = Marshal(p)
  BY DEF Marshal, ResolveProviderKeys
<1> QED BY <1>4, <1>5, ConfigFields

(* What is saved of a provider is a provider of the file. *)
LEMMA MarshalType ==
  ASSUME NEW p \in ProviderConfig
  PROVE  Marshal(p) \in ProviderJSON /\ Marshal(p) # Absent
BY ConfigFields, AbsentAssumption DEF Marshal, ProviderJSON

(* What is saved of a list is a file that can be read. *)
LEMMA MarshalAllType ==
  ASSUME NEW list \in Lists
  PROVE  MarshalAll(list) \in Files /\ MarshalAll(list) # Unreadable
<1>1. ASSUME NEW n \in Names
      PROVE  (IF list[n] = Absent THEN Absent ELSE Marshal(list[n])) \in ProviderJSON \cup {Absent}
  BY MarshalType DEF Lists
<1>2. MarshalAll(list) \in Files
  BY <1>1 DEF MarshalAll, Files
<1> QED BY <1>2, AbsentAssumption DEF Files

(* What is loaded from the file for a provider in it.                      *)
LEMMA LoadOne ==
  ASSUME NEW j \in ProviderJSON, NEW env \in Environments
  PROVE  /\ Unresolved(EnabledIn(j), j.var, j.mvar) \in ProviderConfig
         /\ ResolveProviderKeys(Unresolved(EnabledIn(j), j.var, j.mvar), env) \in ProviderConfig
<1>1. EnabledIn(j) \in BOOLEAN /\ j.var \in ProviderVars /\ j.mvar \in OverrideVars
  BY DEF EnabledIn, ProviderJSON
<1>2. Unresolved(EnabledIn(j), j.var, j.mvar) \in ProviderConfig
  BY <1>1, UnresolvedType
<1> QED BY <1>2, ResolveType

(* The list without a file is a list of providers. *)
LEMMA DefaultsType ==
  ASSUME NEW env \in Environments
  PROVE  defaultProviders(env) \in Lists
<1>1. Unresolved(TRUE, DefaultVar, NoVar) \in ProviderConfig
  BY VarsAre, UnresolvedType
<1>2. ResolveProviderKeys(Unresolved(TRUE, DefaultVar, NoVar), env) \in ProviderConfig
  BY <1>1, ResolveType
<1> QED BY <1>2 DEF defaultProviders, Lists

(* Whatever the file holds, a list of providers is loaded. *)
LEMMA LoadType ==
  ASSUME NEW content \in Files \cup {Unreadable}, NEW env \in Environments
  PROVE  loadProviders(content, env) \in Lists
<1>1. CASE content = Unreadable
  BY <1>1, DefaultsType DEF loadProviders
<1>2. CASE content # Unreadable
  <2> DEFINE one(n) == ResolveProviderKeys(
                         Unresolved(EnabledIn(content[n]), content[n].var, content[n].mvar), env)
  <2>1. ASSUME NEW n \in Names
        PROVE  (IF content[n] = Absent THEN Absent ELSE one(n)) \in ProviderConfig \cup {Absent}
    <3>1. content[n] \in ProviderJSON \cup {Absent}
      BY <1>2 DEF Files
    <3>2. content[n] # Absent => one(n) \in ProviderConfig
      BY <3>1, LoadOne
    <3> QED BY <3>2
  <2>2. loadProviders(content, env) = [n \in Names |-> IF content[n] = Absent THEN Absent ELSE one(n)]
    BY <1>2 DEF loadProviders
  <2> HIDE DEF one
  <2> QED BY <2>1, <2>2 DEF Lists
<1> QED BY <1>1, <1>2

(* Reading what was written gives what was there, apart from the keys.     *)
LEMMA RoundTrip ==
  ASSUME NEW list \in Lists, NEW env \in Environments
  PROVE  MarshalAll(loadProviders(MarshalAll(list), env)) = MarshalAll(list)
<1> DEFINE content == MarshalAll(list)
           loaded == loadProviders(content, env)
           one(n) == ResolveProviderKeys(
                       Unresolved(EnabledIn(content[n]), content[n].var, content[n].mvar), env)
<1>1. content \in Files /\ content # Unreadable
  BY MarshalAllType
<1>2. loaded = [n \in Names |-> IF content[n] = Absent THEN Absent ELSE one(n)]
  BY <1>1 DEF loadProviders
<1>3. ASSUME NEW n \in Names
      PROVE  (IF loaded[n] = Absent THEN Absent ELSE Marshal(loaded[n])) = content[n]
  <2>1. content[n] = IF list[n] = Absent THEN Absent ELSE Marshal(list[n])
    BY DEF MarshalAll
  <2>2. CASE list[n] = Absent
    <3>1. content[n] = Absent
      BY <2>1, <2>2
    <3>2. loaded[n] = Absent
      BY <1>2, <3>1
    <3> QED BY <3>1, <3>2
  <2>3. CASE list[n] # Absent
    <3>1. list[n] \in ProviderConfig
      BY <2>3 DEF Lists
    <3>2. content[n] = Marshal(list[n]) /\ content[n] \in ProviderJSON /\ content[n] # Absent
      BY <2>1, <2>3, <3>1, MarshalType
    <3>3. loaded[n] = one(n)
      BY <1>2, <3>2
    <3>4. one(n) \in ProviderConfig
          /\ Unresolved(EnabledIn(content[n]), content[n].var, content[n].mvar) \in ProviderConfig
      BY <3>2, LoadOne
    <3>5. Marshal(one(n)) = Marshal(Unresolved(EnabledIn(content[n]), content[n].var, content[n].mvar))
      BY <3>4, ResolveType
    <3>6. list[n].enabled \in BOOLEAN
      BY <3>1, ConfigFields
    <3>7. Marshal(Unresolved(EnabledIn(content[n]), content[n].var, content[n].mvar)) = content[n]
      BY <3>2, <3>6 DEF Marshal, Unresolved, EnabledIn
    <3>8. one(n) # Absent
      BY <3>4, ConfigFields
    <3> HIDE DEF one
    <3> QED BY <3>3, <3>5, <3>7, <3>8
  <2> QED BY <2>2, <2>3
<1>4. MarshalAll(loaded) = [n \in Names |-> content[n]]
  BY <1>3 DEF MarshalAll
<1>5. content = [n \in Names |-> content[n]]
  BY DEF MarshalAll
<1> QED BY <1>4, <1>5

(* What is loaded depends on the environment in nothing but the keys.      *)
LEMMA LoadEnvFree ==
  ASSUME NEW content \in Files \cup {Unreadable}, NEW e \in Environments, NEW f \in Environments
  PROVE  MarshalAll(loadProviders(content, e)) = MarshalAll(loadProviders(content, f))
<1> DEFINE plain(n) == IF content = Unreadable THEN Unresolved(TRUE, DefaultVar, NoVar)
                       ELSE Unresolved(EnabledIn(content[n]), content[n].var, content[n].mvar)
           there(n) == IF content = Unreadable THEN n = DefaultName ELSE content[n] # Absent
<1>1. ASSUME NEW n \in Names, there(n) PROVE plain(n) \in ProviderConfig
  <2>1. CASE content = Unreadable
    BY <2>1, VarsAre, UnresolvedType
  <2>2. CASE content # Unreadable
    <3>1. content[n] \in ProviderJSON
      BY <1>1, <2>2 DEF Files
    <3> QED BY <2>2, <3>1, <1>1, LoadOne
  <2> QED BY <2>1, <2>2
<1>2. ASSUME NEW env \in Environments
      PROVE  loadProviders(content, env) =
               [n \in Names |-> IF there(n) THEN ResolveProviderKeys(plain(n), env) ELSE Absent]
  BY DEF loadProviders, defaultProviders
<1> HIDE DEF plain, there
<1>3. ASSUME NEW env \in Environments
      PROVE  MarshalAll(loadProviders(content, env)) =
               [n \in Names |-> IF there(n) THEN Marshal(plain(n)) ELSE Absent]
  <2> DEFINE loaded == loadProviders(content, env)
  <2>1. ASSUME NEW n \in Names
        PROVE  (IF loaded[n] = Absent THEN Absent ELSE Marshal(loaded[n]))
               = (IF there(n) THEN Marshal(plain(n)) ELSE Absent)
    <3>1. loaded[n] = IF there(n) THEN ResolveProviderKeys(plain(n), env) ELSE Absent
      BY <1>2
    <3>2. there(n) => /\ ResolveProviderKeys(plain(n), env) # Absent
                      /\ Marshal(ResolveProviderKeys(plain(n), env)) = Marshal(plain(n))
      BY <1>1, ResolveType
    <3> QED BY <3>1, <3>2
  <2> QED BY <2>1 DEF MarshalAll
<1> QED BY <1>3

(* Resolving the keys of all providers changes nothing in the file.        *)
LEMMA ResolvedType ==
  ASSUME memory \in Lists, osenv \in Environments
  PROVE  /\ Resolved \in Lists
         /\ MarshalAll(Resolved) = MarshalAll(memory)
         /\ Present(Resolved) = Present(memory)
<1>1. ASSUME NEW n \in Names, memory[n] # Absent
      PROVE  /\ ResolveProviderKeys(memory[n], osenv) \in ProviderConfig
             /\ ResolveProviderKeys(memory[n], osenv) # Absent
             /\ Marshal(ResolveProviderKeys(memory[n], osenv)) = Marshal(memory[n])
  BY <1>1, ResolveType DEF Lists
<1>2. \A n \in Names : Resolved[n] = IF memory[n] = Absent THEN Absent
                                     ELSE ResolveProviderKeys(memory[n], osenv)
  BY DEF Resolved
<1>3. Resolved \in Lists
  BY <1>1 DEF Resolved, Lists
<1>4. \A n \in Names : (IF Resolved[n] = Absent THEN Absent ELSE Marshal(Resolved[n]))
                       = (IF memory[n] = Absent THEN Absent ELSE Marshal(memory[n]))
  BY <1>1, <1>2
<1>5. MarshalAll(Resolved) = MarshalAll(memory)
  BY <1>4 DEF MarshalAll
<1>6. Present(Resolved) = Present(memory)
  BY <1>1, <1>2 DEF Present
<1> QED BY <1>3, <1>5, <1>6

-------------------------------------------------------------------------------
(* The invariant *)

(* The keys of a provider are those the environment holds, unless they are *)
(* about to be resolved; an override without a variable has none.          *)
KeyOK(p) ==
  /\ p.mvar = NoVar => p.mkey = NoKey
  /\ resolving = {} => /\ p.var # NoVar => p.key = osenv[p.var]
                       /\ p.mvar # NoVar => p.mkey = osenv[p.mvar]

KeysInv == \A n \in Names : /\ memory[n] # Absent => KeyOK(memory[n])
                            /\ client[n] # Absent => KeyOK(client[n])

(* Overrides that are one array are in both lists, and the same.           *)
SharedInv == \A n \in shared : /\ memory[n] # Absent /\ client[n] # Absent
                               /\ client[n].mvar = memory[n].mvar
                               /\ client[n].mkey = memory[n].mkey

TestsInv ==
  /\ results \subseteq Present(memory) \cup overtaken
  /\ \A t \in Tests : testing[t] # NoTest => testing[t] \in Present(memory) \cup overtaken

Inv == /\ TypeOK
       /\ RestartKeepsProviders
       /\ ClientFollows
       /\ KeysInv
       /\ SharedInv
       /\ TestsInv

(* A provider whose keys are resolved now.                                 *)
LEMMA ResolveOK ==
  ASSUME NEW p \in ProviderConfig, p.mvar = NoVar => p.mkey = NoKey
  PROVE  KeyOK(ResolveProviderKeys(p, osenv))
BY DEF KeyOK, ResolveProviderKeys

(* The client has been given the list in memory.                           *)
LEMMA AfterSetProviders ==
  ASSUME memory' \in Lists, SetProviders(memory'),
         \A n \in Names : memory'[n] # Absent => KeyOK(memory[n])'
  PROVE  /\ client' \in Lists /\ shared' \subseteq Names /\ unseen' \in BOOLEAN
         /\ ClientFollows' /\ KeysInv' /\ SharedInv'
BY DEF SetProviders, ClientFollows, KeysInv, SharedInv, Present

(* A provider that was there has been changed to e, or deleted, and the    *)
(* list saved or not.                                                      *)
LEMMA AfterSave ==
  ASSUME Inv, NEW n \in Names, memory[n] # Absent, NEW e \in ProviderConfig \cup {Absent},
         NEW still \in SUBSET shared,
         Save([memory EXCEPT ![n] = e], still),
         UNCHANGED <<osenv, stored, resolving, testing>>,
         results' \subseteq Names, overtaken' \subseteq Names,
         e # Absent => KeyOK(e),
         n \in still => e # Absent /\ e.mvar = memory[n].mvar
  PROVE  /\ TypeOK' /\ RestartKeepsProviders' /\ ClientFollows' /\ KeysInv' /\ SharedInv'
         /\ memory' = [memory EXCEPT ![n] = e]
<1> DEFINE list == [memory EXCEPT ![n] = e]
<1>0. memory' = list
  BY DEF Save
<1>1. list \in Lists
  BY DEF Inv, TypeOK, Lists
<1>2. \A m \in Names : list[m] = IF m = n THEN e ELSE memory[m]
  BY DEF Inv, TypeOK, Lists
<1>3. \A m \in Names : list[m] # Absent => KeyOK(list[m])
  BY <1>2 DEF Inv, KeysInv
<1> HIDE DEF list
<1>4. \A m \in Names : memory'[m] # Absent => KeyOK(memory[m])'
  BY <1>0, <1>3 DEF KeyOK
<1>5. CASE SaveProviders(list) /\ SetProviders(list) /\ unsaved' = FALSE
  <2>1. /\ client' \in Lists /\ shared' \subseteq Names /\ unseen' \in BOOLEAN
        /\ ClientFollows' /\ KeysInv' /\ SharedInv'
    BY <1>0, <1>1, <1>4, <1>5, AfterSetProviders
  <2>2. file' = MarshalAll(list) /\ file' \in Files
    BY <1>1, <1>5, MarshalAllType DEF SaveProviders
  <2>3. RestartKeepsProviders'
    <3>1. osenv' \in Environments
      BY DEF Inv, TypeOK
    <3> QED BY <1>0, <1>1, <2>2, <3>1, RoundTrip DEF RestartKeepsProviders
  <2>4. TypeOK'
    BY <1>0, <1>1, <1>5, <2>1, <2>2 DEF Inv, TypeOK
  <2> QED BY <1>0, <2>1, <2>3, <2>4 DEF list
<1>6. ASSUME SaveFails, shared' = still, unsaved' = TRUE, unseen' = TRUE,
             client' = [m \in Names |-> IF m \in still
                                        THEN [enabled |-> client[m].enabled,
                                              var |-> client[m].var, key |-> client[m].key,
                                              mvar |-> client[m].mvar, mkey |-> list[m].mkey]
                                        ELSE client[m]]
      PROVE  TypeOK' /\ RestartKeepsProviders' /\ ClientFollows' /\ KeysInv' /\ SharedInv'
  <2>1. ASSUME NEW m \in still
        PROVE  /\ list[m] # Absent /\ list[m] \in ProviderConfig /\ list[m].mvar = memory[m].mvar
               /\ client[m] # Absent /\ client[m] \in ProviderConfig
               /\ client[m].mvar = memory[m].mvar
               /\ m \in Names
    <3>1. /\ m \in shared /\ m \in Names /\ memory[m] # Absent /\ client[m] # Absent
          /\ client[m].mvar = memory[m].mvar
      BY DEF Inv, TypeOK, SharedInv
    <3>2. client[m] \in ProviderConfig
      BY <3>1 DEF Inv, TypeOK, Lists
    <3>3. list[m] # Absent /\ list[m].mvar = memory[m].mvar
      BY <1>2, <3>1
    <3>4. list[m] \in ProviderConfig
      BY <1>1, <3>1, <3>3 DEF Lists
    <3> QED BY <3>1, <3>2, <3>3, <3>4
  <2>2. ASSUME NEW m \in Names
        PROVE  /\ client'[m] \in ProviderConfig \cup {Absent}
               /\ client'[m] # Absent => KeyOK(client[m])'
    <3>1. CASE m \in still
      <4>1. client'[m] = [enabled |-> client[m].enabled, var |-> client[m].var,
                          key |-> client[m].key, mvar |-> client[m].mvar, mkey |-> list[m].mkey]
        BY <1>6, <3>1
      <4>2. /\ client[m] \in ProviderConfig /\ client[m] # Absent /\ list[m] \in ProviderConfig
            /\ list[m] # Absent /\ client[m].mvar = list[m].mvar
        BY <2>1, <3>1
      <4>3. client'[m] \in ProviderConfig
        BY <4>1, <4>2, ConfigFields DEF ProviderConfig
      <4>4. KeyOK(client[m]) /\ KeyOK(list[m])
        BY <1>3, <4>2 DEF Inv, KeysInv
      <4>5. /\ client'[m].var = client[m].var /\ client'[m].key = client[m].key
            /\ client'[m].mvar = list[m].mvar /\ client'[m].mkey = list[m].mkey
        BY <4>1, <4>2
      <4>6. KeyOK(client[m])'
        BY <4>4, <4>5 DEF KeyOK
      <4> QED BY <4>3, <4>6
    <3>2. CASE m \notin still
      <4>1. client'[m] = client[m]
        BY <1>6, <3>2
      <4>2. client[m] \in ProviderConfig \cup {Absent} /\ (client[m] # Absent => KeyOK(client[m]))
        BY DEF Inv, TypeOK, KeysInv, Lists
      <4> QED BY <4>1, <4>2 DEF KeyOK
    <3> QED BY <3>1, <3>2
  <2>3. client' = [m \in Names |-> client'[m]]
    BY <1>6
  <2>4. client' \in Lists
    BY <2>2, <2>3 DEF Lists
  <2>5. KeysInv'
    BY <1>4, <2>2 DEF KeysInv
  <2>6. ASSUME NEW m \in still
        PROVE  /\ memory'[m] # Absent /\ client'[m] # Absent
               /\ client'[m].mvar = memory'[m].mvar
               /\ client'[m].mkey = memory'[m].mkey
    <3>1. client'[m] = [enabled |-> client[m].enabled, var |-> client[m].var,
                        key |-> client[m].key, mvar |-> client[m].mvar, mkey |-> list[m].mkey]
      BY <1>6, <2>1
    <3>2. client'[m].mvar = client[m].mvar /\ client'[m].mkey = list[m].mkey
      BY <3>1
    <3>3. client'[m] \in ProviderConfig
      BY <2>1, <3>1, ConfigFields DEF ProviderConfig
    <3> QED BY <1>0, <2>1, <3>2, <3>3, ConfigFields
  <2>7. SharedInv'
    BY <1>6, <2>6 DEF SharedInv
  <2>8. file' \in Files \cup {Unreadable}
    BY <1>6 DEF SaveFails, Inv, TypeOK
  <2>9. TypeOK'
    BY <1>0, <1>1, <1>6, <2>4, <2>8 DEF Inv, TypeOK
  <2> QED BY <1>6, <2>5, <2>7, <2>9 DEF RestartKeepsProviders, ClientFollows
<1> QED BY <1>0, <1>5, <1>6 DEF Save, list

(* What the tests need of a change that keeps the provider.                *)
LEMMA TestsKept ==
  ASSUME Inv, NEW n \in Names, NEW e \in ProviderConfig, memory' = [memory EXCEPT ![n] = e],
         UNCHANGED <<testing, results, overtaken>>
  PROVE  TestsInv'
<1>1. memory \in Lists
  BY DEF Inv, TypeOK
<1>2. \A m \in Names : memory[m] # Absent => memory'[m] # Absent
  BY <1>1, ConfigFields DEF Lists
<1>3. Present(memory) \subseteq Present(memory')
  BY <1>2 DEF Present
<1> QED BY <1>3 DEF Inv, TestsInv

(* An update resolves the keys again. *)
LEMMA UpdateInv ==
  ASSUME Inv, NEW n \in Names, NEW enabled \in BOOLEAN, NEW var \in ProviderVars,
         handleUpdateProvider(n, enabled, var)
  PROVE  Inv'
<1> DEFINE p == memory[n]
           updated == [enabled |-> enabled, var |-> var, key |-> p.key,
                       mvar |-> p.mvar, mkey |-> p.mkey]
           e == ResolveProviderKeys(updated, osenv)
<1>1. p # Absent /\ p \in ProviderConfig /\ KeyOK(p)
  BY DEF handleUpdateProvider, Inv, TypeOK, KeysInv, Lists
<1>2. updated \in ProviderConfig
  BY <1>1, ConfigFields DEF ProviderConfig
<1>3. e \in ProviderConfig
  BY <1>2, ResolveType DEF Inv, TypeOK
<1>4. updated.mvar = NoVar => updated.mkey = NoKey
  BY <1>1 DEF KeyOK
<1>5. KeyOK(e)
  BY <1>2, <1>4, ResolveOK
<1>6. e.mvar = p.mvar
  BY DEF ResolveProviderKeys
<1>7. /\ Save([memory EXCEPT ![n] = e], shared)
      /\ UNCHANGED <<osenv, stored, resolving, testing, results, overtaken>>
  BY DEF handleUpdateProvider
<1> HIDE DEF e
<1>8. results' \subseteq Names /\ overtaken' \subseteq Names /\ shared \in SUBSET shared
  BY <1>7 DEF Inv, TypeOK
<1>9. /\ TypeOK' /\ RestartKeepsProviders' /\ ClientFollows' /\ KeysInv' /\ SharedInv'
      /\ memory' = [memory EXCEPT ![n] = e]
  BY <1>1, <1>3, <1>5, <1>6, <1>7, <1>8, ConfigFields, AfterSave
<1>10. TestsInv'
  BY <1>3, <1>7, <1>9, TestsKept
<1> QED BY <1>9, <1>10 DEF Inv

(* Switching a provider on or off leaves its keys. *)
LEMMA ToggleInv ==
  ASSUME Inv, NEW n \in Names, NEW enabled \in BOOLEAN, handleToggleProvider(n, enabled)
  PROVE  Inv'
<1> DEFINE p == memory[n]
           e == [enabled |-> enabled, var |-> p.var, key |-> p.key,
                 mvar |-> p.mvar, mkey |-> p.mkey]
<1>1. p # Absent /\ p \in ProviderConfig /\ KeyOK(p)
  BY DEF handleToggleProvider, Inv, TypeOK, KeysInv, Lists
<1>2. e \in ProviderConfig
  BY <1>1, ConfigFields DEF ProviderConfig
<1>3. KeyOK(e)
  BY <1>1 DEF KeyOK
<1>4. e.mvar = p.mvar
  OBVIOUS
<1>5. /\ Save([memory EXCEPT ![n] = e], shared)
      /\ UNCHANGED <<osenv, stored, resolving, testing, results, overtaken>>
  BY DEF handleToggleProvider
<1> HIDE DEF e
<1>6. results' \subseteq Names /\ overtaken' \subseteq Names /\ shared \in SUBSET shared
  BY <1>5 DEF Inv, TypeOK
<1>7. /\ TypeOK' /\ RestartKeepsProviders' /\ ClientFollows' /\ KeysInv' /\ SharedInv'
      /\ memory' = [memory EXCEPT ![n] = e]
  BY <1>1, <1>2, <1>3, <1>4, <1>5, <1>6, ConfigFields, AfterSave
<1>8. TestsInv'
  BY <1>2, <1>5, <1>7, TestsKept
<1> QED BY <1>7, <1>8 DEF Inv

(* New overrides are another array, and are resolved. *)
LEMMA ModelConfigsInv ==
  ASSUME Inv, NEW n \in Names, NEW mvar \in OverrideVars, handleUpdateModelConfigs(n, mvar)
  PROVE  Inv'
<1> DEFINE p == memory[n]
           configured == [enabled |-> p.enabled, var |-> p.var, key |-> p.key,
                          mvar |-> mvar, mkey |-> NoKey]
           e == ResolveProviderKeys(configured, osenv)
<1>1. p # Absent /\ p \in ProviderConfig
  BY DEF handleUpdateModelConfigs, Inv, TypeOK, Lists
<1>2. configured \in ProviderConfig
  BY <1>1, ConfigFields DEF ProviderConfig, MaybeKey
<1>3. e \in ProviderConfig
  BY <1>2, ResolveType DEF Inv, TypeOK
<1>4. KeyOK(e)
  BY <1>2, ResolveOK
<1>5. /\ Save([memory EXCEPT ![n] = e], shared \ {n})
      /\ UNCHANGED <<osenv, stored, resolving, testing, results, overtaken>>
  BY DEF handleUpdateModelConfigs
<1> HIDE DEF e
<1>6. results' \subseteq Names /\ overtaken' \subseteq Names
  BY <1>5 DEF Inv, TypeOK
<1>7. shared \ {n} \in SUBSET shared /\ n \notin shared \ {n}
  OBVIOUS
<1>8. /\ TypeOK' /\ RestartKeepsProviders' /\ ClientFollows' /\ KeysInv' /\ SharedInv'
      /\ memory' = [memory EXCEPT ![n] = e]
  BY <1>1, <1>3, <1>4, <1>5, <1>6, <1>7, AfterSave
<1>9. TestsInv'
  BY <1>3, <1>5, <1>8, TestsKept
<1> QED BY <1>8, <1>9 DEF Inv

(* A deleted provider takes its result along; its test is overtaken. *)
LEMMA DeleteInv ==
  ASSUME Inv, NEW n \in Names, handleDeleteProvider(n)
  PROVE  Inv'
<1>1. /\ memory[n] # Absent
      /\ results' = results \ {n}
      /\ overtaken' = IF \E t \in Tests : testing[t] = n THEN overtaken \cup {n}
                      ELSE overtaken \ {n}
      /\ Save([memory EXCEPT ![n] = Absent], shared \ {n})
      /\ UNCHANGED <<osenv, stored, resolving, testing>>
  BY DEF handleDeleteProvider
<1>2. results' \subseteq Names /\ overtaken' \subseteq Names
  BY <1>1 DEF Inv, TypeOK
<1>3. shared \ {n} \in SUBSET shared /\ n \notin shared \ {n}
  OBVIOUS
<1>4. /\ TypeOK' /\ RestartKeepsProviders' /\ ClientFollows' /\ KeysInv' /\ SharedInv'
      /\ memory' = [memory EXCEPT ![n] = Absent]
  BY <1>1, <1>2, <1>3, AfterSave
<1>5. memory \in Lists
  BY DEF Inv, TypeOK
<1>6. Present(memory') = Present(memory) \ {n}
  BY <1>4, <1>5 DEF Present, Lists
<1>7. TestsInv
  BY DEF Inv
<1>8. results' \subseteq Present(memory') \cup overtaken'
  BY <1>1, <1>6, <1>7 DEF TestsInv
<1>9. ASSUME NEW t \in Tests, testing'[t] # NoTest
      PROVE  testing'[t] \in Present(memory') \cup overtaken'
  BY <1>1, <1>6, <1>7, <1>9 DEF TestsInv
<1> QED BY <1>4, <1>8, <1>9 DEF Inv, TestsInv

(* A new provider has the keys of the environment, or is not kept. *)
LEMMA AddInv ==
  ASSUME Inv, NEW n \in Names, NEW enabled \in BOOLEAN, NEW var \in ProviderVars,
         NEW mvar \in OverrideVars, handleAddProvider(n, enabled, var, mvar)
  PROVE  Inv'
<1> DEFINE fresh == Unresolved(enabled, var, mvar)
           e == ResolveProviderKeys(fresh, osenv)
           added == [memory EXCEPT ![n] = e]
<1>1. fresh \in ProviderConfig /\ fresh.mkey = NoKey
  BY UnresolvedType DEF Unresolved
<1>2. e \in ProviderConfig /\ KeyOK(e)
  BY <1>1, ResolveType, ResolveOK DEF Inv, TypeOK
<1>3. UNCHANGED <<osenv, stored, resolving, testing, results, overtaken>>
  BY DEF handleAddProvider
<1> HIDE DEF e
<1>4. added \in Lists /\ \A m \in Names : added[m] = IF m = n THEN e ELSE memory[m]
  BY <1>2 DEF Inv, TypeOK, Lists
<1>5. CASE SaveProviders(added) /\ memory' = added /\ SetProviders(added) /\ unsaved' = FALSE
  <2>1. \A m \in Names : memory'[m] # Absent => KeyOK(memory[m])'
    BY <1>2, <1>3, <1>4, <1>5 DEF KeyOK, Inv, KeysInv
  <2>2. /\ client' \in Lists /\ shared' \subseteq Names /\ unseen' \in BOOLEAN
        /\ ClientFollows' /\ KeysInv' /\ SharedInv'
    BY <1>4, <1>5, <2>1, AfterSetProviders
  <2>3. file' = MarshalAll(added) /\ file' \in Files
    BY <1>4, <1>5, MarshalAllType DEF SaveProviders
  <2>4. osenv' \in Environments
    BY <1>3 DEF Inv, TypeOK
  <2>5. RestartKeepsProviders'
    BY <1>4, <1>5, <2>3, <2>4, RoundTrip DEF RestartKeepsProviders
  <2>6. TypeOK'
    BY <1>3, <1>4, <1>5, <2>2, <2>3 DEF Inv, TypeOK
  <2>7. TestsInv'
    BY <1>2, <1>3, <1>5, TestsKept
  <2> QED BY <2>2, <2>5, <2>6, <2>7 DEF Inv
<1>6. CASE SaveFails /\ unsaved' = (unsaved \/ file' # file)
             /\ UNCHANGED <<memory, client, shared, unseen>>
  <2>1. file' \in Files \cup {Unreadable}
    BY <1>6 DEF SaveFails, Inv, TypeOK
  <2>2. TypeOK'
    BY <1>3, <1>6, <2>1 DEF Inv, TypeOK
  <2>3. RestartKeepsProviders'
    BY <1>3, <1>6 DEF Inv, RestartKeepsProviders
  <2>4. ClientFollows' /\ SharedInv' /\ TestsInv'
    BY <1>3, <1>6 DEF Inv, ClientFollows, SharedInv, TestsInv
  <2>5. KeysInv'
    BY <1>3, <1>6 DEF Inv, KeysInv, KeyOK
  <2> QED BY <2>2, <2>3, <2>4, <2>5 DEF Inv
<1> QED BY <1>5, <1>6 DEF handleAddProvider, e

(* A test is of a provider in the list, or overtaken. *)
LEMMA TestSteps ==
  ASSUME Inv, NEW t \in Tests, EndTest(t) \/ \E n \in Names : StartTest(t, n)
  PROVE  Inv'
<1>1. UNCHANGED <<osenv, stored, memory, file, client, shared, resolving, unsaved, unseen,
                  overtaken>>
  BY DEF StartTest, EndTest
<1>2. ClientFollows' /\ RestartKeepsProviders' /\ KeysInv' /\ SharedInv'
  BY <1>1 DEF Inv, ClientFollows, RestartKeepsProviders, KeysInv, KeyOK, SharedInv
<1>3. CASE EndTest(t)
  <2>1. testing[t] \in Names
    BY <1>3 DEF EndTest, Inv, TypeOK
  <2>2. TypeOK'
    BY <1>1, <1>3, <2>1 DEF EndTest, Inv, TypeOK
  <2>3. TestsInv'
    BY <1>1, <1>3 DEF EndTest, Inv, TypeOK, TestsInv
  <2> QED BY <1>2, <2>2, <2>3 DEF Inv
<1>4. ASSUME NEW n \in Names, StartTest(t, n) PROVE Inv'
  <2>1. TypeOK'
    BY <1>1, <1>4 DEF StartTest, Inv, TypeOK
  <2>2. n \in Present(memory)
    BY <1>4 DEF StartTest, Present
  <2>3. TestsInv'
    BY <1>1, <1>4, <2>2 DEF StartTest, Inv, TypeOK, TestsInv
  <2> QED BY <1>2, <2>1, <2>3 DEF Inv
<1> QED BY <1>3, <1>4

(* A changed key is to be resolved, and the request will do it. *)
LEMMA ChangeKeyInv ==
  ASSUME Inv, NEW q \in KeyRequests, NEW v \in Vars, NEW key \in MaybeKey, ChangeKey(q, v, key)
  PROVE  Inv'
<1>1. /\ stored' = [stored EXCEPT ![v] = key] /\ osenv' = [osenv EXCEPT ![v] = key]
      /\ resolving' = resolving \cup {q}
      /\ UNCHANGED <<memory, file, client, shared, testing, results, unsaved, unseen, overtaken>>
  BY DEF ChangeKey
<1>2. stored' \in Environments /\ osenv' \in Environments
  BY <1>1 DEF Inv, TypeOK, Environments
<1>3. TypeOK'
  BY <1>1, <1>2 DEF Inv, TypeOK
<1>4. RestartKeepsProviders'
  <2>1. MarshalAll(loadProviders(file, osenv')) = MarshalAll(loadProviders(file, osenv))
    BY <1>2, LoadEnvFree DEF Inv, TypeOK
  <2> QED BY <1>1, <2>1 DEF Inv, RestartKeepsProviders
<1>5. KeysInv'
  <2>1. resolving' # {}
    BY <1>1
  <2> QED BY <1>1, <2>1 DEF Inv, KeysInv, KeyOK
<1>6. ClientFollows' /\ SharedInv' /\ TestsInv'
  BY <1>1 DEF Inv, ClientFollows, SharedInv, TestsInv
<1> QED BY <1>3, <1>4, <1>5, <1>6 DEF Inv

(* Resolving gives every provider the keys of the environment. *)
LEMMA ResolveInv ==
  ASSUME Inv, NEW q \in KeyRequests, resolveAllProviderKeys(q)
  PROVE  Inv'
<1>1. /\ memory' = Resolved /\ SetProviders(memory')
      /\ resolving' = resolving \ {q}
      /\ UNCHANGED <<osenv, stored, file, testing, results, unsaved, overtaken>>
  BY DEF resolveAllProviderKeys
<1>2. /\ Resolved \in Lists
      /\ MarshalAll(Resolved) = MarshalAll(memory)
      /\ Present(Resolved) = Present(memory)
  BY ResolvedType DEF Inv, TypeOK
<1>3. ASSUME NEW n \in Names, memory'[n] # Absent PROVE KeyOK(memory[n])'
  <2>1. memory[n] # Absent /\ memory'[n] = ResolveProviderKeys(memory[n], osenv)
    BY <1>1, <1>3 DEF Resolved
  <2>2. memory[n] \in ProviderConfig /\ (memory[n].mvar = NoVar => memory[n].mkey = NoKey)
    BY <2>1 DEF Inv, TypeOK, Lists, KeysInv, KeyOK
  <2>3. /\ memory'[n].var = memory[n].var /\ memory'[n].mvar = memory[n].mvar
        /\ memory[n].var # NoVar => memory'[n].key = osenv[memory[n].var]
        /\ memory'[n].mkey = IF memory[n].mvar = NoVar THEN memory[n].mkey
                             ELSE osenv[memory[n].mvar]
    BY <2>1 DEF ResolveProviderKeys
  <2> QED BY <1>1, <2>2, <2>3 DEF KeyOK
<1>4. /\ client' \in Lists /\ shared' \subseteq Names /\ unseen' \in BOOLEAN
      /\ ClientFollows' /\ KeysInv' /\ SharedInv'
  BY <1>1, <1>2, <1>3, AfterSetProviders
<1>5. TypeOK'
  BY <1>1, <1>2, <1>4 DEF Inv, TypeOK
<1>6. RestartKeepsProviders'
  BY <1>1, <1>2 DEF Inv, RestartKeepsProviders
<1>7. TestsInv'
  BY <1>1, <1>2 DEF Inv, TestsInv
<1> QED BY <1>4, <1>5, <1>6, <1>7 DEF Inv

(* The keys of p are those of the environment env.                         *)
KeysFrom(env, p) ==
  /\ p.mvar = NoVar => p.mkey = NoKey
  /\ p.var # NoVar => p.key = env[p.var]
  /\ p.mvar # NoVar => p.mkey = env[p.mvar]

(* A provider just resolved has its keys from the environment. *)
LEMMA ResolveFrom ==
  ASSUME NEW env, NEW p \in ProviderConfig, p.mvar = NoVar => p.mkey = NoKey
  PROVE  KeysFrom(env, ResolveProviderKeys(p, env))
BY DEF KeysFrom, ResolveProviderKeys

(* What has been loaded has its keys resolved.                             *)
LEMMA LoadOK ==
  ASSUME NEW content \in Files \cup {Unreadable}, NEW env \in Environments,
         NEW n \in Names, loadProviders(content, env)[n] # Absent
  PROVE  KeysFrom(env, loadProviders(content, env)[n])
<1>1. CASE content = Unreadable
  <2>1. Unresolved(TRUE, DefaultVar, NoVar) \in ProviderConfig
        /\ Unresolved(TRUE, DefaultVar, NoVar).mkey = NoKey
    BY VarsAre, UnresolvedType DEF Unresolved
  <2>2. loadProviders(content, env)[n] = ResolveProviderKeys(Unresolved(TRUE, DefaultVar, NoVar), env)
    BY <1>1 DEF loadProviders, defaultProviders
  <2> QED BY <2>1, <2>2, ResolveFrom
<1>2. CASE content # Unreadable
  <2> DEFINE fresh == Unresolved(EnabledIn(content[n]), content[n].var, content[n].mvar)
  <2>1. loadProviders(content, env)[n] = IF content[n] = Absent THEN Absent
                                           ELSE ResolveProviderKeys(fresh, env)
    BY <1>2 DEF loadProviders
  <2>2. content[n] # Absent
    BY <2>1
  <2>3. content[n] \in ProviderJSON
    BY <1>2, <2>2 DEF Files
  <2>4. fresh \in ProviderConfig
    BY <2>3, LoadOne
  <2>5. fresh.mkey = NoKey
    BY DEF Unresolved
  <2> HIDE DEF fresh
  <2> QED BY <2>1, <2>2, <2>4, <2>5, ResolveFrom
<1> QED BY <1>1, <1>2

(* A restart loads what was saved and resolves it. *)
LEMMA RestartInv ==
  ASSUME Inv, Restart
  PROVE  Inv'
<1>1. /\ osenv' = stored /\ memory' = loadProviders(file', stored) /\ SetProviders(memory')
      /\ resolving' = {} /\ testing' = [t \in Tests |-> NoTest]
      /\ results' = {} /\ overtaken' = {} /\ unsaved' = FALSE /\ stored' = stored
      /\ file' \in Files \cup {Unreadable}
  BY DEF Restart, Inv, TypeOK
<1>2. stored \in Environments /\ memory' \in Lists
  BY <1>1, LoadType DEF Inv, TypeOK
<1>3. ASSUME NEW n \in Names, memory'[n] # Absent PROVE KeyOK(memory[n])'
  <2>1. memory'[n] = loadProviders(file', stored)[n]
    BY <1>1
  <2>2. KeysFrom(stored, memory'[n])
    BY <1>1, <1>2, <1>3, <2>1, LoadOK
  <2> QED BY <1>1, <2>2 DEF KeyOK, KeysFrom
<1>4. /\ client' \in Lists /\ shared' \subseteq Names /\ unseen' \in BOOLEAN
      /\ ClientFollows' /\ KeysInv' /\ SharedInv'
  BY <1>1, <1>2, <1>3, AfterSetProviders
<1>5. TypeOK'
  BY <1>1, <1>2, <1>4 DEF Inv, TypeOK
<1>6. RestartKeepsProviders' /\ TestsInv'
  BY <1>1 DEF RestartKeepsProviders, TestsInv
<1> QED BY <1>4, <1>5, <1>6 DEF Inv

(* The start is a load. *)
LEMMA InitInv == Init => Inv
<1> SUFFICES ASSUME Init PROVE Inv
  OBVIOUS
<1>1. osenv \in Environments /\ file \in Files \cup {Unreadable}
  BY DEF Init
<1>2. memory \in Lists
  BY <1>1, LoadType DEF Init
<1>3. TypeOK
  BY <1>1, <1>2 DEF Init, TypeOK, Present
<1>4. \A n \in Names : memory[n] # Absent => KeyOK(memory[n])
  <2>1. ASSUME NEW n \in Names, memory[n] # Absent PROVE KeysFrom(osenv, memory[n])
    BY <1>1, <2>1, LoadOK DEF Init
  <2> QED BY <2>1 DEF KeysFrom, KeyOK
<1>5. KeysInv
  BY <1>4 DEF Init, KeysInv
<1>6. RestartKeepsProviders /\ ClientFollows /\ SharedInv /\ TestsInv
  BY DEF Init, RestartKeepsProviders, ClientFollows, SharedInv, TestsInv, Present
<1> QED BY <1>3, <1>5, <1>6 DEF Inv

(* Every step keeps the invariant. *)
LEMMA StepInv == Inv /\ [Next]_vars => Inv'
<1> SUFFICES ASSUME Inv, [Next]_vars PROVE Inv'
  OBVIOUS
<1>1. ASSUME NEW n \in Names, ProviderRequest(n) PROVE Inv'
  <2>1. ASSUME NEW enabled \in BOOLEAN, NEW var \in ProviderVars, NEW mvar \in OverrideVars,
               handleAddProvider(n, enabled, var, mvar)
        PROVE  Inv'
    BY <2>1, AddInv
  <2>2. ASSUME NEW enabled \in BOOLEAN, NEW var \in ProviderVars,
               handleUpdateProvider(n, enabled, var)
        PROVE  Inv'
    BY <2>2, UpdateInv
  <2>3. ASSUME NEW enabled \in BOOLEAN, handleToggleProvider(n, enabled) PROVE Inv'
    BY <2>3, ToggleInv
  <2>4. ASSUME NEW mvar \in OverrideVars, handleUpdateModelConfigs(n, mvar) PROVE Inv'
    BY <2>4, ModelConfigsInv
  <2>5. CASE handleDeleteProvider(n)
    BY <2>5, DeleteInv
  <2>6. ASSUME NEW t \in Tests, StartTest(t, n) PROVE Inv'
    BY <2>6, TestSteps
  <2> QED BY <1>1, <2>1, <2>2, <2>3, <2>4, <2>5, <2>6 DEF ProviderRequest
<1>2. ASSUME NEW t \in Tests, EndTest(t) PROVE Inv'
  BY <1>2, TestSteps
<1>3. ASSUME NEW q \in KeyRequests, resolveAllProviderKeys(q) PROVE Inv'
  BY <1>3, ResolveInv
<1>4. ASSUME NEW q \in KeyRequests, NEW v \in Vars, NEW key \in MaybeKey, ChangeKey(q, v, key)
      PROVE  Inv'
  BY <1>4, ChangeKeyInv
<1>5. CASE Restart
  BY <1>5, RestartInv
<1>6. CASE UNCHANGED vars
  BY <1>6 DEF vars, Inv, TypeOK, RestartKeepsProviders, ClientFollows, KeysInv, KeyOK, SharedInv,
              TestsInv
<1> QED BY <1>1, <1>2, <1>3, <1>4, <1>5, <1>6 DEF Next

(* The inductive invariant holds in every behaviour. *)
LEMMA AlwaysInv == Spec => []Inv
<1>1. Init => Inv
  BY InitInv
<1>2. Inv /\ [Next]_vars => Inv'
  BY StepInv
<1> QED BY <1>1, <1>2, PTL DEF Spec

(* Every variable keeps its type: keys are in no file, and a provider that *)
(* is loaded is enabled or not (config.go:38, 310-328).                    *)
THEOREM TypeCorrect == Spec => []TypeOK
<1>1. Inv => TypeOK
  BY DEF Inv
<1> QED BY <1>1, AlwaysInv, PTL

(* Unless the last save has failed a restart finds the providers that the  *)
(* process runs with (providers.go:152-435, config.go:287-412).            *)
THEOREM RestartKeeps == Spec => []RestartKeepsProviders
<1>1. Inv => RestartKeepsProviders
  BY DEF Inv
<1> QED BY <1>1, AlwaysInv, PTL

(* Unless the last change could not be saved the client calls the          *)
(* providers that the console shows (client.go:60-80).                     *)
THEOREM ClientCurrent == Spec => []ClientFollows
<1>1. Inv => ClientFollows
  BY DEF Inv
<1> QED BY <1>1, AlwaysInv, PTL

(* A call sends the key that the environment holds now, whatever saves     *)
(* have failed (config.go:68-88, 347-366, apikeys_handlers.go:191-198).    *)
THEOREM KeysCurrent == Spec => []CallsSendCurrentKeys
<1>1. ASSUME Inv, resolving = {}, NEW n \in Present(client), client[n].var # NoVar
      PROVE  ForModel(client[n]) =
               IF client[n].mvar # NoVar /\ osenv[client[n].mvar] # NoKey
               THEN osenv[client[n].mvar] ELSE osenv[client[n].var]
  <2>1. KeyOK(client[n])
    BY <1>1 DEF Inv, KeysInv, Present
  <2> QED BY <1>1, <2>1 DEF KeyOK, ForModel
<1>2. Inv => CallsSendCurrentKeys
  BY <1>1 DEF CallsSendCurrentKeys
<1> QED BY <1>2, AlwaysInv, PTL

(* A test result belongs to a provider that is there, unless the test has  *)
(* outlived it (providers.go:289, 380-382).                                *)
THEOREM ResultsBelong == Spec => []ResultsHaveProvider
<1>1. Inv => ResultsHaveProvider
  BY DEF Inv, TestsInv, ResultsHaveProvider
<1> QED BY <1>1, AlwaysInv, PTL
================================================================================
