----------------------------- MODULE DecisionCache -----------------------------
(***************************************************************************)
(* The routing decision cache of the LLM client (decision_cache.go): a map *)
(* guarded by a mutex, an LRU list of its keys, a TTL, and counters.       *)
(* Many request goroutines call getWithStatus and, on a miss, consult the  *)
(* meta-model and call set.  Both operations read the clock BEFORE they    *)
(* take the mutex, so each is two steps here: the clock is read, and then  *)
(* (later, after other callers' steps) the critical section runs.          *)
(***************************************************************************)
EXTENDS Integers, FiniteSets, SequencesExt

CONSTANTS Keys,        (* cache keys                                       *)
          Models,      (* model names a decision can name                  *)
          NoModel,     (* no decision                                      *)
          Callers,     (* goroutines                                       *)
          MaxEntries,  (* SELECTION_CACHE_MAX_ENTRIES                      *)
          TTL,         (* SELECTION_CACHE_TTL, in clock ticks              *)
          MaxClock,    (* bound: the clock stops there                     *)
          MaxCalls     (* bound: number of cache operations begun          *)

ASSUME CacheAssumption ==
  /\ Keys # {} /\ IsFiniteSet(Keys)
  /\ IsFiniteSet(Callers)
  /\ NoModel \notin Models
  /\ MaxEntries \in Nat \ {0}
  /\ TTL \in Nat \ {0}
  /\ MaxClock \in Nat
  /\ MaxCalls \in Nat

VARIABLES enabled,  (* SELECTION_CACHE_ENABLED, read once by newDecisionCache *)
          entries,  (* the map: entries[k] is an item, or Absent            *)
          order,    (* the list of keys, most recently used first           *)
          stats,    (* the atomic counters                                  *)
          call,     (* call[g]: where goroutine g is in the cache code      *)
          clock     (* time.Now()                                           *)

vars == <<enabled, entries, order, stats, call, clock>>

(* An item; storedAt and usedAt are history (real time of the last set, and *)
(* rank of the last use) that no action reads.                              *)
Item == [model : Models, expiresAt : Nat, storedAt : Nat, usedAt : Nat]

Absent == [model |-> NoModel, expiresAt |-> 0, storedAt |-> 0, usedAt |-> 0]

Present == {k \in Keys : entries[k] # Absent}

Phases == {"idle", "looking", "deciding", "storing"}

TypeOK ==
  /\ enabled \in BOOLEAN
  /\ entries \in [Keys -> Item \cup {Absent}]
  /\ order \in Seq(Keys)
  /\ stats \in [hits : Nat, misses : Nat, expired : Nat, sets : Nat, evictions : Nat]
  /\ call \in [Callers -> [pc : Phases, key : Keys, now : Nat,
                           model : Models \cup {NoModel}]]
  /\ clock \in Nat

Init ==
  /\ enabled \in BOOLEAN
  /\ entries = [k \in Keys |-> Absent]
  /\ order = <<>>
  /\ stats = [hits |-> 0, misses |-> 0, expired |-> 0, sets |-> 0, evictions |-> 0]
  /\ call = LET k == CHOOSE x \in Keys : TRUE
            IN  [g \in Callers |-> [pc |-> "idle", key |-> k, now |-> 0, model |-> NoModel]]
  /\ clock = 0

-------------------------------------------------------------------------------
(* The list operations of container/list the cache uses. *)

IndexOf(s, k) == CHOOSE i \in 1..Len(s) : s[i] = k

Unlink(s, k) == RemoveAt(s, IndexOf(s, k))

MoveToFront(s, k) == Cons(k, Unlink(s, k))

(* The rank the next use of an entry gets: uses so far plus one. *)
NextUse == stats.hits + stats.sets + 1

Goto(g, pc, now, model) ==
  call' = [call EXCEPT ![g] = [pc |-> pc, key |-> @.key, now |-> now, model |-> model]]

-------------------------------------------------------------------------------
(* getWithStatus, first half: the clock is read without the lock.          *)
BeginGet(g, k) ==
  /\ call[g].pc = "idle"
  /\ stats.hits + stats.misses + stats.sets < MaxCalls
  /\ call' = [call EXCEPT ![g] = [pc |-> "looking", key |-> k, now |-> clock,
                                  model |-> NoModel]]
  /\ UNCHANGED <<enabled, entries, order, stats, clock>>

(* A disabled cache answers at once and counts nothing. *)
GetDisabled(g) ==
  /\ call[g].pc = "looking"
  /\ ~enabled
  /\ Goto(g, "deciding", 0, NoModel)
  /\ UNCHANGED <<enabled, entries, order, stats, clock>>

(* Wrong variant: the key leaves the map and its element stays listed. *)
removeFromMapOnly(k) ==
  /\ entries' = [entries EXCEPT ![k] = Absent]
  /\ order' = order

(* removeItem: the key leaves the map and its element leaves the list. *)
removeItem(k) ==
  /\ entries' = [entries EXCEPT ![k] = Absent]
  /\ order' = Unlink(order, k)

(* getWithStatus under the lock, the three outcomes. *)
GetMiss(g) ==
  /\ call[g].pc = "looking"
  /\ enabled
  /\ call[g].key \notin Present
  /\ stats' = [stats EXCEPT !.misses = @ + 1]
  /\ Goto(g, "deciding", 0, NoModel)
  /\ UNCHANGED <<enabled, entries, order, clock>>

(* Wrong variants: an expired lookup is not counted as a miss; the entry   *)
(* it removes is counted as evicted as well.                               *)
GetExpiredNoMiss(g) ==
  LET k == call[g].key IN
  /\ call[g].pc = "looking"
  /\ enabled
  /\ k \in Present
  /\ call[g].now > entries[k].expiresAt
  /\ removeItem(k)
  /\ stats' = [stats EXCEPT !.expired = @ + 1]
  /\ Goto(g, "deciding", 0, NoModel)
  /\ UNCHANGED <<enabled, clock>>

GetExpiredEvicts(g) ==
  LET k == call[g].key IN
  /\ call[g].pc = "looking"
  /\ enabled
  /\ k \in Present
  /\ call[g].now > entries[k].expiresAt
  /\ removeItem(k)
  /\ stats' = [stats EXCEPT !.expired = @ + 1, !.misses = @ + 1,
                            !.evictions = @ + 1]
  /\ Goto(g, "deciding", 0, NoModel)
  /\ UNCHANGED <<enabled, clock>>

GetExpired(g) ==
  LET k == call[g].key IN
  /\ call[g].pc = "looking"
  /\ enabled
  /\ k \in Present
  /\ call[g].now > entries[k].expiresAt
  /\ removeItem(k)
  /\ stats' = [stats EXCEPT !.expired = @ + 1, !.misses = @ + 1]
  /\ Goto(g, "deciding", 0, NoModel)
  /\ UNCHANGED <<enabled, clock>>

(* Wrong variant: a hit leaves the key at its place in the list. *)
GetHitInPlace(g) ==
  LET k == call[g].key IN
  /\ call[g].pc = "looking"
  /\ enabled
  /\ k \in Present
  /\ call[g].now <= entries[k].expiresAt
  /\ entries' = [entries EXCEPT ![k].usedAt = NextUse]
  /\ stats' = [stats EXCEPT !.hits = @ + 1]
  /\ Goto(g, "idle", 0, entries[k].model)
  /\ UNCHANGED <<enabled, order, clock>>

GetHit(g) ==
  LET k == call[g].key IN
  /\ call[g].pc = "looking"
  /\ enabled
  /\ k \in Present
  /\ call[g].now <= entries[k].expiresAt
  /\ entries' = [entries EXCEPT ![k].usedAt = NextUse]
  /\ order' = MoveToFront(order, k)
  /\ stats' = [stats EXCEPT !.hits = @ + 1]
  /\ Goto(g, "idle", 0, entries[k].model)
  /\ UNCHANGED <<enabled, clock>>

-------------------------------------------------------------------------------
(* Wrong variant: that there is no decision is remembered, too. *)
DecideFailsCached(g) ==
  /\ call[g].pc = "deciding"
  /\ IF enabled THEN Goto(g, "storing", clock, NoModel) ELSE Goto(g, "idle", 0, NoModel)
  /\ UNCHANGED <<enabled, entries, order, stats, clock>>

(* The meta-model answered with no usable decision: set is not called. *)
DecideFails(g) ==
  /\ call[g].pc = "deciding"
  /\ Goto(g, "idle", 0, NoModel)
  /\ UNCHANGED <<enabled, entries, order, stats, clock>>

(* set, first half: a decision m; the clock is read without the lock.  A   *)
(* disabled cache returns at once.                                         *)
BeginSet(g, m) ==
  /\ call[g].pc = "deciding"
  /\ IF enabled THEN Goto(g, "storing", clock, m) ELSE Goto(g, "idle", 0, m)
  /\ UNCHANGED <<enabled, entries, order, stats, clock>>

(* Wrong variant: setting a key that is there extends its old expiry. *)
ProlongedItem(g) ==
  LET k == call[g].key IN
  [model |-> call[g].model,
   expiresAt |-> TTL + (IF k \in Present THEN entries[k].expiresAt ELSE call[g].now),
   storedAt |-> clock, usedAt |-> NextUse]

NewItem(g) == [model |-> call[g].model, expiresAt |-> call[g].now + TTL,
               storedAt |-> clock, usedAt |-> NextUse]

(* Wrong variant: a key that is there is only renewed. *)
SetRenewsOnly(g) ==
  LET k == call[g].key IN
  /\ call[g].pc = "storing"
  /\ k \in Present
  /\ entries' = [entries EXCEPT ![k] = [NewItem(g) EXCEPT !.model = entries[k].model]]
  /\ order' = MoveToFront(order, k)
  /\ stats' = [stats EXCEPT !.sets = @ + 1]
  /\ Goto(g, "idle", 0, call[g].model)
  /\ UNCHANGED <<enabled, clock>>

(* set under the lock, the key is already there. *)
SetOverwrite(g) ==
  LET k == call[g].key IN
  /\ call[g].pc = "storing"
  /\ k \in Present
  /\ entries' = [entries EXCEPT ![k] = NewItem(g)]
  /\ order' = MoveToFront(order, k)
  /\ stats' = [stats EXCEPT !.sets = @ + 1]
  /\ Goto(g, "idle", 0, call[g].model)
  /\ UNCHANGED <<enabled, clock>>

(* Wrong variant: the limit is tested before the new entry counts. *)
ExcessBeforeInsert ==
  IF Cardinality(Present) > MaxEntries THEN Cardinality(Present) - MaxEntries ELSE 0

(* How many entries are over the limit once a new one is in. *)
Excess == IF Cardinality(Present) + 1 > MaxEntries
          THEN Cardinality(Present) + 1 - MaxEntries ELSE 0

(* set under the lock, a new key: push it to the front, then unlink from   *)
(* the back, and delete from the map, until the map is within its limit.   *)
SetInsert(g) ==
  LET k == call[g].key
      grown == Cons(k, order)
      kept == SubSeq(grown, 1, Len(grown) - Excess)
  IN
  /\ call[g].pc = "storing"
  /\ k \notin Present
  /\ order' = kept
  /\ entries' = [x \in Keys |-> IF x \notin ToSet(kept) THEN Absent
                                ELSE IF x = k THEN NewItem(g) ELSE entries[x]]
  /\ stats' = [stats EXCEPT !.sets = @ + 1, !.evictions = @ + Excess]
  /\ Goto(g, "idle", 0, call[g].model)
  /\ UNCHANGED <<enabled, clock>>

Tick ==
  /\ clock < MaxClock
  /\ clock' = clock + 1
  /\ UNCHANGED <<enabled, entries, order, stats, call>>

CallerStep(g) ==
  \/ \E k \in Keys : BeginGet(g, k)
  \/ GetDisabled(g)
  \/ GetMiss(g)
  \/ GetExpired(g)
  \/ GetHit(g)
  \/ DecideFails(g)
  \/ \E m \in Models : BeginSet(g, m)
  \/ SetOverwrite(g)
  \/ SetInsert(g)

Next == (\E g \in Callers : CallerStep(g)) \/ Tick

Spec == Init /\ [][Next]_vars

-------------------------------------------------------------------------------
(* Properties *)

(* The map and the LRU list name the same keys, each once.  The eviction   *)
(* loop of set (decision_cache.go:140-154) takes keys from the back of the *)
(* list while the MAP is too large: a key on the list and not in the map   *)
(* would make it spin forever with the mutex held, a key in the map and    *)
(* not on the list could never be evicted.                                 *)
IndexAgrees ==
  /\ ToSet(order) = Present
  /\ \A i, j \in 1..Len(order) : order[i] = order[j] => i = j

(* Between operations the cache is within SELECTION_CACHE_MAX_ENTRIES,     *)
(* however sets, expiries and refreshes of several goroutines interleave.  *)
WithinLimit == Cardinality(Present) <= MaxEntries

(* The counters the summary line is computed from account for the map:     *)
(* every entry that is or was there was set, and left by expiry or by      *)
(* eviction, never by both.                                                *)
CountersAccount ==
  Cardinality(Present) + stats.evictions + stats.expired <= stats.sets

(* They account for the callers too: every set, and every caller still on  *)
(* its way to one, goes back to a lookup of its own that was counted as a  *)
(* miss, an expired one included.                                          *)
Consulting == {g \in Callers : enabled /\ call[g].pc \in {"deciding", "storing"}}

MissesAccount == stats.sets + Cardinality(Consulting) <= stats.misses

(* Eviction is least-recently-used: whatever a set evicts was last used    *)
(* (hit or set) before everything that stays.                              *)
EvictsOldest ==
  stats'.evictions # stats.evictions =>
    \A v \in Present \ Present', k \in Present' :
      entries[v].usedAt < entries'[k].usedAt

EvictionIsLRU == [][EvictsOldest]_vars

(* A decision is served only if at most TTL passed between the moment it   *)
(* was really put in the map and the moment its lookup began, although     *)
(* both expiry and lookup use clock readings taken before their locks.     *)
ServesFresh ==
  \A g \in Callers :
    (stats'.hits > stats.hits /\ call'[g] # call[g]) =>
      call[g].now <= entries[call[g].key].storedAt + TTL

ServedWithinTTL == [][ServesFresh]_vars

(* The cache is a memory that may forget but never misremembers: see       *)
(* DecisionMemo.                                                           *)
Remembered == [k \in Keys |-> entries[k].model]

Requests == [g \in Callers |-> [pc |-> call[g].pc, key |-> call[g].key,
                                model |-> call[g].model]]

Memo == INSTANCE DecisionMemo WITH memo <- Remembered, request <- Requests

ImplementsMemo == Memo!MemoSpec
================================================================================
