-------------------------- MODULE DecisionCacheProofs --------------------------
(***************************************************************************)
(* Proofs about DecisionCache, for every set of keys, models and callers,  *)
(* every entry limit and every TTL.                                        *)
(***************************************************************************)
EXTENDS DecisionCache, SequenceTheorems, FiniteSetTheorems, TLAPS

(* A list without repeated keys. *)
Distinct(s) == \A i, j \in 1..Len(s) : s[i] = s[j] => i = j

(* Dropping position i moves everything behind it one place forward. *)
LEMMA RemoveAtProps ==
  ASSUME NEW S, NEW s \in Seq(S), NEW i \in 1..Len(s)
  PROVE  /\ RemoveAt(s, i) \in Seq(S)
         /\ Len(RemoveAt(s, i)) = Len(s) - 1
         /\ \A j \in 1..Len(s)-1 : RemoveAt(s, i)[j] = IF j < i THEN s[j] ELSE s[j+1]
<1> DEFINE a == SubSeq(s, 1, i-1)
           b == SubSeq(s, i+1, Len(s))
<1>1. /\ Len(s) \in Nat /\ i \in Nat /\ \A j \in 1..Len(s) : s[j] \in S
  BY LenProperties, ElementOfSeq
<1>2. /\ a \in Seq(S) /\ Len(a) = i - 1
      /\ \A j \in 1..i-1 : a[j] = s[j]
  BY <1>1, SubSeqProperties
<1>3. /\ b \in Seq(S) /\ Len(b) = Len(s) - i
      /\ \A j \in 1..Len(s)-i : b[j] = s[i+j]
  BY <1>1, SubSeqProperties
<1> HIDE DEF a, b
<1>4. /\ a \o b \in Seq(S) /\ Len(a \o b) = Len(s) - 1
      /\ \A j \in 1..Len(s)-1 : (a \o b)[j] = IF j <= i-1 THEN a[j] ELSE b[j-(i-1)]
  BY <1>1, <1>2, <1>3, ConcatProperties
<1>5. ASSUME NEW j \in 1..Len(s)-1
      PROVE  (a \o b)[j] = IF j < i THEN s[j] ELSE s[j+1]
  <2>1. CASE j < i
    BY <1>1, <1>2, <1>4, <2>1
  <2>2. CASE ~(j < i)
    <3>1. j-(i-1) \in 1..Len(s)-i /\ i + (j-(i-1)) = j+1 /\ ~(j <= i-1)
      BY <1>1, <2>2
    <3>2. (a \o b)[j] = b[j-(i-1)]
      BY <1>4, <3>1
    <3>3. b[j-(i-1)] = s[i + (j-(i-1))]
      BY <1>3, <3>1
    <3>4. QED BY <3>1, <3>2, <3>3, <2>2
  <2>3. QED BY <2>1, <2>2
<1> QED BY <1>4, <1>5 DEF RemoveAt, a, b

(* Pushing a key to the front moves everything one place back. *)
LEMMA ConsProps ==
  ASSUME NEW S, NEW s \in Seq(S), NEW k \in S
  PROVE  /\ Cons(k, s) \in Seq(S)
         /\ Len(Cons(k, s)) = Len(s) + 1
         /\ Cons(k, s)[1] = k
         /\ \A j \in 2..Len(s)+1 : Cons(k, s)[j] = s[j-1]
<1>1. /\ <<k>> \in Seq(S) /\ Len(<<k>>) = 1 /\ <<k>>[1] = k /\ Len(s) \in Nat
  BY LenProperties
<1>2. QED BY <1>1, ConcatProperties DEF Cons

(* Taking a key out of a list of distinct keys. *)
LEMMA UnlinkProps ==
  ASSUME NEW S, NEW s \in Seq(S), Distinct(s), NEW k \in ToSet(s)
  PROVE  /\ Unlink(s, k) \in Seq(S)
         /\ Len(Unlink(s, k)) = Len(s) - 1
         /\ \E n \in 1..Len(s) :
              /\ s[n] = k
              /\ \A j \in 1..Len(s)-1 : Unlink(s, k)[j] = IF j < n THEN s[j] ELSE s[j+1]
         /\ Distinct(Unlink(s, k))
         /\ ToSet(Unlink(s, k)) = ToSet(s) \ {k}
<1> DEFINE n == IndexOf(s, k)
           u == Unlink(s, k)
<1>1. Len(s) \in Nat /\ DOMAIN s = 1..Len(s)
  BY LenProperties
<1>2. n \in 1..Len(s) /\ s[n] = k
  BY <1>1 DEF ToSet, IndexOf
<1>3. /\ u \in Seq(S) /\ Len(u) = Len(s) - 1
      /\ \A j \in 1..Len(s)-1 : u[j] = IF j < n THEN s[j] ELSE s[j+1]
  BY <1>2, RemoveAtProps DEF Unlink
<1>4. DOMAIN u = 1..Len(s)-1
  BY <1>3, LenProperties
<1> HIDE DEF n, u
<1>5. ASSUME NEW i \in 1..Len(s)-1, NEW j \in 1..Len(s)-1, u[i] = u[j]
      PROVE  i = j
  <2>1. \A a, b \in 1..Len(s) : s[a] = s[b] => a = b
    BY DEF Distinct
  <2>2. QED BY <1>1, <1>2, <1>3, <1>5, <2>1
<1>6. Distinct(u)
  BY <1>3, <1>5 DEF Distinct
<1>7. ASSUME NEW x \in ToSet(u)
      PROVE  x \in ToSet(s) \ {k}
  <2>1. PICK j \in 1..Len(s)-1 : u[j] = x
    BY <1>4 DEF ToSet
  <2>2. PICK m \in 1..Len(s) : s[m] = x /\ m # n
    BY <1>1, <1>2, <1>3, <2>1
  <2>3. x # k
    BY <1>2, <2>2 DEF Distinct
  <2>4. QED BY <1>1, <2>2, <2>3 DEF ToSet
<1>8. ASSUME NEW x \in ToSet(s) \ {k}
      PROVE  x \in ToSet(u)
  <2>1. PICK m \in 1..Len(s) : s[m] = x
    BY <1>1 DEF ToSet
  <2>2. m # n
    BY <1>2, <2>1
  <2>3. CASE m < n
    <3>1. m \in 1..Len(s)-1 /\ u[m] = x
      BY <1>1, <1>2, <1>3, <2>1, <2>3
    <3>2. QED BY <1>4, <3>1 DEF ToSet
  <2>4. CASE m > n
    <3>1. m-1 \in 1..Len(s)-1 /\ u[m-1] = x
      BY <1>1, <1>2, <1>3, <2>1, <2>4
    <3>2. QED BY <1>4, <3>1 DEF ToSet
  <2>5. QED BY <1>1, <1>2, <2>2, <2>3, <2>4
<1>9. ToSet(u) = ToSet(s) \ {k}
  BY <1>7, <1>8
<1> QED BY <1>2, <1>3, <1>6, <1>9 DEF u

(* Pushing a new key on a list of distinct keys. *)
LEMMA PushProps ==
  ASSUME NEW S, NEW s \in Seq(S), Distinct(s), NEW k \in S, k \notin ToSet(s)
  PROVE  Distinct(Cons(k, s)) /\ ToSet(Cons(k, s)) = ToSet(s) \cup {k}
<1> DEFINE c == Cons(k, s)
<1>1. /\ c \in Seq(S) /\ Len(c) = Len(s) + 1 /\ c[1] = k
      /\ \A j \in 2..Len(s)+1 : c[j] = s[j-1]
  BY ConsProps
<1>2. /\ Len(s) \in Nat /\ DOMAIN s = 1..Len(s) /\ DOMAIN c = 1..Len(s)+1
  BY <1>1, LenProperties
<1> HIDE DEF c
<1>3. \A j \in 2..Len(s)+1 : j-1 \in 1..Len(s) /\ c[j] \in ToSet(s) /\ c[j] # k
  BY <1>1, <1>2 DEF ToSet
<1>4. Distinct(c)
  <2>1. SUFFICES ASSUME NEW i \in 1..Len(c), NEW j \in 1..Len(c), c[i] = c[j]
                 PROVE  i = j
    BY DEF Distinct
  <2>2. CASE i = 1 \/ j = 1
    BY <1>1, <1>2, <1>3, <2>1, <2>2
  <2>3. CASE i # 1 /\ j # 1
    <3>1. i \in 2..Len(s)+1 /\ j \in 2..Len(s)+1
      BY <1>1, <1>2, <2>3
    <3>2. s[i-1] = s[j-1] /\ i-1 \in 1..Len(s) /\ j-1 \in 1..Len(s)
      BY <1>1, <1>3, <2>1, <3>1
    <3>3. i-1 = j-1
      BY <3>2 DEF Distinct
    <3>4. QED BY <3>1, <3>3
  <2>4. QED BY <2>2, <2>3
<1>5. ASSUME NEW x \in ToSet(s)
      PROVE  x \in ToSet(c)
  <2>1. PICK m \in 1..Len(s) : s[m] = x
    BY <1>2 DEF ToSet
  <2>2. m+1 \in 2..Len(s)+1 /\ c[m+1] = s[(m+1)-1] /\ (m+1)-1 = m
    BY <1>1, <1>2
  <2>3. m+1 \in 1..Len(s)+1 /\ c[m+1] = x
    BY <1>2, <2>1, <2>2
  <2>4. QED BY <1>2, <2>3 DEF ToSet
<1>6. k \in ToSet(c)
  <2>1. 1 \in 1..Len(s)+1
    BY <1>2
  <2>2. QED BY <1>1, <1>2, <2>1 DEF ToSet
<1>7. ToSet(c) \subseteq ToSet(s) \cup {k}
  <2>1. SUFFICES ASSUME NEW x \in ToSet(c) PROVE x \in ToSet(s) \cup {k}
    OBVIOUS
  <2>2. PICK j \in 1..Len(s)+1 : c[j] = x
    BY <1>2 DEF ToSet
  <2>3. QED BY <1>1, <1>2, <1>3, <2>2
<1> QED BY <1>4, <1>5, <1>6, <1>7 DEF c

(* A list of distinct keys has as many places as keys. *)
LEMMA DistinctCardinality ==
  ASSUME NEW S, NEW s \in Seq(S), Distinct(s)
  PROVE  IsFiniteSet(ToSet(s)) /\ Cardinality(ToSet(s)) = Len(s)
<1>1. Len(s) \in Nat /\ DOMAIN s = 1..Len(s) /\ s \in [1..Len(s) -> S]
  BY LenProperties
<1>2. s \in Bijection(1..Len(s), ToSet(s))
  BY <1>1 DEF Bijection, Injection, Surjection, IsInjective, ToSet, Distinct
<1>3. ExistsBijection(1..Len(s), ToSet(s))
  BY <1>2 DEF ExistsBijection
<1>4. Cardinality(ToSet(s)) = Len(s)
  BY <1>1, <1>3, FS_CountingElements
<1>5. IsFiniteSet(ToSet(s))
  BY <1>1, <1>3, FS_NatBijection
<1> QED BY <1>4, <1>5

-------------------------------------------------------------------------------
(* The inductive invariant.  IndexAgrees needs the list operations to be   *)
(* typed; WithinLimit and CountersAccount count the map by the length of   *)
(* the list, so they need IndexAgrees; EvictionIsLRU needs the list to be  *)
(* sorted by last use, and ServedWithinTTL that a clock reading is never   *)
(* ahead of the clock.                                                     *)

(* The list is sorted by last use, most recent first. *)
RecencySorted ==
  \A i, j \in 1..Len(order) :
    i < j => entries[order[i]].usedAt > entries[order[j]].usedAt

(* No use is ranked beyond the uses counted so far. *)
UsesCounted == \A k \in Present : entries[k].usedAt <= stats.hits + stats.sets

(* Readings of the clock lie in the past, and no entry expires later than  *)
(* TTL after it was put in.                                                *)
ClockReadings ==
  /\ \A g \in Callers : call[g].now <= clock
  /\ \A k \in Present : entries[k].expiresAt <= entries[k].storedAt + TTL

(* A caller about to store has a decision to store. *)
StoringDecision == \A g \in Callers : call[g].pc = "storing" => call[g].model \in Models

Inv ==
  /\ TypeOK
  /\ IndexAgrees
  /\ WithinLimit
  /\ CountersAccount
  /\ RecencySorted
  /\ UsesCounted
  /\ ClockReadings
  /\ StoringDecision

(* Only a real item carries a model. *)
LEMMA PresentItem ==
  ASSUME TypeOK
  PROVE  /\ Present \subseteq Keys
         /\ \A k \in Present : entries[k] \in Item
         /\ \A k \in Keys \ Present : entries[k] = Absent
         /\ \A e \in Item : e # Absent
<1>1. \A e \in Item : e.model # NoModel
  BY CacheAssumption DEF Item
<1> QED BY <1>1 DEF TypeOK, Present, Absent

(* Under Inv the map is as large as the list is long. *)
LEMMA PresentCount ==
  ASSUME TypeOK, IndexAgrees
  PROVE  /\ Distinct(order)
         /\ Len(order) \in Nat
         /\ IsFiniteSet(Present)
         /\ Cardinality(Present) = Len(order)
<1>1. Distinct(order) /\ order \in Seq(Keys) /\ ToSet(order) = Present
  BY DEF TypeOK, IndexAgrees, Distinct
<1> QED BY <1>1, DistinctCardinality, LenProperties

(* An empty cache satisfies the inductive invariant. *)
LEMMA InitInv == Init => Inv
<1> SUFFICES ASSUME Init PROVE Inv
  OBVIOUS
<1>1. (CHOOSE x \in Keys : TRUE) \in Keys
  BY CacheAssumption
<1>2. TypeOK
  BY <1>1 DEF Init, TypeOK, Phases
<1>3. Present = {} /\ Len(order) = 0 /\ DOMAIN order = 1..0
  BY DEF Init, Present
<1>4. IndexAgrees
  BY <1>3 DEF IndexAgrees, ToSet
<1>5. Cardinality(Present) = 0
  BY <1>3, FS_EmptySet
<1>6. WithinLimit /\ CountersAccount
  BY <1>5, CacheAssumption DEF WithinLimit, CountersAccount, Init
<1>7. RecencySorted /\ UsesCounted
  BY <1>3 DEF RecencySorted, UsesCounted
<1>8. ClockReadings /\ StoringDecision
  BY <1>3 DEF ClockReadings, StoringDecision, Init
<1> QED BY <1>2, <1>4, <1>6, <1>7, <1>8 DEF Inv

(* The steps that leave the map, the list and the counters alone. *)
LEMMA QuietInv ==
  ASSUME Inv, UNCHANGED <<enabled, entries, order, stats>>,
         call' \in [Callers -> [pc : Phases, key : Keys, now : Nat, model : Models \cup {NoModel}]],
         clock' \in Nat, clock' >= clock,
         \A g \in Callers : call'[g].now <= clock',
         StoringDecision'
  PROVE  Inv'
<1>1. TypeOK'
  BY DEF Inv, TypeOK
<1>2. Present' = Present
  BY DEF Present
<1>3. IndexAgrees' /\ WithinLimit' /\ CountersAccount' /\ RecencySorted' /\ UsesCounted'
  BY <1>2 DEF Inv, IndexAgrees, WithinLimit, CountersAccount, RecencySorted, UsesCounted
<1>4. ClockReadings'
  BY <1>2 DEF Inv, ClockReadings
<1> QED BY <1>1, <1>3, <1>4 DEF Inv

(* How Goto changes the calls: only g's record, which keeps its key. *)
LEMMA GotoCall ==
  ASSUME TypeOK, NEW g \in Callers, NEW pc \in Phases, NEW now \in Nat,
         NEW m \in Models \cup {NoModel}, Goto(g, pc, now, m)
  PROVE  /\ call' \in [Callers -> [pc : Phases, key : Keys, now : Nat, model : Models \cup {NoModel}]]
         /\ call'[g] = [pc |-> pc, key |-> call[g].key, now |-> now, model |-> m]
         /\ \A h \in Callers : h # g => call'[h] = call[h]
BY DEF TypeOK, Goto

(* Moving a listed key to the front keeps the list duplicate-free with the *)
(* same keys, and the keys behind it in their order.                       *)
LEMMA MoveToFrontProps ==
  ASSUME NEW S, NEW s \in Seq(S), Distinct(s), NEW k \in ToSet(s)
  PROVE  /\ MoveToFront(s, k) \in Seq(S)
         /\ Len(MoveToFront(s, k)) = Len(s)
         /\ Distinct(MoveToFront(s, k))
         /\ ToSet(MoveToFront(s, k)) = ToSet(s)
         /\ MoveToFront(s, k)[1] = k
         /\ \E n \in 1..Len(s) :
              /\ s[n] = k
              /\ \A j \in 2..Len(s) :
                   MoveToFront(s, k)[j] = IF j - 1 < n THEN s[j-1] ELSE s[j]
<1> DEFINE u == Unlink(s, k)
<1>1. /\ u \in Seq(S) /\ Len(u) = Len(s) - 1 /\ Distinct(u)
      /\ ToSet(u) = ToSet(s) \ {k}
      /\ \E n \in 1..Len(s) :
           /\ s[n] = k
           /\ \A j \in 1..Len(s)-1 : u[j] = IF j < n THEN s[j] ELSE s[j+1]
  BY UnlinkProps
<1>2. k \in S /\ Len(s) \in Nat
  BY LenProperties, ElementOfSeq DEF ToSet
<1> HIDE DEF u
<1>3. /\ Cons(k, u) \in Seq(S) /\ Len(Cons(k, u)) = Len(u) + 1 /\ Cons(k, u)[1] = k
      /\ \A j \in 2..Len(u)+1 : Cons(k, u)[j] = u[j-1]
  BY <1>1, <1>2, ConsProps
<1>4. Distinct(Cons(k, u)) /\ ToSet(Cons(k, u)) = ToSet(u) \cup {k}
  BY <1>1, <1>2, PushProps
<1>5. PICK n \in 1..Len(s) :
        /\ s[n] = k
        /\ \A j \in 1..Len(s)-1 : u[j] = IF j < n THEN s[j] ELSE s[j+1]
  BY <1>1
<1>6. ASSUME NEW j \in 2..Len(s)
      PROVE  Cons(k, u)[j] = IF j - 1 < n THEN s[j-1] ELSE s[j]
  <2>1. j-1 \in 1..Len(s)-1 /\ (j-1)+1 = j /\ j \in 2..Len(u)+1
    BY <1>1, <1>2
  <2>2. Cons(k, u)[j] = u[j-1]
    BY <1>3, <2>1
  <2>3. u[j-1] = IF j-1 < n THEN s[j-1] ELSE s[(j-1)+1]
    BY <1>5, <2>1
  <2>4. QED BY <2>1, <2>2, <2>3
<1> QED BY <1>1, <1>2, <1>3, <1>4, <1>5, <1>6 DEF MoveToFront, u

(* Using an entry again: a hit, or a set of a key that is there. *)
LEMMA RefreshInv ==
  ASSUME Inv, NEW g \in Callers, NEW k \in Present, NEW it \in Item,
         it.usedAt = NextUse, it.expiresAt <= it.storedAt + TTL,
         entries' = [entries EXCEPT ![k] = it],
         order' = MoveToFront(order, k),
         \/ stats' = [stats EXCEPT !.hits = @ + 1]
         \/ stats' = [stats EXCEPT !.sets = @ + 1],
         NEW m \in Models \cup {NoModel}, Goto(g, "idle", 0, m),
         UNCHANGED <<enabled, clock>>
  PROVE  Inv'
<1> USE DEF Inv
<1>1. /\ Distinct(order) /\ order \in Seq(Keys) /\ Len(order) \in Nat
      /\ k \in ToSet(order) /\ ToSet(order) = Present
      /\ IsFiniteSet(Present) /\ Cardinality(Present) = Len(order)
  BY PresentCount DEF IndexAgrees, TypeOK
<1>2. /\ order' \in Seq(Keys) /\ Len(order') = Len(order) /\ Distinct(order')
      /\ ToSet(order') = ToSet(order) /\ order'[1] = k
      /\ \E n \in 1..Len(order) :
           /\ order[n] = k
           /\ \A j \in 2..Len(order) : order'[j] = IF j - 1 < n THEN order[j-1] ELSE order[j]
  <2>1. /\ MoveToFront(order, k) \in Seq(Keys)
        /\ Len(MoveToFront(order, k)) = Len(order)
        /\ Distinct(MoveToFront(order, k))
        /\ ToSet(MoveToFront(order, k)) = ToSet(order)
        /\ MoveToFront(order, k)[1] = k
        /\ \E n \in 1..Len(order) :
             /\ order[n] = k
             /\ \A j \in 2..Len(order) :
                  MoveToFront(order, k)[j] = IF j - 1 < n THEN order[j-1] ELSE order[j]
    BY ONLY <1>1, MoveToFrontProps
  <2>2. order' = MoveToFront(order, k)
    OBVIOUS
  <2> HIDE DEF MoveToFront
  <2> QED BY ONLY <2>1, <2>2
<1>3. /\ k \in Keys /\ entries \in [Keys -> Item \cup {Absent}] /\ it # Absent
      /\ entries'[k] = it /\ \A x \in Keys : x # k => entries'[x] = entries[x]
  BY PresentItem DEF TypeOK
<1>4. Present' = Present
  BY <1>3 DEF Present
<1>5. /\ stats' \in [hits : Nat, misses : Nat, expired : Nat, sets : Nat, evictions : Nat]
      /\ stats'.hits + stats'.sets = stats.hits + stats.sets + 1
      /\ stats'.sets >= stats.sets /\ stats'.evictions = stats.evictions
      /\ stats'.expired = stats.expired /\ stats'.misses = stats.misses
  <2>1. stats \in [hits : Nat, misses : Nat, expired : Nat, sets : Nat, evictions : Nat]
    BY DEF TypeOK
  <2>2. CASE stats' = [stats EXCEPT !.hits = @ + 1]
    BY ONLY <2>1, <2>2
  <2>3. CASE stats' = [stats EXCEPT !.sets = @ + 1]
    BY ONLY <2>1, <2>3
  <2> QED BY <2>2, <2>3
<1>6. /\ call' \in [Callers -> [pc : Phases, key : Keys, now : Nat, model : Models \cup {NoModel}]]
      /\ call'[g] = [pc |-> "idle", key |-> call[g].key, now |-> 0, model |-> m]
      /\ \A h \in Callers : h # g => call'[h] = call[h]
  BY GotoCall DEF Phases
<1>7. TypeOK'
  <2>1. entries' \in [Keys -> Item \cup {Absent}]
    BY <1>3
  <2> QED BY <1>2, <1>5, <1>6, <2>1 DEF TypeOK
<1>8. IndexAgrees'
  BY <1>1, <1>2, <1>4 DEF IndexAgrees, Distinct
<1>9. WithinLimit' /\ CountersAccount'
  BY <1>1, <1>4, <1>5 DEF WithinLimit, CountersAccount, TypeOK
<1>10. \A x \in Present : entries[x].usedAt \in Nat /\ entries[x].usedAt <= stats.hits + stats.sets
  BY PresentItem DEF UsesCounted, Item
<1>11. it.usedAt = stats.hits + stats.sets + 1 /\ stats.hits + stats.sets \in Nat
  BY DEF NextUse, TypeOK
<1>12. UsesCounted'
  BY <1>3, <1>4, <1>5, <1>10, <1>11, PresentItem DEF UsesCounted
<1>13. RecencySorted'
  <2>1. PICK n \in 1..Len(order) :
          /\ order[n] = k
          /\ \A j \in 2..Len(order) : order'[j] = IF j - 1 < n THEN order[j-1] ELSE order[j]
    BY <1>2
  <2>2. \A j \in 2..Len(order) :
          \E p \in 1..Len(order) : /\ order'[j] = order[p]
                                   /\ p = IF j - 1 < n THEN j - 1 ELSE j
                                   /\ p # n
    BY <1>1, <2>1
  <2>3. \A p \in 1..Len(order) : order[p] \in Present /\ (p # n => order[p] # k)
    BY <1>1, <2>1, LenProperties DEF ToSet, Distinct
  <2>4. SUFFICES ASSUME NEW i \in 1..Len(order'), NEW j \in 1..Len(order'), i < j
                 PROVE  entries'[order'[i]].usedAt > entries'[order'[j]].usedAt
    BY DEF RecencySorted
  <2>5. j \in 2..Len(order)
    BY <1>1, <1>2, <2>4
  <2>6. PICK q \in 1..Len(order) : /\ order'[j] = order[q]
                                   /\ q = IF j - 1 < n THEN j - 1 ELSE j
                                   /\ q # n
    BY <2>2, <2>5
  <2>7. order[q] \in Keys /\ entries'[order'[j]] = entries[order[q]]
    BY <1>3, <2>3, <2>6, PresentItem
  <2>8. CASE i = 1
    BY <1>2, <1>3, <1>10, <1>11, <2>3, <2>6, <2>7, <2>8
  <2>9. CASE i # 1
    <3>1. i \in 2..Len(order)
      BY <1>1, <1>2, <2>9
    <3>2. PICK p \in 1..Len(order) : /\ order'[i] = order[p]
                                     /\ p = IF i - 1 < n THEN i - 1 ELSE i
                                     /\ p # n
      BY <2>2, <3>1
    <3>3. entries'[order'[i]] = entries[order[p]]
      BY <1>3, <2>3, <3>2, PresentItem
    <3>4. p < q
      BY <1>1, <2>4, <2>5, <2>6, <3>1, <3>2
    <3>5. entries[order[p]].usedAt > entries[order[q]].usedAt
      BY <3>4 DEF RecencySorted
    <3> QED BY <2>7, <3>3, <3>5
  <2> QED BY <2>8, <2>9
<1>14. ClockReadings'
  BY <1>3, <1>4, <1>6, PresentItem DEF ClockReadings, TypeOK
<1>15. StoringDecision'
  BY <1>6 DEF StoringDecision
<1> QED BY <1>7, <1>8, <1>9, <1>12, <1>13, <1>14, <1>15

(* An expired entry leaves the map and the list. *)
LEMMA GetExpiredInv ==
  ASSUME Inv, NEW g \in Callers, GetExpired(g)
  PROVE  Inv'
<1> USE DEF Inv
<1> DEFINE k == call[g].key
<1>1. k \in Present
  BY DEF GetExpired
<1>2. /\ Distinct(order) /\ order \in Seq(Keys) /\ Len(order) \in Nat
      /\ k \in ToSet(order) /\ ToSet(order) = Present
      /\ IsFiniteSet(Present) /\ Cardinality(Present) = Len(order)
  BY <1>1, PresentCount DEF IndexAgrees, TypeOK
<1>3. order' = Unlink(order, k) /\ entries' = [entries EXCEPT ![k] = Absent]
  BY DEF GetExpired, removeItem
<1>4. Goto(g, "deciding", 0, NoModel) /\ UNCHANGED <<enabled, clock>>
      /\ stats' = [stats EXCEPT !.expired = @ + 1, !.misses = @ + 1]
  BY DEF GetExpired
<1> HIDE DEF k
<1>5. /\ order' \in Seq(Keys) /\ Len(order') = Len(order) - 1 /\ Distinct(order')
      /\ ToSet(order') = ToSet(order) \ {k}
      /\ \E n \in 1..Len(order) :
           /\ order[n] = k
           /\ \A j \in 1..Len(order)-1 : order'[j] = IF j < n THEN order[j] ELSE order[j+1]
  BY <1>2, <1>3, UnlinkProps
<1>6. /\ k \in Keys /\ entries \in [Keys -> Item \cup {Absent}]
      /\ entries'[k] = Absent /\ \A x \in Keys : x # k => entries'[x] = entries[x]
  BY <1>1, <1>3, PresentItem DEF TypeOK
<1>7. Present' = Present \ {k}
  BY <1>6 DEF Present
<1>8. Cardinality(Present') = Cardinality(Present) - 1 /\ Cardinality(Present) \in Nat
  BY <1>1, <1>2, <1>7, FS_RemoveElement
<1>9. /\ stats' \in [hits : Nat, misses : Nat, expired : Nat, sets : Nat, evictions : Nat]
      /\ stats'.hits = stats.hits /\ stats'.sets = stats.sets
      /\ stats'.evictions = stats.evictions
      /\ stats'.expired = stats.expired + 1 /\ stats'.misses = stats.misses + 1
  <2>1. /\ stats \in [hits : Nat, misses : Nat, expired : Nat, sets : Nat, evictions : Nat]
        /\ stats' = [stats EXCEPT !.expired = @ + 1, !.misses = @ + 1]
    BY <1>4 DEF TypeOK
  <2>2. stats.expired + 1 \in Nat /\ stats.misses + 1 \in Nat
    BY ONLY <2>1
  <2>3. stats' \in [hits : Nat, misses : Nat, expired : Nat, sets : Nat, evictions : Nat]
    BY ONLY <2>1, <2>2
  <2>4. /\ stats'.hits = stats.hits /\ stats'.sets = stats.sets
        /\ stats'.evictions = stats.evictions
        /\ stats'.expired = stats.expired + 1 /\ stats'.misses = stats.misses + 1
    BY ONLY <2>1
  <2> QED BY <2>3, <2>4
<1>10. /\ call' \in [Callers -> [pc : Phases, key : Keys, now : Nat, model : Models \cup {NoModel}]]
       /\ call'[g] = [pc |-> "deciding", key |-> call[g].key, now |-> 0, model |-> NoModel]
       /\ \A h \in Callers : h # g => call'[h] = call[h]
  BY <1>4, GotoCall DEF Phases
<1>11. TypeOK'
  <2>1. entries' \in [Keys -> Item \cup {Absent}]
    BY <1>3, <1>6
  <2> QED BY <1>4, <1>5, <1>9, <1>10, <2>1 DEF TypeOK
<1>12. IndexAgrees'
  BY <1>2, <1>5, <1>7 DEF IndexAgrees, Distinct
<1>13. WithinLimit' /\ CountersAccount'
  BY <1>2, <1>8, <1>9, CacheAssumption DEF WithinLimit, CountersAccount, TypeOK
<1>14. UsesCounted'
  BY <1>6, <1>7, <1>9, PresentItem DEF UsesCounted
<1>15. RecencySorted'
  <2>1. PICK n \in 1..Len(order) :
          \A j \in 1..Len(order)-1 : order'[j] = IF j < n THEN order[j] ELSE order[j+1]
    BY <1>5
  <2>2. \A j \in 1..Len(order') : order'[j] \in Present'
    BY <1>2, <1>5, <1>7, LenProperties DEF ToSet
  <2>3. SUFFICES ASSUME NEW i \in 1..Len(order'), NEW j \in 1..Len(order'), i < j
                 PROVE  entries'[order'[i]].usedAt > entries'[order'[j]].usedAt
    BY DEF RecencySorted
  <2>4. /\ entries'[order'[i]] = entries[order'[i]]
        /\ entries'[order'[j]] = entries[order'[j]]
    BY <1>6, <1>7, <2>2, PresentItem
  <2>5. PICK p \in 1..Len(order), q \in 1..Len(order) :
          p < q /\ order'[i] = order[p] /\ order'[j] = order[q]
    <3>1. PICK p \in 1..Len(order) : order'[i] = order[p] /\ p = IF i < n THEN i ELSE i+1
      BY <1>2, <1>5, <2>1
    <3>2. PICK q \in 1..Len(order) : order'[j] = order[q] /\ q = IF j < n THEN j ELSE j+1
      BY <1>2, <1>5, <2>1
    <3>3. p < q
      BY <1>2, <1>5, <2>3, <3>1, <3>2
    <3> QED BY <3>1, <3>2, <3>3
  <2> QED BY <2>4, <2>5 DEF RecencySorted
<1>16. ClockReadings'
  <2>1. \A h \in Callers : call'[h].now <= clock'
    BY <1>4, <1>10 DEF ClockReadings, TypeOK
  <2>2. \A x \in Present' : entries'[x].expiresAt <= entries'[x].storedAt + TTL
    BY <1>6, <1>7, PresentItem DEF ClockReadings
  <2> QED BY <2>1, <2>2 DEF ClockReadings
<1>17. StoringDecision'
  BY <1>10 DEF StoringDecision
<1> QED BY <1>11, <1>12, <1>13, <1>14, <1>15, <1>16, <1>17

(* The first n places of a list of distinct keys. *)
LEMMA PrefixProps ==
  ASSUME NEW S, NEW s \in Seq(S), Distinct(s), NEW n \in 0..Len(s)
  PROVE  /\ SubSeq(s, 1, n) \in Seq(S)
         /\ Len(SubSeq(s, 1, n)) = n
         /\ \A j \in 1..n : SubSeq(s, 1, n)[j] = s[j]
         /\ Distinct(SubSeq(s, 1, n))
         /\ ToSet(SubSeq(s, 1, n)) = {s[j] : j \in 1..n}
<1> DEFINE p == SubSeq(s, 1, n)
<1>1. Len(s) \in Nat /\ n \in Int /\ \A j \in 1..n : s[j] \in S
  BY LenProperties, ElementOfSeq
<1>2. /\ p \in Seq(S) /\ Len(p) = n /\ \A j \in 1..n : p[j] = s[j]
  BY <1>1, SubSeqProperties
<1> HIDE DEF p
<1>3. DOMAIN p = 1..n
  BY <1>2, LenProperties
<1>4. Distinct(p)
  BY <1>1, <1>2 DEF Distinct
<1>5. ToSet(p) = {s[j] : j \in 1..n}
  BY <1>2, <1>3 DEF ToSet
<1> QED BY <1>2, <1>4, <1>5 DEF p

(* What SetInsert does to the list: the key in front, the back cut off so  *)
(* that the limit holds, and every cut key counted.                        *)
LEMMA InsertList ==
  ASSUME Inv, NEW g \in Callers, SetInsert(g)
  PROVE  LET k == call[g].key IN
         /\ order' \in Seq(Keys) /\ Distinct(order') /\ order'[1] = k
         /\ Len(order') \in 1..MaxEntries
         /\ Len(order') + Excess = Len(order) + 1
         /\ Excess \in {0, 1}
         /\ Len(order') <= Len(order) + 1
         /\ \A j \in 2..Len(order') : order'[j] = order[j-1]
         /\ ToSet(order') \subseteq Present \cup {k}
         /\ k \in ToSet(order')
         /\ Excess = 0 => ToSet(order') = Present \cup {k}
<1> USE DEF Inv
<1> DEFINE k == call[g].key
           grown == Cons(k, order)
<1>1. k \in Keys /\ k \notin Present
  BY DEF SetInsert, TypeOK
<1>2. /\ Distinct(order) /\ order \in Seq(Keys) /\ Len(order) \in Nat
      /\ ToSet(order) = Present
      /\ Cardinality(Present) = Len(order) /\ Len(order) <= MaxEntries
  BY PresentCount DEF IndexAgrees, TypeOK, WithinLimit
<1>3. order' = SubSeq(grown, 1, Len(grown) - Excess)
  BY DEF SetInsert
<1> HIDE DEF k
<1>4. /\ grown \in Seq(Keys) /\ Len(grown) = Len(order) + 1 /\ grown[1] = k
      /\ \A j \in 2..Len(order)+1 : grown[j] = order[j-1]
      /\ Distinct(grown) /\ ToSet(grown) = Present \cup {k}
  <2>0. order \in Seq(Keys) /\ k \in Keys
    BY <1>1, <1>2
  <2>1. /\ Cons(k, order) \in Seq(Keys) /\ Len(Cons(k, order)) = Len(order) + 1
        /\ Cons(k, order)[1] = k
        /\ \A j \in 2..Len(order)+1 : Cons(k, order)[j] = order[j-1]
    BY ONLY <2>0, ConsProps
  <2>2. Distinct(Cons(k, order)) /\ ToSet(Cons(k, order)) = ToSet(order) \cup {k}
    BY ONLY <1>1, <1>2, PushProps
  <2> QED BY ONLY <1>2, <2>1, <2>2
<1> HIDE DEF grown
<1>5. /\ Excess \in {0, 1} /\ Len(grown) - Excess \in 1..MaxEntries
      /\ Len(grown) - Excess \in 0..Len(grown)
  <2>1. MaxEntries \in Nat /\ MaxEntries >= 1
    BY CacheAssumption
  <2>2. Excess = IF Len(order) + 1 > MaxEntries THEN Len(order) + 1 - MaxEntries ELSE 0
    BY <1>2 DEF Excess
  <2>3. Len(order) \in Nat /\ Len(order) <= MaxEntries /\ Len(grown) = Len(order) + 1
    BY <1>2, <1>4
  <2> HIDE DEF Excess
  <2>4. CASE Len(order) + 1 > MaxEntries
    <3>1. Excess = 1 /\ Len(grown) - Excess = MaxEntries
      BY ONLY <2>1, <2>2, <2>3, <2>4
    <3> QED BY ONLY <2>1, <2>3, <2>4, <3>1
  <2>5. CASE ~(Len(order) + 1 > MaxEntries)
    <3>1. Excess = 0 /\ Len(grown) - Excess = Len(order) + 1
      BY ONLY <2>2, <2>3, <2>5
    <3> QED BY ONLY <2>1, <2>3, <2>5, <3>1
  <2> QED BY <2>4, <2>5
<1>6. /\ order' \in Seq(Keys) /\ Len(order') = Len(grown) - Excess
      /\ \A j \in 1..Len(grown) - Excess : order'[j] = grown[j]
      /\ Distinct(order') /\ ToSet(order') = {grown[j] : j \in 1..Len(grown) - Excess}
  <2> DEFINE n == Len(grown) - Excess
  <2>1. n \in 0..Len(grown)
    BY <1>5
  <2>2. order' = SubSeq(grown, 1, n)
    BY <1>3
  <2> HIDE DEF n
  <2>3. /\ SubSeq(grown, 1, n) \in Seq(Keys) /\ Len(SubSeq(grown, 1, n)) = n
        /\ \A j \in 1..n : SubSeq(grown, 1, n)[j] = grown[j]
        /\ Distinct(SubSeq(grown, 1, n))
        /\ ToSet(SubSeq(grown, 1, n)) = {grown[j] : j \in 1..n}
    BY ONLY <1>4, <2>1, PrefixProps
  <2>4. /\ order' \in Seq(Keys) /\ Len(order') = n
        /\ \A j \in 1..n : order'[j] = grown[j]
        /\ Distinct(order') /\ ToSet(order') = {grown[j] : j \in 1..n}
    BY ONLY <2>2, <2>3
  <2> QED BY <2>4 DEF n
<1>7. DOMAIN grown = 1..Len(grown)
  BY <1>4, LenProperties
<1>8. ToSet(order') \subseteq Present \cup {k}
  <2>1. \A j \in 1..Len(grown) : grown[j] \in ToSet(grown)
    BY ONLY <1>7 DEF ToSet
  <2>2. 1..(Len(grown) - Excess) \subseteq 1..Len(grown)
    BY ONLY <1>5
  <2> QED BY ONLY <1>4, <1>6, <2>1, <2>2
<1>9. k \in ToSet(order')
  BY <1>4, <1>5, <1>6
<1>10. Excess = 0 => ToSet(order') = Present \cup {k}
  BY <1>2, <1>4, <1>6, <1>7 DEF ToSet
<1>11. \A j \in 2..Len(order') : order'[j] = order[j-1]
  BY <1>2, <1>4, <1>5, <1>6
<1> QED BY <1>2, <1>4, <1>5, <1>6, <1>8, <1>9, <1>10, <1>11 DEF k

(* What SetInsert does to the map, seen from the list it leaves. *)
LEMMA InsertEntries ==
  ASSUME Inv, NEW g \in Callers, SetInsert(g)
  PROVE  LET k == call[g].key IN
         /\ k \in Keys /\ k \notin Present
         /\ NewItem(g) \in Item /\ NewItem(g) # Absent
         /\ entries' = [x \in Keys |-> IF x \notin ToSet(order') THEN Absent
                                       ELSE IF x = k THEN NewItem(g) ELSE entries[x]]
         /\ entries'[k] = NewItem(g)
         /\ \A x \in ToSet(order') : x \in Keys /\ (x # k => x \in Present /\ entries'[x] = entries[x])
         /\ \A x \in Keys : x \notin ToSet(order') => entries'[x] = Absent
         /\ Present' = ToSet(order')
<1> USE DEF Inv
<1> DEFINE k == call[g].key
<1>1. k \in Keys /\ k \notin Present /\ k \in ToSet(order') /\ ToSet(order') \subseteq Present \cup {k}
  BY InsertList DEF SetInsert, TypeOK
<1>2. /\ call[g].model \in Models /\ call[g].now \in Nat /\ TTL \in Nat
      /\ clock \in Nat /\ NextUse \in Nat
  BY CacheAssumption DEF SetInsert, StoringDecision, TypeOK, NextUse
<1>3. NewItem(g) \in Item /\ NewItem(g) # Absent
  BY <1>2, PresentItem DEF NewItem, Item
<1>4. entries' = [x \in Keys |-> IF x \notin ToSet(order') THEN Absent
                                 ELSE IF x = k THEN NewItem(g) ELSE entries[x]]
  BY DEF SetInsert
<1>5. /\ entries'[k] = NewItem(g)
      /\ \A x \in ToSet(order') : x \in Keys /\ (x # k => x \in Present /\ entries'[x] = entries[x])
      /\ \A x \in Keys : x \notin ToSet(order') => entries'[x] = Absent
  BY <1>1, <1>4, PresentItem
<1>6. Present' = ToSet(order')
  BY <1>3, <1>5, PresentItem DEF Present
<1> QED BY <1>1, <1>3, <1>4, <1>5, <1>6

(* Either there is room, or the key at the back of the list leaves. *)
LEMMA InsertEvicts ==
  ASSUME Inv, NEW g \in Callers, SetInsert(g)
  PROVE  LET k == call[g].key
             v == order[Len(order)]
         IN  \/ Excess = 0 /\ Present' = Present \cup {k}
             \/ /\ Excess = 1 /\ Len(order) \in 1..Len(order)
                /\ v \in Present /\ v # k
                /\ Present' = (Present \cup {k}) \ {v}
<1> DEFINE k == call[g].key
           v == order[Len(order)]
<1>1. /\ Len(order') \in 1..MaxEntries /\ Len(order') + Excess = Len(order) + 1
      /\ Excess \in {0, 1} /\ order'[1] = k
      /\ \A j \in 2..Len(order') : order'[j] = order[j-1]
      /\ ToSet(order') \subseteq Present \cup {k} /\ k \in ToSet(order')
      /\ Excess = 0 => ToSet(order') = Present \cup {k}
      /\ order' \in Seq(Keys)
  BY InsertList
<1>2. k \notin Present /\ Present' = ToSet(order')
  BY InsertEntries
<1>3. /\ Distinct(order) /\ Len(order) \in Nat /\ ToSet(order) = Present
      /\ DOMAIN order = 1..Len(order) /\ DOMAIN order' = 1..Len(order')
  BY <1>1, PresentCount, LenProperties DEF Inv, IndexAgrees, TypeOK
<1> HIDE DEF k
<1>4. CASE Excess = 0
  BY <1>1, <1>2, <1>4 DEF k
<1>5. CASE Excess = 1
  <2>1. Len(order') = Len(order) /\ Len(order) >= 1 /\ Len(order) \in 1..Len(order)
    <3>1. Len(order') + 1 = Len(order) + 1 /\ Len(order') \in 1..MaxEntries
      BY <1>1, <1>5
    <3>2. Len(order) \in Nat /\ MaxEntries \in Nat
      BY <1>3, CacheAssumption
    <3> QED BY ONLY <3>1, <3>2
  <2>2. v \in Present /\ v # k
    <3>1. v \in ToSet(order)
      BY <1>3, <2>1 DEF ToSet
    <3> QED BY <1>2, <1>3, <3>1 DEF k
  <2>3. v \notin ToSet(order')
    <3>1. SUFFICES ASSUME NEW j \in 1..Len(order'), order'[j] = v PROVE FALSE
      BY <1>3 DEF ToSet
    <3>2. j # 1
      BY <1>1, <2>2, <3>1
    <3>3. j-1 \in 1..Len(order) /\ j-1 # Len(order) /\ order[j-1] = order[Len(order)]
      BY <1>1, <1>3, <2>1, <3>1, <3>2
    <3> QED BY <1>3, <2>1, <3>3 DEF Distinct
  <2>4. ASSUME NEW x \in Present, x # v
        PROVE  x \in ToSet(order')
    <3>1. PICK p \in 1..Len(order) : order[p] = x
      BY <1>3 DEF ToSet
    <3>2. p+1 \in 2..Len(order') /\ (p+1)-1 = p
      BY <1>3, <2>1, <2>4, <3>1
    <3>3. order'[p+1] = x /\ p+1 \in 1..Len(order')
      BY <1>1, <3>1, <3>2
    <3> QED BY <1>3, <3>3 DEF ToSet
  <2>5. Present' = (Present \cup {k}) \ {v}
    BY <1>1, <1>2, <2>2, <2>3, <2>4
  <2> QED BY <1>5, <2>1, <2>2, <2>5 DEF k
<1> QED BY <1>1, <1>4, <1>5

(* One entry in, x entries out: the counters still account for the map. *)
LEMMA EvictionArithmetic ==
  ASSUME NEW before \in Nat, NEW after \in Nat, NEW x \in Nat, NEW evicted \in Nat,
         NEW expired \in Nat, NEW sets \in Nat,
         after + x = before + 1, before + evicted + expired <= sets
  PROVE  after + (evicted + x) + expired <= sets + 1
  OBVIOUS

(* A new decision enters, and what it pushes over the limit leaves.        *)
LEMMA SetInsertInv ==
  ASSUME Inv, NEW g \in Callers, SetInsert(g)
  PROVE  Inv'
<1> USE DEF Inv
<1> DEFINE k == call[g].key
<1>1. /\ order' \in Seq(Keys) /\ Distinct(order') /\ order'[1] = k
      /\ Len(order') \in 1..MaxEntries
      /\ Len(order') + Excess = Len(order) + 1
      /\ Excess \in {0, 1}
      /\ Len(order') <= Len(order) + 1
      /\ \A j \in 2..Len(order') : order'[j] = order[j-1]
      /\ ToSet(order') \subseteq Present \cup {k}
      /\ k \in ToSet(order')
  BY InsertList
<1>2. /\ Distinct(order) /\ Len(order) \in Nat /\ ToSet(order) = Present
      /\ DOMAIN order = 1..Len(order) /\ DOMAIN order' = 1..Len(order')
      /\ Cardinality(Present) = Len(order)
  BY <1>1, PresentCount, LenProperties DEF IndexAgrees, TypeOK
<1>3. NewItem(g) \in Item /\ NewItem(g) # Absent
  BY InsertEntries
<1>4. /\ k \in Keys
      /\ entries' = [x \in Keys |-> IF x \notin ToSet(order') THEN Absent
                                    ELSE IF x = k THEN NewItem(g) ELSE entries[x]]
      /\ stats' = [stats EXCEPT !.sets = @ + 1, !.evictions = @ + Excess]
      /\ Goto(g, "idle", 0, call[g].model) /\ UNCHANGED <<enabled, clock>>
  BY DEF SetInsert, TypeOK
<1>5. /\ entries'[k] = NewItem(g)
      /\ \A x \in ToSet(order') : x \in Keys /\ (x # k => x \in Present /\ entries'[x] = entries[x])
      /\ \A x \in Keys : x \notin ToSet(order') => entries'[x] = Absent
  BY InsertEntries
<1>6. Present' = ToSet(order')
  BY InsertEntries
<1>7. Cardinality(Present') = Len(order')
  BY <1>1, <1>6, DistinctCardinality
<1>8. /\ stats' \in [hits : Nat, misses : Nat, expired : Nat, sets : Nat, evictions : Nat]
      /\ stats'.hits = stats.hits /\ stats'.sets = stats.sets + 1
      /\ stats'.evictions = stats.evictions + Excess
      /\ stats'.expired = stats.expired /\ stats'.misses = stats.misses
  <2>1. /\ stats \in [hits : Nat, misses : Nat, expired : Nat, sets : Nat, evictions : Nat]
        /\ stats' = [stats EXCEPT !.sets = @ + 1, !.evictions = @ + Excess]
        /\ stats.sets + 1 \in Nat /\ stats.evictions + Excess \in Nat
    BY <1>1, <1>4 DEF TypeOK
  <2>2. stats' \in [hits : Nat, misses : Nat, expired : Nat, sets : Nat, evictions : Nat]
    BY ONLY <2>1
  <2>3. /\ stats'.hits = stats.hits /\ stats'.sets = stats.sets + 1
        /\ stats'.evictions = stats.evictions + Excess
        /\ stats'.expired = stats.expired /\ stats'.misses = stats.misses
    BY ONLY <2>1
  <2> QED BY <2>2, <2>3
<1>9. call[g].model \in Models \cup {NoModel}
  BY DEF TypeOK
<1>10. /\ call' \in [Callers -> [pc : Phases, key : Keys, now : Nat, model : Models \cup {NoModel}]]
       /\ call'[g] = [pc |-> "idle", key |-> call[g].key, now |-> 0, model |-> call[g].model]
       /\ \A h \in Callers : h # g => call'[h] = call[h]
  BY <1>4, <1>9, GotoCall DEF Phases
<1> HIDE DEF k
<1>11. TypeOK'
  <2>1. entries' \in [Keys -> Item \cup {Absent}]
    BY <1>3, <1>4, PresentItem DEF TypeOK
  <2> QED BY <1>1, <1>4, <1>8, <1>10, <2>1 DEF TypeOK
<1>12. IndexAgrees'
  BY <1>1, <1>6 DEF IndexAgrees, Distinct
<1>13. WithinLimit' /\ CountersAccount'
  <2>1. WithinLimit'
    BY <1>1, <1>7, CacheAssumption DEF WithinLimit
  <2>2. Cardinality(Present) + stats.evictions + stats.expired <= stats.sets
    BY DEF CountersAccount
  <2>3. stats.evictions \in Nat /\ stats.expired \in Nat /\ stats.sets \in Nat
    BY DEF TypeOK
  <2>4. /\ Len(order') \in Nat /\ Len(order) \in Nat /\ Excess \in Nat
        /\ Len(order') + Excess = Len(order) + 1
        /\ Cardinality(Present) = Len(order) /\ Cardinality(Present') = Len(order')
    BY <1>1, <1>2, <1>7, LenProperties
  <2>5. Cardinality(Present') + stats'.evictions + stats'.expired <= stats'.sets
    <3>1. Len(order) + stats.evictions + stats.expired <= stats.sets
      BY ONLY <2>2, <2>4
    <3>2. Len(order') + (stats.evictions + Excess) + stats.expired <= stats.sets + 1
      BY ONLY <2>3, <2>4, <3>1, EvictionArithmetic
    <3> QED BY ONLY <1>8, <2>4, <3>2
  <2> QED BY <2>1, <2>5 DEF CountersAccount
<1>14. \A x \in Present : entries[x].usedAt \in Nat /\ entries[x].usedAt <= stats.hits + stats.sets
  BY PresentItem DEF UsesCounted, Item
<1>15. NewItem(g).usedAt = stats.hits + stats.sets + 1 /\ stats.hits + stats.sets \in Nat
  BY DEF NewItem, NextUse, TypeOK
<1>16. UsesCounted'
  <2>1. stats'.hits + stats'.sets = stats.hits + stats.sets + 1
    BY <1>8, <1>15 DEF TypeOK
  <2> QED BY <1>5, <1>6, <1>14, <1>15, <2>1 DEF UsesCounted
<1>17. RecencySorted'
  <2>1. SUFFICES ASSUME NEW i \in 1..Len(order'), NEW j \in 1..Len(order'), i < j
                 PROVE  entries'[order'[i]].usedAt > entries'[order'[j]].usedAt
    BY DEF RecencySorted
  <2>2. j \in 2..Len(order') /\ j-1 \in 1..Len(order) /\ order'[j] = order[j-1]
    BY <1>1, <1>2, <2>1
  <2>3. order'[j] \in ToSet(order') /\ order'[j] # k
    BY <1>1, <1>2, <2>1 DEF ToSet, Distinct
  <2>4. entries'[order'[j]] = entries[order[j-1]] /\ order[j-1] \in Present
    BY <1>5, <2>2, <2>3
  <2>5. CASE i = 1
    BY <1>1, <1>5, <1>14, <1>15, <2>4, <2>5
  <2>6. CASE i # 1
    <3>1. i \in 2..Len(order') /\ i-1 \in 1..Len(order) /\ order'[i] = order[i-1]
      BY <1>1, <1>2, <2>6
    <3>2. order'[i] \in ToSet(order') /\ order'[i] # k
      BY <1>1, <1>2, <2>1, <2>6 DEF ToSet, Distinct
    <3>3. entries'[order'[i]] = entries[order[i-1]]
      BY <1>5, <3>1, <3>2
    <3>4. i-1 < j-1
      BY <2>1
    <3>5. entries[order[i-1]].usedAt > entries[order[j-1]].usedAt
      BY <2>2, <3>1, <3>4 DEF RecencySorted
    <3> QED BY <2>4, <3>3, <3>5
  <2> QED BY <2>5, <2>6
<1>18. ClockReadings'
  <2>1. \A h \in Callers : call'[h].now <= clock'
    <3>1. clock \in Nat /\ clock' = clock /\ \A h \in Callers : call[h].now <= clock
      BY <1>4 DEF ClockReadings, TypeOK
    <3> QED BY ONLY <1>10, <3>1
  <2>2. NewItem(g).expiresAt <= NewItem(g).storedAt + TTL
    BY CacheAssumption DEF NewItem, ClockReadings, TypeOK
  <2>3. \A x \in Present' : entries'[x].expiresAt <= entries'[x].storedAt + TTL
    BY <1>5, <1>6, <2>2 DEF ClockReadings
  <2> QED BY <2>1, <2>3 DEF ClockReadings
<1>19. StoringDecision'
  BY <1>10 DEF StoringDecision
<1> QED BY <1>11, <1>12, <1>13, <1>16, <1>17, <1>18, <1>19

(* A lookup that finds nothing only counts a miss. *)
LEMMA GetMissInv ==
  ASSUME Inv, NEW g \in Callers, GetMiss(g)
  PROVE  Inv'
<1>1. /\ stats \in [hits : Nat, misses : Nat, expired : Nat, sets : Nat, evictions : Nat]
      /\ stats' = [stats EXCEPT !.misses = @ + 1]
      /\ Goto(g, "deciding", 0, NoModel) /\ UNCHANGED <<enabled, entries, order, clock>>
  BY DEF GetMiss, Inv, TypeOK
<1>2. /\ stats' \in [hits : Nat, misses : Nat, expired : Nat, sets : Nat, evictions : Nat]
      /\ stats'.hits = stats.hits /\ stats'.sets = stats.sets
      /\ stats'.evictions = stats.evictions /\ stats'.expired = stats.expired
      /\ stats'.misses = stats.misses + 1
  BY ONLY <1>1
<1>3. /\ call' \in [Callers -> [pc : Phases, key : Keys, now : Nat, model : Models \cup {NoModel}]]
      /\ call'[g] = [pc |-> "deciding", key |-> call[g].key, now |-> 0, model |-> NoModel]
      /\ \A h \in Callers : h # g => call'[h] = call[h]
  BY <1>1, GotoCall DEF Inv, Phases
<1>4. Present' = Present
  BY <1>1 DEF Present
<1>5. TypeOK'
  BY <1>1, <1>2, <1>3 DEF Inv, TypeOK
<1>6. IndexAgrees' /\ WithinLimit'
  BY <1>1, <1>4 DEF Inv, IndexAgrees, WithinLimit
<1>7. CountersAccount'
  <2>1. Cardinality(Present') + stats'.evictions + stats'.expired <= stats'.sets
    BY <1>2, <1>4 DEF Inv, CountersAccount
  <2> QED BY <2>1 DEF CountersAccount
<1>8. RecencySorted' /\ UsesCounted'
  BY <1>1, <1>2, <1>4 DEF Inv, RecencySorted, UsesCounted
<1>9. ClockReadings'
  <2>1. clock \in Nat /\ clock' = clock /\ \A h \in Callers : call[h].now <= clock
    BY <1>1 DEF Inv, ClockReadings, TypeOK
  <2>2. \A h \in Callers : call'[h].now <= clock'
    BY ONLY <1>3, <2>1
  <2> QED BY <1>1, <1>4, <2>2 DEF Inv, ClockReadings
<1>10. StoringDecision'
  BY <1>3 DEF Inv, StoringDecision
<1> QED BY <1>5, <1>6, <1>7, <1>8, <1>9, <1>10 DEF Inv

(* A hit refreshes the entry it serves. *)
LEMMA GetHitInv ==
  ASSUME Inv, NEW g \in Callers, GetHit(g)
  PROVE  Inv'
<1> DEFINE k == call[g].key
           it == [entries[k] EXCEPT !.usedAt = NextUse]
<1>1. k \in Present /\ entries[k] \in Item /\ entries[k].model \in Models \cup {NoModel}
  BY PresentItem DEF GetHit, Inv, Item
<1>2. NextUse \in Nat
  BY DEF Inv, TypeOK, NextUse
<1>3. /\ it \in Item /\ it.usedAt = NextUse
      /\ it.expiresAt = entries[k].expiresAt /\ it.storedAt = entries[k].storedAt
  BY <1>1, <1>2 DEF Item
<1>4. it.expiresAt <= it.storedAt + TTL
  BY <1>1, <1>3 DEF Inv, ClockReadings
<1>5. entries' = [entries EXCEPT ![k] = it] /\ order' = MoveToFront(order, k)
      /\ stats' = [stats EXCEPT !.hits = @ + 1]
      /\ Goto(g, "idle", 0, entries[k].model) /\ UNCHANGED <<enabled, clock>>
  BY DEF GetHit
<1> HIDE DEF k, it
<1> QED BY ONLY Inv, g \in Callers, <1>1, <1>3, <1>4, <1>5, RefreshInv

(* A set of a key that is there replaces its item. *)
LEMMA SetOverwriteInv ==
  ASSUME Inv, NEW g \in Callers, SetOverwrite(g)
  PROVE  Inv'
<1> DEFINE k == call[g].key
           it == NewItem(g)
<1>1. /\ k \in Present /\ call[g].model \in Models
      /\ call[g].now \in Nat /\ clock \in Nat /\ TTL \in Nat /\ NextUse \in Nat
      /\ call[g].now <= clock
  BY CacheAssumption DEF SetOverwrite, Inv, StoringDecision, ClockReadings, TypeOK, NextUse
<1>2. it \in Item /\ it.usedAt = NextUse
  BY <1>1 DEF NewItem, Item
<1>3. it.expiresAt <= it.storedAt + TTL
  BY <1>1 DEF NewItem
<1>4. /\ entries' = [entries EXCEPT ![k] = it] /\ order' = MoveToFront(order, k)
      /\ stats' = [stats EXCEPT !.sets = @ + 1]
      /\ Goto(g, "idle", 0, call[g].model) /\ UNCHANGED <<enabled, clock>>
  BY DEF SetOverwrite
<1> DEFINE m == call[g].model
<1>5. m \in Models \cup {NoModel} /\ Goto(g, "idle", 0, m)
  BY <1>1, <1>4
<1> HIDE DEF k, it, m
<1> QED BY ONLY Inv, g \in Callers, <1>1, <1>2, <1>3, <1>4, <1>5, RefreshInv

(* The steps that do not touch the cache. *)
LEMMA OutsideInv ==
  ASSUME Inv, NEW g \in Callers,
         \/ \E k \in Keys : BeginGet(g, k)
         \/ GetDisabled(g)
         \/ DecideFails(g)
         \/ \E m \in Models : BeginSet(g, m)
  PROVE  Inv'
<1>1. /\ TypeOK /\ clock \in Nat /\ \A h \in Callers : call[h].now <= clock
      /\ \A h \in Callers : call[h].pc = "storing" => call[h].model \in Models
  BY DEF Inv, TypeOK, ClockReadings, StoringDecision
<1>2. UNCHANGED <<enabled, entries, order, stats, clock>>
  BY DEF BeginGet, GetDisabled, DecideFails, BeginSet
<1> DEFINE Moved ==
      /\ call' \in [Callers -> [pc : Phases, key : Keys, now : Nat, model : Models \cup {NoModel}]]
      /\ call'[g].now \in {0, clock}
      /\ call'[g].pc = "storing" => call'[g].model \in Models
      /\ \A h \in Callers : h # g => call'[h] = call[h]
<1>3. Moved
  <2>1. ASSUME NEW k \in Keys, BeginGet(g, k)
        PROVE  Moved
    BY <1>1, <2>1 DEF BeginGet, TypeOK, Phases
  <2>2. ASSUME NEW pc \in Phases, NEW now \in {0, clock}, NEW m \in Models \cup {NoModel},
               Goto(g, pc, now, m), pc = "storing" => m \in Models
        PROVE  Moved
    <3>1. now \in Nat
      BY <1>1
    <3>2. /\ call' \in [Callers -> [pc : Phases, key : Keys, now : Nat, model : Models \cup {NoModel}]]
          /\ call'[g] = [pc |-> pc, key |-> call[g].key, now |-> now, model |-> m]
          /\ \A h \in Callers : h # g => call'[h] = call[h]
      BY ONLY <1>1, <2>2, <3>1, g \in Callers, pc \in Phases, m \in Models \cup {NoModel}, GotoCall
    <3> QED BY <2>2, <3>2
  <2>3. CASE GetDisabled(g) \/ DecideFails(g)
    BY <2>2, <2>3 DEF GetDisabled, DecideFails, Phases
  <2>4. ASSUME NEW m \in Models, BeginSet(g, m)
        PROVE  Moved
    BY <2>2, <2>4 DEF BeginSet, Phases
  <2> QED BY <2>1, <2>3, <2>4
<1>4. \A h \in Callers : call'[h].now <= clock'
  BY ONLY <1>1, <1>2, <1>3
<1>5. StoringDecision'
  BY <1>1, <1>3 DEF StoringDecision
<1> QED BY <1>1, <1>2, <1>3, <1>4, <1>5, QuietInv

(* Every step of a caller or of the clock keeps the inductive invariant. *)
LEMMA StepInv == Inv /\ [Next]_vars => Inv'
<1> SUFFICES ASSUME Inv, [Next]_vars PROVE Inv'
  OBVIOUS
<1>1. CASE UNCHANGED vars
  BY <1>1, QuietInv DEF vars, Inv, TypeOK, ClockReadings, StoringDecision
<1>2. CASE Tick
  <2>1. /\ UNCHANGED <<enabled, entries, order, stats, call>>
        /\ clock \in Nat /\ clock' = clock + 1
        /\ call \in [Callers -> [pc : Phases, key : Keys, now : Nat, model : Models \cup {NoModel}]]
        /\ \A h \in Callers : call[h].now <= clock
    BY <1>2 DEF Tick, Inv, TypeOK, ClockReadings
  <2>2. \A h \in Callers : call[h].now \in Nat
    BY <2>1
  <2>3. \A h \in Callers : call'[h].now <= clock'
    BY <2>1, <2>2
  <2>4. StoringDecision'
    BY <2>1 DEF Inv, StoringDecision
  <2> QED BY <2>1, <2>3, <2>4, QuietInv
<1>3. ASSUME NEW g \in Callers, CallerStep(g)
      PROVE  Inv'
  BY <1>3, OutsideInv, GetMissInv, GetExpiredInv, GetHitInv, SetOverwriteInv, SetInsertInv
     DEF CallerStep
<1> QED BY <1>1, <1>2, <1>3 DEF Next

-------------------------------------------------------------------------------
(* Theorems *)

(* Every reachable state satisfies the inductive invariant. *)
THEOREM Invariance == Spec => []Inv
BY InitInv, StepInv, PTL DEF Spec

(* The cache's state stays well typed. *)
THEOREM TypeCorrect == Spec => []TypeOK
BY Invariance, PTL DEF Inv

(* The map and the list never disagree, so the eviction loop always finds  *)
(* on the list what it has to delete from the map, and terminates.         *)
THEOREM IndexNeverDiverges == Spec => []IndexAgrees
BY Invariance, PTL DEF Inv

(* The entry limit holds between operations, whatever MaxEntries is. *)
THEOREM LimitHolds == Spec => []WithinLimit
BY Invariance, PTL DEF Inv

(* Every entry that was set is still there, or was counted as evicted or   *)
(* expired, once, or was overwritten.                                      *)
THEOREM CountersAreSound == Spec => []CountersAccount
BY Invariance, PTL DEF Inv

(* Whatever a set evicts was last used before everything that stays.  The  *)
(* list is sorted by last use (RecencySorted), only its last key leaves,   *)
(* and the key that enters is used later than any other (UsesCounted).     *)
THEOREM EvictsLeastRecent == Spec => EvictionIsLRU
<1>1. ASSUME Inv, NEW g \in Callers, SetInsert(g)
      PROVE  EvictsOldest
  <2> DEFINE c == call[g].key
             last == order[Len(order)]
  <2>1. SUFFICES ASSUME NEW v \in Present \ Present', NEW x \in Present'
                 PROVE  entries[v].usedAt < entries'[x].usedAt
    BY DEF EvictsOldest
  <2>2. /\ entries'[c] = NewItem(g)
        /\ x # c => x \in Present /\ entries'[x] = entries[x]
    BY <1>1, <2>1, InsertEntries
  <2>3. Len(order) \in 1..Len(order) /\ v = last /\ x # last
    BY <1>1, <2>1, InsertEvicts
  <2>4. entries[v].usedAt \in Nat /\ entries[v].usedAt <= stats.hits + stats.sets
    BY <1>1, <2>1, PresentItem DEF Inv, UsesCounted, Item
  <2>5. CASE x = c
    <3>1. entries'[x].usedAt = stats.hits + stats.sets + 1 /\ stats.hits + stats.sets \in Nat
      BY <1>1, <2>2, <2>5 DEF NewItem, NextUse, Inv, TypeOK
    <3> QED BY ONLY <2>4, <3>1
  <2>6. CASE x # c
    <3>1. ToSet(order) = Present /\ DOMAIN order = 1..Len(order) /\ Len(order) \in Nat
      BY <1>1, LenProperties DEF Inv, IndexAgrees, TypeOK
    <3>2. PICK p \in 1..Len(order) : order[p] = x
      BY <2>2, <2>6, <3>1 DEF ToSet
    <3>3. p < Len(order)
      BY <2>3, <3>1, <3>2
    <3>4. entries[order[p]].usedAt > entries[order[Len(order)]].usedAt
      BY <1>1, <2>3, <3>3 DEF Inv, RecencySorted
    <3> QED BY <2>2, <2>3, <2>6, <3>2, <3>4
  <2> QED BY <2>5, <2>6
<1>2. ASSUME Inv, [Next]_vars, \A g \in Callers : ~SetInsert(g)
      PROVE  stats'.evictions = stats.evictions
  <2>1. stats \in [hits : Nat, misses : Nat, expired : Nat, sets : Nat, evictions : Nat]
    BY <1>2 DEF Inv, TypeOK
  <2>2. \/ UNCHANGED stats
        \/ stats' = [stats EXCEPT !.misses = @ + 1]
        \/ stats' = [stats EXCEPT !.expired = @ + 1, !.misses = @ + 1]
        \/ stats' = [stats EXCEPT !.hits = @ + 1]
        \/ stats' = [stats EXCEPT !.sets = @ + 1]
    BY <1>2 DEF Next, CallerStep, vars, Tick, BeginGet, GetDisabled, GetMiss, GetExpired,
                GetHit, DecideFails, BeginSet, SetOverwrite
  <2> QED BY ONLY <2>1, <2>2
<1>3. Inv /\ [Next]_vars => [EvictsOldest]_vars
  BY <1>1, <1>2 DEF EvictsOldest
<1> QED BY <1>3, Invariance, PTL DEF Spec, EvictionIsLRU

(* A hit is served within TTL of the moment its item really entered the    *)
(* map: both clock readings involved were taken earlier than they are used *)
(* (ClockReadings).                                                        *)
THEOREM NeverServedStale == Spec => ServedWithinTTL
<1>1. ASSUME Inv, [Next]_vars, NEW g \in Callers,
             stats'.hits > stats.hits, call'[g] # call[g]
      PROVE  call[g].now <= entries[call[g].key].storedAt + TTL
  <2>1. stats \in [hits : Nat, misses : Nat, expired : Nat, sets : Nat, evictions : Nat]
    BY <1>1 DEF Inv, TypeOK
  <2>2. \/ \E h \in Callers : GetHit(h)
        \/ UNCHANGED stats
        \/ stats' = [stats EXCEPT !.misses = @ + 1]
        \/ stats' = [stats EXCEPT !.expired = @ + 1, !.misses = @ + 1]
        \/ stats' = [stats EXCEPT !.sets = @ + 1]
        \/ stats' = [stats EXCEPT !.sets = @ + 1, !.evictions = @ + Excess]
    BY <1>1 DEF Next, CallerStep, vars, Tick, BeginGet, GetDisabled, GetMiss, GetExpired,
                DecideFails, BeginSet, SetOverwrite, SetInsert
  <2>3. PICK h \in Callers : GetHit(h)
    <3>1. CASE UNCHANGED stats \/ stats' = [stats EXCEPT !.misses = @ + 1]
               \/ stats' = [stats EXCEPT !.sets = @ + 1]
      BY ONLY <1>1, <2>1, <3>1
    <3>2. CASE stats' = [stats EXCEPT !.expired = @ + 1, !.misses = @ + 1]
      BY ONLY <1>1, <2>1, <3>2
    <3>3. CASE stats' = [stats EXCEPT !.sets = @ + 1, !.evictions = @ + Excess]
      BY ONLY <1>1, <2>1, <3>3
    <3> QED BY ONLY <2>2, <3>1, <3>2, <3>3
  <2>4. h = g
    <3>1. \A x \in Callers : x # h => call'[x] = call[x]
      BY <2>3 DEF GetHit, Goto, Inv, TypeOK
    <3> QED BY <1>1, <3>1
  <2>5. /\ call[g].key \in Present /\ call[g].now <= entries[call[g].key].expiresAt
        /\ entries[call[g].key] \in Item
    BY <1>1, <2>3, <2>4, PresentItem DEF GetHit, Inv
  <2>6. /\ call[g].now \in Nat /\ TTL \in Nat
        /\ entries[call[g].key].expiresAt <= entries[call[g].key].storedAt + TTL
    BY <1>1, <2>5, CacheAssumption DEF Inv, ClockReadings, TypeOK
  <2> QED BY <2>5, <2>6 DEF Item
<1>2. Inv /\ [Next]_vars => [ServesFresh]_vars
  BY <1>1 DEF ServesFresh
<1> QED BY <1>2, Invariance, PTL DEF Spec, ServedWithinTTL

(* A cache switched off is empty and nobody is about to store in it. *)
DisabledEmpty == ~enabled => Present = {} /\ \A g \in Callers : call[g].pc # "storing"

(* A disabled cache (SELECTION_CACHE_ENABLED off) is never filled. *)
LEMMA DisabledInvariance == Spec => []DisabledEmpty
<1>1. Init => DisabledEmpty
  BY DEF Init, DisabledEmpty, Present
<1>2. Inv /\ DisabledEmpty /\ [Next]_vars => DisabledEmpty'
  <2> SUFFICES ASSUME Inv, [Next]_vars, ~enabled', DisabledEmpty
               PROVE  Present' = {} /\ \A g \in Callers : call'[g].pc # "storing"
    BY DEF DisabledEmpty
  <2>1. ~enabled /\ Present = {} /\ \A g \in Callers : call[g].pc # "storing"
    <3>1. enabled' = enabled
      BY DEF Next, CallerStep, vars, Tick, BeginGet, GetDisabled, GetMiss,
             GetExpired, GetHit, DecideFails, BeginSet, SetOverwrite, SetInsert
    <3> QED BY <3>1 DEF DisabledEmpty
  <2>2. CASE UNCHANGED <<entries, call>>
    BY <2>1, <2>2 DEF Present
  <2>3. ASSUME NEW g \in Callers, CallerStep(g)
        PROVE  Present' = {} /\ \A h \in Callers : call'[h].pc # "storing"
    <3>1. \/ \E k \in Keys : BeginGet(g, k)
          \/ GetDisabled(g)
          \/ DecideFails(g)
          \/ \E m \in Models : BeginSet(g, m)
      BY <2>1, <2>3 DEF CallerStep, GetMiss, GetExpired, GetHit, SetOverwrite, SetInsert
    <3>2. UNCHANGED entries
      BY <3>1 DEF BeginGet, GetDisabled, DecideFails, BeginSet
    <3>3. call'[g].pc # "storing" /\ \A h \in Callers : h # g => call'[h] = call[h]
      <4>1. call \in [Callers -> [pc : Phases, key : Keys, now : Nat, model : Models \cup {NoModel}]]
        BY DEF Inv, TypeOK
      <4>2. CASE \E k \in Keys : BeginGet(g, k)
        BY <4>1, <4>2 DEF BeginGet
      <4>3. CASE GetDisabled(g) \/ DecideFails(g)
        BY <4>1, <4>3 DEF GetDisabled, DecideFails, Goto
      <4>4. CASE \E m \in Models : BeginSet(g, m)
        BY <2>1, <4>1, <4>4 DEF BeginSet, Goto
      <4> QED BY <3>1, <4>2, <4>3, <4>4
    <3> QED BY <2>1, <3>2, <3>3 DEF Present
  <2> QED BY <2>2, <2>3 DEF Next, vars, Tick
<1> QED BY <1>1, <1>2, Invariance, PTL DEF Spec

(* A step of caller g does one of three things to the callers on their way *)
(* to a set: g joins them with a counted miss, g leaves them with at most  *)
(* one counted set, or neither they nor the two counters change.           *)
LEMMA ConsultingStep ==
  ASSUME Inv, DisabledEmpty, NEW g \in Callers, CallerStep(g)
  PROVE  \/ /\ g \notin Consulting /\ Consulting' = Consulting \cup {g}
            /\ stats'.misses = stats.misses + 1 /\ stats'.sets = stats.sets
         \/ /\ g \in Consulting /\ Consulting' = Consulting \ {g}
            /\ stats'.misses = stats.misses
            /\ stats'.sets = stats.sets \/ stats'.sets = stats.sets + 1
         \/ /\ Consulting' = Consulting
            /\ stats'.misses = stats.misses /\ stats'.sets = stats.sets
<1>1. /\ stats \in [hits : Nat, misses : Nat, expired : Nat, sets : Nat, evictions : Nat]
      /\ call \in [Callers -> [pc : Phases, key : Keys, now : Nat, model : Models \cup {NoModel}]]
  BY DEF Inv, TypeOK
<1>2. CASE \E k \in Keys : BeginGet(g, k)
  BY <1>1, <1>2 DEF BeginGet, Consulting
<1>3. CASE GetDisabled(g)
  BY <1>1, <1>3 DEF GetDisabled, Goto, Consulting
<1>4. CASE GetMiss(g)
  BY <1>1, <1>4 DEF GetMiss, Goto, Consulting
<1>5. CASE GetExpired(g)
  BY <1>1, <1>5 DEF GetExpired, Goto, Consulting
<1>6. CASE GetHit(g)
  BY <1>1, <1>6 DEF GetHit, Goto, Consulting
<1>7. CASE DecideFails(g)
  BY <1>1, <1>7 DEF DecideFails, Goto, Consulting
<1>8. CASE \E m \in Models : BeginSet(g, m)
  BY <1>1, <1>8 DEF BeginSet, Goto, Consulting
<1>9. CASE SetOverwrite(g) \/ SetInsert(g)
  <2>1. /\ call[g].pc = "storing" /\ Goto(g, "idle", 0, call[g].model) /\ UNCHANGED enabled
        /\ \/ stats' = [stats EXCEPT !.sets = @ + 1]
           \/ stats' = [stats EXCEPT !.sets = @ + 1, !.evictions = @ + Excess]
    BY <1>9 DEF SetOverwrite, SetInsert
  <2>2. stats'.misses = stats.misses /\ stats'.sets = stats.sets + 1
    BY ONLY <1>1, <2>1
  <2>3. call'[g].pc = "idle" /\ \A h \in Callers : h # g => call'[h] = call[h]
    BY ONLY <1>1, <2>1 DEF Goto
  <2>4. CASE ~enabled
    BY <2>1, <2>4 DEF DisabledEmpty
  <2>5. CASE enabled
    <3>1. g \in Consulting /\ Consulting' = Consulting \ {g}
      BY <2>1, <2>3, <2>5 DEF Consulting
    <3> QED BY <2>2, <3>1
  <2> QED BY <2>4, <2>5
<1> QED BY <1>2, <1>3, <1>4, <1>5, <1>6, <1>7, <1>8, <1>9 DEF CallerStep

(* Every set, done or under way, follows a lookup counted as a miss: the   *)
(* hit rate of the summary is computed over all lookups.                   *)
THEOREM MissesAreSound == Spec => []MissesAccount
<1>1. Init => MissesAccount
  <2> SUFFICES ASSUME Init PROVE MissesAccount
    OBVIOUS
  <2>1. Consulting = {} /\ stats.sets = 0 /\ stats.misses = 0
    BY DEF Init, Consulting
  <2> QED BY <2>1, FS_EmptySet DEF MissesAccount
<1>2. Inv /\ DisabledEmpty /\ MissesAccount /\ [Next]_vars => MissesAccount'
  <2> SUFFICES ASSUME Inv, DisabledEmpty, MissesAccount, [Next]_vars PROVE MissesAccount'
    OBVIOUS
  <2>1. IsFiniteSet(Consulting) /\ Cardinality(Consulting) \in Nat
    <3>1. Consulting \in SUBSET Callers
      BY DEF Consulting
    <3> QED BY <3>1, CacheAssumption, FS_Subset, FS_CardinalityType
  <2>2. stats.sets \in Nat /\ stats.misses \in Nat
    BY DEF Inv, TypeOK
  <2>3. CASE Tick \/ UNCHANGED vars
    BY <2>3 DEF Tick, vars, MissesAccount, Consulting
  <2>4. ASSUME NEW g \in Callers, CallerStep(g)
        PROVE  MissesAccount'
    <3>1. CASE /\ g \notin Consulting /\ Consulting' = Consulting \cup {g}
               /\ stats'.misses = stats.misses + 1 /\ stats'.sets = stats.sets
      <4>1. Cardinality(Consulting') = Cardinality(Consulting) + 1
        BY <2>1, <3>1, FS_AddElement
      <4> QED BY <2>1, <2>2, <3>1, <4>1 DEF MissesAccount
    <3>2. CASE /\ g \in Consulting /\ Consulting' = Consulting \ {g}
               /\ stats'.misses = stats.misses
               /\ stats'.sets = stats.sets \/ stats'.sets = stats.sets + 1
      <4>1. Cardinality(Consulting') = Cardinality(Consulting) - 1
        BY <2>1, <3>2, FS_RemoveElement
      <4> QED BY <2>1, <2>2, <3>2, <4>1 DEF MissesAccount
    <3>3. CASE /\ Consulting' = Consulting
               /\ stats'.misses = stats.misses /\ stats'.sets = stats.sets
      BY <3>3 DEF MissesAccount
    <3> QED BY <2>4, <3>1, <3>2, <3>3, ConsultingStep
  <2> QED BY <2>3, <2>4 DEF Next
<1> QED BY <1>1, <1>2, Invariance, DisabledInvariance, PTL DEF Spec

-------------------------------------------------------------------------------
(* The refinement of DecisionMemo. *)

(* Only g's request changes, and it keeps its key. *)
LEMMA GotoIsGo ==
  ASSUME TypeOK, NEW g \in Callers, NEW pc \in Phases, NEW now \in Nat,
         NEW m \in Models \cup {NoModel}, Goto(g, pc, now, m)
  PROVE  Memo!Go(g, call[g].pc, pc, call[g].key, m)
<1>1. /\ call'[g] = [pc |-> pc, key |-> call[g].key, now |-> now, model |-> m]
      /\ \A h \in Callers : h # g => call'[h] = call[h]
  BY GotoCall
<1> DEFINE Of(c) == [pc |-> c.pc, key |-> c.key, model |-> c.model]
           to == [pc |-> pc, key |-> call[g].key, model |-> m]
<1>2. Requests = [h \in Callers |-> Of(call[h])] /\ Requests' = [h \in Callers |-> Of(call'[h])]
  BY DEF Requests
<1>3. Of(call'[g]) = to /\ Of(call[g]).pc = call[g].pc
  BY <1>1
<1>4. \A h \in Callers : h # g => Of(call'[h]) = Of(call[h])
  BY <1>1
<1> HIDE DEF Of, to
<1>5. Requests' = [Requests EXCEPT ![g] = to] /\ Requests[g].pc = call[g].pc
  BY <1>2, <1>3, <1>4
<1> QED BY <1>5 DEF to, Memo!Go

(* Each action of the cache is a step of the memory. *)
LEMMA RefinesStep ==
  ASSUME Inv, DisabledEmpty, NEW g \in Callers, CallerStep(g)
  PROVE  Memo!MemoNext
<1> DEFINE k == call[g].key
<1>1. /\ TypeOK /\ k \in Keys /\ Absent.model = NoModel
      /\ call[g].model \in Models \cup {NoModel}
      /\ \A x \in Keys \ Present : Remembered[x] = NoModel
      /\ \A x \in Present : Remembered[x] = entries[x].model /\ entries[x].model \in Models
  BY PresentItem DEF Inv, TypeOK, Absent, Remembered, Item
<1>2. ASSUME NEW x \in Keys, BeginGet(g, x)
      PROVE  Memo!Ask(g, x)
  <2>1. /\ call[g].pc = "idle" /\ UNCHANGED entries
        /\ call' = [call EXCEPT ![g] = [pc |-> "looking", key |-> x, now |-> clock, model |-> NoModel]]
        /\ call \in [Callers -> [pc : Phases, key : Keys, now : Nat, model : Models \cup {NoModel}]]
    BY <1>2 DEF BeginGet, Inv, TypeOK
  <2>2. Requests' = [Requests EXCEPT ![g] = [pc |-> "looking", key |-> x, model |-> NoModel]]
    BY <2>1 DEF Requests
  <2> QED BY <2>1, <2>2 DEF Requests, Remembered, Memo!Ask, Memo!Go
<1> HIDE DEF k
<1>3. Requests[g].key = k /\ Requests[g].model = call[g].model /\ Requests[g].pc = call[g].pc
  BY DEF Requests, k
<1>4. CASE GetDisabled(g) \/ GetMiss(g)
  <2>1. /\ call[g].pc = "looking" /\ k \notin Present /\ UNCHANGED entries
        /\ Goto(g, "deciding", 0, NoModel)
    BY <1>4 DEF GetDisabled, GetMiss, DisabledEmpty, k
  <2>2. Memo!Go(g, "looking", "deciding", k, NoModel)
    BY <1>1, <2>1, GotoIsGo DEF Phases, k
  <2>3. Remembered' = [Remembered EXCEPT ![k] = NoModel]
    BY <1>1, <2>1 DEF Remembered
  <2> QED BY <1>3, <2>2, <2>3 DEF Memo!Forgotten, Memo!MemoNext
<1>5. CASE GetExpired(g)
  <2>1. /\ call[g].pc = "looking" /\ entries' = [entries EXCEPT ![k] = Absent]
        /\ Goto(g, "deciding", 0, NoModel)
    BY <1>5 DEF GetExpired, removeItem, k
  <2>2. Memo!Go(g, "looking", "deciding", k, NoModel)
    BY <1>1, <2>1, GotoIsGo DEF Phases, k
  <2>3. Remembered' = [Remembered EXCEPT ![k] = NoModel]
    BY <1>1, <2>1 DEF Remembered, TypeOK
  <2> QED BY <1>3, <2>2, <2>3 DEF Memo!Forgotten, Memo!MemoNext
<1>6. CASE GetHit(g)
  <2>1. /\ call[g].pc = "looking" /\ k \in Present
        /\ entries' = [entries EXCEPT ![k].usedAt = NextUse]
        /\ Goto(g, "idle", 0, entries[k].model)
    BY <1>6 DEF GetHit, k
  <2>2. Memo!Go(g, "looking", "idle", k, Remembered[k]) /\ Remembered[k] # NoModel
    <3>1. Remembered[k] = entries[k].model /\ entries[k].model \in Models
      BY <1>1, <2>1
    <3>2. "idle" \in Phases /\ 0 \in Nat /\ Remembered[k] \in Models /\ Remembered[k] # NoModel
      BY <3>1, CacheAssumption DEF Phases
    <3>3. Goto(g, "idle", 0, Remembered[k])
      BY <2>1, <3>1
    <3>4. Memo!Go(g, call[g].pc, "idle", call[g].key, Remembered[k])
      BY ONLY <1>1, <3>2, <3>3, g \in Callers, GotoIsGo
    <3> QED BY <2>1, <3>2, <3>4 DEF k
  <2>3. Remembered' = Remembered
    <3>1. entries \in [Keys -> Item \cup {Absent}] /\ entries[k] \in Item
      BY <1>1, <2>1, PresentItem DEF TypeOK
    <3>2. \A x \in Keys : entries'[x].model = entries[x].model
      BY <2>1, <3>1 DEF Item
    <3> QED BY <3>2 DEF Remembered
  <2> QED BY <1>3, <2>2, <2>3 DEF Memo!Recall, Memo!MemoNext
<1>7. CASE DecideFails(g)
  <2>1. call[g].pc = "deciding" /\ UNCHANGED entries /\ Goto(g, "idle", 0, NoModel)
    BY <1>7 DEF DecideFails
  <2>2. Memo!Go(g, "deciding", "idle", k, NoModel)
    BY <1>1, <2>1, GotoIsGo DEF Phases, k
  <2> QED BY <1>3, <2>1, <2>2 DEF Remembered, Memo!GiveUp, Memo!MemoNext
<1>8. ASSUME NEW m \in Models, BeginSet(g, m)
      PROVE  Memo!MemoNext
  <2>1. /\ call[g].pc = "deciding" /\ UNCHANGED entries
        /\ Goto(g, "storing", clock, m) \/ Goto(g, "idle", 0, m)
    BY <1>8 DEF BeginSet
  <2>2. Memo!Go(g, "deciding", "storing", k, m) \/ Memo!Go(g, "deciding", "idle", k, m)
    BY <1>1, <2>1, GotoIsGo DEF Phases, TypeOK, k
  <2> QED BY <1>3, <2>1, <2>2 DEF Remembered, Memo!Decided, Memo!MemoNext
<1>9. ASSUME NEW lost \in SUBSET (Keys \ {k}), \A x, y \in lost : x = y,
             call[g].pc = "storing", Goto(g, "idle", 0, call[g].model),
             Remembered' = [x \in Keys |-> IF x = k THEN call[g].model
                                            ELSE IF x \in lost THEN NoModel ELSE Remembered[x]]
      PROVE  Memo!MemoNext
  <2>1. Memo!Go(g, "storing", "idle", k, call[g].model)
    <3>1. "idle" \in Phases /\ 0 \in Nat
      BY DEF Phases
    <3> QED BY ONLY <1>1, <1>9, <3>1, g \in Callers, GotoIsGo DEF k
  <2>2. Memo!Record(g)
    <3>1. Memo!Go(g, "storing", "idle", Requests[g].key, Requests[g].model)
      BY <1>3, <2>1
    <3>2. \E gone \in SUBSET (Keys \ {Requests[g].key}) :
            /\ \A x, y \in gone : x = y
            /\ Remembered' = [x \in Keys |-> IF x = Requests[g].key THEN Requests[g].model
                                             ELSE IF x \in gone THEN NoModel ELSE Remembered[x]]
      BY ONLY <1>3, <1>9
    <3> QED BY ONLY <3>1, <3>2 DEF Memo!Record
  <2> QED BY <2>2 DEF Memo!MemoNext
<1>10. CASE SetOverwrite(g)
  <2>1. /\ call[g].pc = "storing" /\ entries' = [entries EXCEPT ![k] = NewItem(g)]
        /\ Goto(g, "idle", 0, call[g].model)
    BY <1>10 DEF SetOverwrite, k
  <2>2. Remembered' = [x \in Keys |-> IF x = k THEN call[g].model
                                      ELSE IF x \in {} THEN NoModel ELSE Remembered[x]]
    BY <1>1, <2>1 DEF Remembered, TypeOK, NewItem
  <2>3. {} \in SUBSET (Keys \ {k}) /\ \A x, y \in {} : x = y
    OBVIOUS
  <2> QED BY ONLY <1>9, <2>1, <2>2, <2>3
<1>11. CASE SetInsert(g)
  <2> DEFINE lost == Present \ Present'
  <2>1. call[g].pc = "storing" /\ Goto(g, "idle", 0, call[g].model)
    BY <1>11 DEF SetInsert
  <2>2. lost \in SUBSET (Keys \ {k}) /\ \A x, y \in lost : x = y
    <3>1. k \notin Present /\ Present \subseteq Keys
      BY <1>11, InsertEntries, PresentItem, <1>1 DEF k
    <3>2. \/ lost = {} /\ Present' \subseteq Present \cup {k}
          \/ /\ Present' \subseteq Present \cup {k}
             /\ lost = {order[Len(order)]}
      BY <1>11, <3>1, InsertEvicts DEF k
    <3> QED BY <3>1, <3>2
  <2>3. /\ entries'[k] = NewItem(g)
        /\ \A x \in Present' : x # k => entries'[x] = entries[x]
        /\ \A x \in Keys : x \notin Present' => entries'[x] = Absent
    BY <1>11, InsertEntries DEF k
  <2>4. ASSUME NEW x \in Keys
        PROVE  entries'[x].model = IF x = k THEN call[g].model
                                   ELSE IF x \in lost THEN NoModel ELSE Remembered[x]
    <3>1. CASE x = k
      BY <2>3, <3>1 DEF NewItem
    <3>2. CASE x # k /\ x \in Present'
      <4>1. x \in Present /\ x \notin lost
        BY <1>11, <3>2, InsertEntries, InsertEvicts DEF k
      <4>2. entries'[x].model = Remembered[x]
        BY <1>1, <2>3, <3>2, <4>1
      <4> QED BY <3>2, <4>1, <4>2
    <3>3. CASE x # k /\ x \notin Present'
      BY <1>1, <2>3, <3>3
    <3> QED BY <3>1, <3>2, <3>3
  <2>5. Remembered' = [x \in Keys |-> IF x = k THEN call[g].model
                                      ELSE IF x \in lost THEN NoModel ELSE Remembered[x]]
    BY <2>4 DEF Remembered
  <2> HIDE DEF lost
  <2> QED BY <1>9, <2>1, <2>2, <2>5
<1>12. ASSUME NEW x \in Keys, Memo!Ask(g, x)
       PROVE  Memo!MemoNext
  BY <1>12 DEF Memo!MemoNext
<1> QED BY <1>2, <1>4, <1>5, <1>6, <1>7, <1>8, <1>10, <1>11, <1>12 DEF CallerStep

(* The cache implements the memory that may forget but never misremembers, *)
(* for any number of callers, keys and models, any limit and any TTL.      *)
THEOREM CacheImplementsMemo == Spec => ImplementsMemo
<1>1. Init => Memo!MemoInit
  <2> SUFFICES ASSUME Init PROVE Memo!MemoInit
    OBVIOUS
  <2> DEFINE k0 == CHOOSE x \in Keys : TRUE
  <2>1. k0 \in Keys
    BY CacheAssumption
  <2>2. /\ entries = [k \in Keys |-> Absent]
        /\ call = [g \in Callers |-> [pc |-> "idle", key |-> k0, now |-> 0, model |-> NoModel]]
    BY DEF Init
  <2> HIDE DEF k0
  <2>3. [k \in Keys |-> entries[k].model] = [k \in Keys |-> NoModel]
    BY <2>2 DEF Absent
  <2>4. [g \in Callers |-> [pc |-> call[g].pc, key |-> call[g].key, model |-> call[g].model]]
          = [g \in Callers |-> [pc |-> "idle", key |-> k0, model |-> NoModel]]
    BY <2>2
  <2> QED BY <2>1, <2>3, <2>4 DEF Remembered, Requests, Memo!MemoInit
<1>2. Inv /\ DisabledEmpty /\ [Next]_vars => [Memo!MemoNext]_(Memo!memoVars)
  <2>1. UNCHANGED <<entries, call>> => UNCHANGED Memo!memoVars
    BY DEF Remembered, Requests, Memo!memoVars
  <2> QED BY <2>1, RefinesStep DEF Next, vars, Tick
<1> QED BY <1>1, <1>2, Invariance, DisabledInvariance, PTL
    DEF Spec, ImplementsMemo, Memo!MemoSpec
================================================================================
