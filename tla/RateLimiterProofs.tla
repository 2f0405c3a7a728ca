--------------------------- MODULE RateLimiterProofs ---------------------------
(***************************************************************************)
(* Proofs about RateLimiter, for any number of callers and limiter objects *)
(* and any limits.                                                         *)
(***************************************************************************)
EXTENDS RateLimiter, TLAPS

(* A request that waits, sleeps or records does so in some limiter. *)
HoldsLimiter ==
  \A g \in Callers : caller[g].pc \in {"waiting", "sleeping", "recording"} =>
    caller[g].rl \in Limiters

(* What the client's limiter remembers is what was recorded while the      *)
(* provider has stayed limited.                                            *)
TimingKept ==
  /\ limiterOf = NoLimiter => sinceEnd = Horizon
  /\ limiterOf # NoLimiter => sinceEnd >= limiter[limiterOf].elapsed

(* The inductive invariant: SleepSuffices needs the mutex to be where the  *)
(* sleeper is, and a limiter handed out afresh to be nobody's.             *)
Inv == TypeOK /\ HoldsLimiter /\ SleepSuffices /\ TimingKept

Limiter == [wait : Times, elapsed : Times, holder : Callers \cup {NoCaller}]
Caller == [pc : Phases, kind : Kinds \cup {"none"}, rl : Limiters \cup {NoLimiter},
           left : Times, limit : Times]

(* The bounds of the clock arithmetic. *)
LEMMA TimeFacts ==
  /\ Horizon \in Nat /\ 0 \in Times /\ Horizon \in Times
  /\ \A t \in Times : t \in Nat /\ t <= Horizon /\ Later(t) \in Times /\ Later(t) >= t
  /\ \A t, u \in Times : t <= u => Later(t) <= Later(u)
  /\ Later(Horizon) = Horizon
  /\ \A l \in Limits : l \in Times
BY LimiterAssumption DEF Times, Later

(* Fresh limiters and idle callers satisfy the inductive invariant. *)
LEMMA InitInv == Init => Inv
<1> SUFFICES ASSUME Init PROVE Inv
  OBVIOUS
<1>1. limit \in Limits /\ limit \in Times /\ limiterOf \in Limiters \cup {NoLimiter}
  BY TimeFacts DEF Init
<1>2. limiter = [r \in Limiters |-> NewRateLimiter(limit)] /\ caller = [g \in Callers |-> Idle]
      /\ sinceSent = Horizon /\ sinceEnd = Horizon
  BY DEF Init
<1>3. NewRateLimiter(limit) \in Limiter /\ Idle \in Caller
  BY <1>1, TimeFacts DEF NewRateLimiter, Idle, Limiter, Caller, Phases
<1>4. TypeOK
  BY <1>1, <1>2, <1>3, TimeFacts DEF TypeOK, Limiter, Caller
<1>5. HoldsLimiter /\ SleepSuffices
  BY <1>2 DEF HoldsLimiter, SleepSuffices, Idle, NewRateLimiter
<1>6. TimingKept
  BY <1>1, <1>2, TimeFacts DEF TimingKept, NewRateLimiter
<1> QED BY <1>4, <1>5, <1>6 DEF Inv

(* The parts of the invariant, as the steps below use them. *)
LEMMA InvFacts ==
  ASSUME Inv
  PROVE  /\ limiter \in [Limiters -> Limiter] /\ caller \in [Callers -> Caller]
         /\ limit \in Limits /\ limiterOf \in Limiters \cup {NoLimiter}
         /\ sinceSent \in Times /\ sinceEnd \in Times
         /\ NoLimiter \notin Limiters /\ NoCaller \notin Callers
BY LimiterAssumption DEF Inv, TypeOK, Limiter, Caller

(* A reload leaves every sleeper its limiter: a fresh limiter was nobody's. *)
LEMMA SetProvidersInv ==
  ASSUME Inv, NEW l \in Limits, SetProviders(l)
  PROVE  Inv'
<1>1. /\ limiter \in [Limiters -> Limiter] /\ caller \in [Callers -> Caller]
      /\ limiterOf \in Limiters \cup {NoLimiter} /\ sinceSent \in Times /\ sinceEnd \in Times
      /\ NoLimiter \notin Limiters /\ NoCaller \notin Callers /\ l \in Times
  BY InvFacts, TimeFacts
<1>2. limit' = l /\ UNCHANGED <<caller, sinceSent>>
      /\ sinceEnd' = IF l = 0 THEN Horizon ELSE sinceEnd
  BY DEF SetProviders
<1>3. CASE limiterOf' = NoLimiter /\ UNCHANGED limiter /\ l = 0
  <2>1. TypeOK'
    BY <1>1, <1>2, <1>3, TimeFacts DEF TypeOK, Limiter, Caller
  <2>2. HoldsLimiter' /\ SleepSuffices'
    BY <1>2, <1>3 DEF Inv, HoldsLimiter, SleepSuffices
  <2>3. TimingKept'
    BY <1>2, <1>3 DEF TimingKept
  <2> QED BY <2>1, <2>2, <2>3 DEF Inv
<1>4. CASE l > 0 /\ limiterOf # NoLimiter /\ UNCHANGED <<limiterOf, limiter>>
  <2>1. TypeOK'
    BY <1>1, <1>2, <1>4, TimeFacts DEF TypeOK, Limiter, Caller
  <2>2. HoldsLimiter' /\ SleepSuffices'
    BY <1>2, <1>4 DEF Inv, HoldsLimiter, SleepSuffices
  <2>3. TimingKept'
    BY <1>2, <1>4 DEF Inv, TimingKept
  <2> QED BY <2>1, <2>2, <2>3 DEF Inv
<1>5. ASSUME l > 0, limiterOf = NoLimiter, NEW r \in Limiters, ~Reachable(r),
             limiterOf' = r, limiter' = [limiter EXCEPT ![r] = NewRateLimiter(l)]
      PROVE  Inv'
  <2>1. NewRateLimiter(l) \in Limiter /\ limiter'[r] = NewRateLimiter(l)
        /\ \A x \in Limiters : x # r => limiter'[x] = limiter[x]
    BY <1>1, <1>5, TimeFacts DEF NewRateLimiter, Limiter
  <2>2. TypeOK'
    BY <1>1, <1>2, <1>5, <2>1, TimeFacts DEF TypeOK, Limiter, Caller
  <2>3. HoldsLimiter'
    BY <1>2 DEF Inv, HoldsLimiter
  <2>4. \A g \in Callers : caller[g].rl # r
    BY <1>5 DEF Reachable
  <2>5. SleepSuffices'
    <3>1. ASSUME NEW g \in Callers, caller'[g].pc = "sleeping"
          PROVE  LET q == caller'[g].rl IN
                 /\ limiter'[q].holder = g
                 /\ limiter'[q].elapsed + caller'[g].left >= limiter'[q].wait
                 /\ caller'[g].left > 0 => limiter'[q].elapsed + caller'[g].left = limiter'[q].wait
      BY <1>2, <2>1, <2>4, <3>1 DEF Inv, HoldsLimiter, SleepSuffices
    <3>2. ASSUME NEW q \in Limiters, limiter'[q].holder # NoCaller
          PROVE  LET g == limiter'[q].holder IN caller'[g].pc = "sleeping" /\ caller'[g].rl = q
      <4>1. q # r
        BY <2>1, <3>2 DEF NewRateLimiter
      <4> QED BY <1>2, <2>1, <3>2, <4>1 DEF Inv, SleepSuffices
    <3> QED BY <3>1, <3>2 DEF SleepSuffices
  <2>6. TimingKept'
    <3>1. sinceEnd' = Horizon /\ limiter'[r].elapsed = Horizon
      BY <1>2, <1>5, <2>1 DEF Inv, TimingKept, NewRateLimiter
    <3> QED BY <1>1, <1>5, <3>1, TimeFacts DEF TimingKept
  <2> QED BY <2>2, <2>3, <2>5, <2>6 DEF Inv
<1> QED BY <1>3, <1>4, <1>5 DEF SetProviders

(* Steps that touch no limiter: one caller goes from a phase without the   *)
(* mutex to another.                                                       *)
LEMMA CallerOnlyInv ==
  ASSUME Inv, NEW g \in Callers, NEW c \in Caller,
         caller' = [caller EXCEPT ![g] = c],
         caller[g].pc # "sleeping", c.pc # "sleeping",
         c.pc \in {"waiting", "recording"} => c.rl \in Limiters,
         UNCHANGED <<limit, limiterOf, limiter, sinceEnd>>, sinceSent' \in Times
  PROVE  Inv'
<1>1. /\ limiter \in [Limiters -> Limiter] /\ caller \in [Callers -> Caller]
      /\ caller'[g] = c /\ \A h \in Callers : h # g => caller'[h] = caller[h]
      /\ caller' \in [Callers -> Caller] /\ NoCaller \notin Callers
  BY InvFacts
<1>2. TypeOK'
  BY <1>1 DEF Inv, TypeOK, Limiter, Caller
<1>3. HoldsLimiter'
  BY <1>1 DEF Inv, HoldsLimiter
<1>4. SleepSuffices'
  <2>1. \A r \in Limiters : limiter[r].holder # NoCaller => limiter[r].holder \in Callers \ {g}
    BY <1>1 DEF Inv, SleepSuffices, Limiter
  <2> QED BY <1>1, <2>1 DEF Inv, SleepSuffices
<1>5. TimingKept'
  BY DEF Inv, TimingKept
<1> QED BY <1>2, <1>3, <1>4, <1>5 DEF Inv

(* A request that looks its limiter up takes no mutex. *)
LEMMA BeginInv ==
  ASSUME Inv, NEW g \in Callers, NEW k \in Kinds, Begin(g, k)
  PROVE  Inv'
<1> DEFINE rl == IF k = "direct" THEN NoLimiter ELSE limiterOf
           pc == IF rl = NoLimiter THEN "sent" ELSE "waiting"
           c == [pc |-> pc, kind |-> k, rl |-> rl, left |-> 0, limit |-> limit]
<1>1. /\ rl \in Limiters \cup {NoLimiter} /\ pc \in {"sent", "waiting"}
      /\ pc = "waiting" => rl \in Limiters
  BY InvFacts
<1>2. caller' = [caller EXCEPT ![g] = c] /\ caller[g].pc = "idle"
      /\ UNCHANGED <<limit, limiterOf, limiter, sinceEnd>>
      /\ sinceSent' \in Times
  BY InvFacts, TimeFacts DEF Begin
<1> HIDE DEF rl, pc
<1>3. c \in Caller /\ c.pc = pc /\ c.rl = rl
  BY <1>1, InvFacts, TimeFacts DEF Caller, Phases
<1> HIDE DEF c
<1> QED BY <1>1, <1>2, <1>3, CallerOnlyInv

(* A request that passes at once takes no mutex beyond its critical section. *)
LEMMA PassInv ==
  ASSUME Inv, NEW g \in Callers, Pass(g)
  PROVE  Inv'
<1> DEFINE c == [caller[g] EXCEPT !.pc = "sent"]
<1>1. caller[g] \in Caller /\ caller \in [Callers -> Caller]
  BY InvFacts
<1>2. c \in Caller /\ c.pc = "sent"
  BY <1>1 DEF Caller, Phases
<1>3. caller' = [caller EXCEPT ![g] = c] /\ caller[g].pc = "waiting"
      /\ UNCHANGED <<limit, limiterOf, limiter, sinceEnd>> /\ sinceSent' \in Times
  BY TimeFacts DEF Pass
<1> HIDE DEF c
<1> QED BY <1>2, <1>3, CallerOnlyInv

(* The end of a request, recorded or not. *)
LEMMA FinishInv ==
  ASSUME Inv, NEW g \in Callers, NEW rl \in Limiters \cup {NoLimiter},
         caller[g].pc = "sent", Finish(g, rl),
         UNCHANGED <<limit, limiterOf, limiter, sinceSent, sinceEnd>>
  PROVE  Inv'
<1> DEFINE c == IF rl = NoLimiter THEN Idle
                ELSE [caller[g] EXCEPT !.pc = "recording", !.rl = rl]
<1>1. caller[g] \in Caller /\ sinceSent' \in Times
  BY InvFacts
<1>2. /\ c \in Caller /\ c.pc \in {"idle", "recording"}
      /\ c.pc = "recording" => c.rl \in Limiters
  <2>1. CASE rl = NoLimiter
    BY <2>1, TimeFacts DEF Idle, Caller, Phases
  <2>2. CASE rl # NoLimiter
    <3>1. c.pc = "recording" /\ c.rl = rl
      BY <1>1, <2>2 DEF Caller
    <3>2. c \in Caller
      BY <1>1, <2>2 DEF Caller, Phases
    <3> HIDE DEF c
    <3> QED BY <2>2, <3>1, <3>2
  <2> QED BY <2>1, <2>2
<1>3. caller' = [caller EXCEPT ![g] = c]
  BY DEF Finish
<1> HIDE DEF c
<1> QED BY <1>1, <1>2, <1>3, CallerOnlyInv

(* A request ends: its limiter, if it has one, is still there to record it. *)
LEMMA EndInv ==
  ASSUME Inv, NEW g \in Callers, End(g) \/ ListFails(g)
  PROVE  Inv'
<1>1. EndLimiter(g) \in Limiters \cup {NoLimiter}
  BY InvFacts DEF EndLimiter, Caller
<1> QED BY <1>1, FinishInv DEF End, ListFails

(* Falling asleep: the mutex was free, so nobody else sleeps in r. *)
LEMMA SleepInv ==
  ASSUME Inv, NEW g \in Callers, Sleep(g)
  PROVE  Inv'
<1> DEFINE r == caller[g].rl
<1>1. /\ limiter \in [Limiters -> Limiter] /\ caller \in [Callers -> Caller]
      /\ NoCaller \notin Callers
  BY InvFacts
<1>2. r \in Limiters /\ limiter[r] \in Limiter /\ caller[g] \in Caller
      /\ caller[g].pc = "waiting" /\ limiter[r].holder = NoCaller
  BY <1>1 DEF Sleep, Inv, HoldsLimiter
<1>3. /\ WaitTime(r) \in Times /\ WaitTime(r) + limiter[r].elapsed = limiter[r].wait
      /\ limiter[r].elapsed \in Nat
  BY <1>2, TimeFacts DEF Sleep, WaitTime, Limiter, Times
<1>4. /\ limiter' = [limiter EXCEPT ![r].holder = g]
      /\ caller' = [caller EXCEPT ![g].pc = "sleeping", ![g].left = WaitTime(r)]
      /\ UNCHANGED <<limit, limiterOf, sinceSent, sinceEnd>>
  BY DEF Sleep
<1> HIDE DEF r
<1>5. /\ limiter' \in [Limiters -> Limiter] /\ limiter'[r].holder = g
      /\ \A q \in Limiters : /\ limiter'[q].wait = limiter[q].wait
                             /\ limiter'[q].elapsed = limiter[q].elapsed
                             /\ q # r => limiter'[q].holder = limiter[q].holder
  BY <1>1, <1>2, <1>4 DEF Limiter
<1>6. /\ caller' \in [Callers -> Caller] /\ caller'[g].pc = "sleeping"
      /\ caller'[g].left = WaitTime(r) /\ caller'[g].rl = r
      /\ \A h \in Callers : h # g => caller'[h] = caller[h]
  BY <1>1, <1>2, <1>3, <1>4 DEF Caller, Phases, r
<1>7. TypeOK'
  BY <1>4, <1>5, <1>6 DEF Inv, TypeOK, Limiter, Caller
<1>8. HoldsLimiter'
  BY <1>2, <1>6 DEF Inv, HoldsLimiter
<1>9. SleepSuffices'
  <2>1. ASSUME NEW h \in Callers, caller'[h].pc = "sleeping"
        PROVE  LET q == caller'[h].rl IN
               /\ limiter'[q].holder = h
               /\ limiter'[q].elapsed + caller'[h].left >= limiter'[q].wait
               /\ caller'[h].left > 0 => limiter'[q].elapsed + caller'[h].left = limiter'[q].wait
    <3>1. CASE h = g
      BY <1>2, <1>3, <1>5, <1>6, <3>1 DEF Limiter, Times
    <3>2. CASE h # g
      <4>1. caller[h].rl \in Limiters /\ caller[h].rl # r
        BY <1>2, <1>6, <2>1, <3>2, <1>1 DEF Inv, HoldsLimiter, SleepSuffices
      <4> QED BY <1>5, <1>6, <2>1, <3>2, <4>1 DEF Inv, SleepSuffices
    <3> QED BY <3>1, <3>2
  <2>2. ASSUME NEW q \in Limiters, limiter'[q].holder # NoCaller
        PROVE  LET h == limiter'[q].holder IN caller'[h].pc = "sleeping" /\ caller'[h].rl = q
    <3>1. CASE q = r
      BY <1>5, <1>6, <3>1
    <3>2. CASE q # r
      <4>1. limiter[q].holder \in Callers /\ limiter[q].holder # g
        BY <1>1, <1>2, <1>5, <2>2, <3>2 DEF Inv, SleepSuffices, Limiter
      <4> QED BY <1>5, <1>6, <2>2, <3>2, <4>1 DEF Inv, SleepSuffices
    <3> QED BY <3>1, <3>2
  <2> QED BY <2>1, <2>2 DEF SleepSuffices
<1>10. TimingKept'
  BY <1>4, <1>5, InvFacts DEF Inv, TimingKept
<1> QED BY <1>7, <1>8, <1>9, <1>10 DEF Inv

(* Waking up gives the mutex back. *)
LEMMA WakeInv ==
  ASSUME Inv, NEW g \in Callers, Wake(g)
  PROVE  Inv'
<1> DEFINE r == caller[g].rl
<1>1. /\ limiter \in [Limiters -> Limiter] /\ caller \in [Callers -> Caller]
      /\ NoCaller \notin Callers /\ sinceSent' \in Times
      /\ caller[g].pc = "sleeping" /\ r \in Limiters /\ limiter[r].holder = g
  BY InvFacts, TimeFacts DEF Wake, Inv, HoldsLimiter, SleepSuffices
<1>2. /\ limiter' = [limiter EXCEPT ![r].holder = NoCaller]
      /\ caller' = [caller EXCEPT ![g].pc = "sent"]
      /\ UNCHANGED <<limit, limiterOf, sinceEnd>>
  BY DEF Wake
<1> HIDE DEF r
<1>3. /\ limiter' \in [Limiters -> Limiter] /\ limiter'[r].holder = NoCaller
      /\ \A q \in Limiters : /\ limiter'[q].wait = limiter[q].wait
                             /\ limiter'[q].elapsed = limiter[q].elapsed
                             /\ q # r => limiter'[q].holder = limiter[q].holder
  BY <1>1, <1>2 DEF Limiter
<1>4. /\ caller' \in [Callers -> Caller] /\ caller'[g].pc = "sent"
      /\ \A h \in Callers : h # g => caller'[h] = caller[h]
  BY <1>1, <1>2 DEF Caller, Phases
<1>5. TypeOK'
  BY <1>1, <1>2, <1>3, <1>4 DEF Inv, TypeOK, Limiter, Caller
<1>6. HoldsLimiter'
  BY <1>4 DEF Inv, HoldsLimiter
<1>7. SleepSuffices'
  <2>1. ASSUME NEW h \in Callers, caller'[h].pc = "sleeping"
        PROVE  LET q == caller'[h].rl IN
               /\ limiter'[q].holder = h
               /\ limiter'[q].elapsed + caller'[h].left >= limiter'[q].wait
               /\ caller'[h].left > 0 => limiter'[q].elapsed + caller'[h].left = limiter'[q].wait
    <3>1. h # g /\ caller[h].pc = "sleeping" /\ caller[h].rl \in Limiters
      BY <1>4, <2>1 DEF Inv, HoldsLimiter
    <3>2. caller[h].rl # r
      BY <1>1, <3>1 DEF Inv, SleepSuffices
    <3> QED BY <1>3, <1>4, <3>1, <3>2 DEF Inv, SleepSuffices
  <2>2. ASSUME NEW q \in Limiters, limiter'[q].holder # NoCaller
        PROVE  LET h == limiter'[q].holder IN caller'[h].pc = "sleeping" /\ caller'[h].rl = q
    <3>1. q # r /\ limiter'[q].holder = limiter[q].holder /\ limiter[q].holder \in Callers
      BY <1>1, <1>3, <2>2 DEF Limiter
    <3>2. limiter[q].holder # g
      BY <2>2, <3>1 DEF Inv, SleepSuffices, r
    <3> QED BY <1>4, <2>2, <3>1, <3>2 DEF Inv, SleepSuffices
  <2> QED BY <2>1, <2>2 DEF SleepSuffices
<1>8. TimingKept'
  BY <1>2, <1>3, InvFacts DEF Inv, TimingKept
<1> QED BY <1>5, <1>6, <1>7, <1>8 DEF Inv

(* Recording an end takes the mutex, so it restarts nobody's sleep. *)
LEMMA RecordInv ==
  ASSUME Inv, NEW g \in Callers, Record(g)
  PROVE  Inv'
<1> DEFINE r == caller[g].rl
<1>1. /\ limiter \in [Limiters -> Limiter] /\ caller \in [Callers -> Caller]
      /\ NoCaller \notin Callers /\ NoLimiter \notin Limiters
      /\ caller[g].pc = "recording" /\ r \in Limiters /\ limiter[r].holder = NoCaller
  BY InvFacts DEF Record, Inv, HoldsLimiter
<1>2. /\ limiter' = [limiter EXCEPT ![r].elapsed = 0]
      /\ caller' = [caller EXCEPT ![g] = Idle]
      /\ sinceEnd' = IF r = limiterOf THEN 0 ELSE sinceEnd
      /\ UNCHANGED <<limit, limiterOf, sinceSent>>
  BY DEF Record
<1>3. Idle \in Caller /\ Idle.pc = "idle"
  BY TimeFacts DEF Idle, Caller, Phases
<1> HIDE DEF r
<1>4. /\ limiter' \in [Limiters -> Limiter] /\ limiter'[r].holder = NoCaller
      /\ limiter'[r].elapsed = 0
      /\ \A q \in Limiters : q # r => limiter'[q] = limiter[q]
  BY <1>1, <1>2, TimeFacts DEF Limiter
<1>5. /\ caller' \in [Callers -> Caller] /\ caller'[g].pc = "idle"
      /\ \A h \in Callers : h # g => caller'[h] = caller[h]
  BY <1>1, <1>2, <1>3
<1>6. TypeOK'
  <2>1. sinceEnd' \in Times
    BY <1>2, InvFacts, TimeFacts
  <2> QED BY <1>2, <1>4, <1>5, <2>1 DEF Inv, TypeOK, Limiter, Caller
<1>7. HoldsLimiter'
  BY <1>5 DEF Inv, HoldsLimiter
<1>8. SleepSuffices'
  <2>1. ASSUME NEW h \in Callers, caller'[h].pc = "sleeping"
        PROVE  LET q == caller'[h].rl IN
               /\ limiter'[q].holder = h
               /\ limiter'[q].elapsed + caller'[h].left >= limiter'[q].wait
               /\ caller'[h].left > 0 => limiter'[q].elapsed + caller'[h].left = limiter'[q].wait
    <3>1. h # g /\ caller[h].pc = "sleeping" /\ caller[h].rl \in Limiters
      BY <1>5, <2>1 DEF Inv, HoldsLimiter
    <3>2. caller[h].rl # r
      BY <1>1, <3>1 DEF Inv, SleepSuffices
    <3> QED BY <1>4, <1>5, <3>1, <3>2 DEF Inv, SleepSuffices
  <2>2. ASSUME NEW q \in Limiters, limiter'[q].holder # NoCaller
        PROVE  LET h == limiter'[q].holder IN caller'[h].pc = "sleeping" /\ caller'[h].rl = q
    <3>1. q # r /\ limiter'[q].holder = limiter[q].holder /\ limiter[q].holder \in Callers
      BY <1>1, <1>4, <2>2 DEF Limiter
    <3>2. limiter[q].holder # g
      BY <1>1, <2>2, <3>1 DEF Inv, SleepSuffices
    <3> QED BY <1>5, <2>2, <3>1, <3>2 DEF Inv, SleepSuffices
  <2> QED BY <2>1, <2>2 DEF SleepSuffices
<1>9. TimingKept'
  <2>1. limiterOf = NoLimiter => sinceEnd' = Horizon
    BY <1>1, <1>2 DEF Inv, TimingKept
  <2>2. CASE limiterOf = r
    BY <1>1, <1>2, <1>4, <2>1, <2>2 DEF TimingKept
  <2>3. CASE limiterOf # r
    BY <1>2, <1>4, <2>1, <2>3, InvFacts DEF Inv, TimingKept
  <2> QED BY <2>2, <2>3
<1> QED BY <1>6, <1>7, <1>8, <1>9 DEF Inv

(* Time passes for a limiter and its sleeper alike. *)
LEMMA TickInv ==
  ASSUME Inv, Tick
  PROVE  Inv'
<1>1. /\ limiter \in [Limiters -> Limiter] /\ caller \in [Callers -> Caller]
      /\ sinceSent \in Times /\ sinceEnd \in Times /\ limiterOf \in Limiters \cup {NoLimiter}
      /\ sinceSent' = Later(sinceSent) /\ sinceEnd' = Later(sinceEnd)
      /\ UNCHANGED <<limit, limiterOf>>
  BY InvFacts DEF Tick
<1>2. /\ limiter' = [r \in Limiters |-> [limiter[r] EXCEPT !.elapsed = Later(@)]]
      /\ caller' = [g \in Callers |-> [caller[g] EXCEPT !.left = IF @ > 0 THEN @ - 1 ELSE 0]]
  BY DEF Tick
<1>3. \A r \in Limiters :
        /\ limiter'[r] \in Limiter /\ limiter'[r].elapsed = Later(limiter[r].elapsed)
        /\ limiter'[r].wait = limiter[r].wait /\ limiter'[r].holder = limiter[r].holder
  BY <1>1, <1>2, TimeFacts DEF Limiter
<1>4. \A g \in Callers :
        /\ caller'[g] \in Caller /\ caller'[g].pc = caller[g].pc /\ caller'[g].rl = caller[g].rl
        /\ caller'[g].left = IF caller[g].left > 0 THEN caller[g].left - 1 ELSE 0
  <2>1. \A t \in Times : (IF t > 0 THEN t - 1 ELSE 0) \in Times
    BY TimeFacts DEF Times
  <2> QED BY <1>1, <1>2, <2>1 DEF Caller
<1>5. limiter' \in [Limiters -> Limiter] /\ caller' \in [Callers -> Caller]
  BY <1>2, <1>3, <1>4
<1>6. TypeOK'
  BY <1>1, <1>5, TimeFacts DEF Inv, TypeOK, Limiter, Caller
<1>7. HoldsLimiter'
  BY <1>4 DEF Inv, HoldsLimiter
<1>8. SleepSuffices'
  <2>1. ASSUME NEW g \in Callers, caller'[g].pc = "sleeping"
        PROVE  LET r == caller'[g].rl IN
               /\ limiter'[r].holder = g
               /\ limiter'[r].elapsed + caller'[g].left >= limiter'[r].wait
               /\ caller'[g].left > 0 => limiter'[r].elapsed + caller'[g].left = limiter'[r].wait
    <3> DEFINE r == caller[g].rl
    <3>1. /\ r \in Limiters /\ limiter[r].holder = g /\ caller'[g].rl = r
          /\ limiter[r].elapsed + caller[g].left >= limiter[r].wait
          /\ caller[g].left > 0 => limiter[r].elapsed + caller[g].left = limiter[r].wait
      BY <1>4, <2>1 DEF Inv, HoldsLimiter, SleepSuffices
    <3>2. /\ limiter[r].elapsed \in Times /\ limiter[r].wait \in Times /\ caller[g].left \in Times
      BY <1>1, <3>1 DEF Limiter, Caller
    <3> HIDE DEF r
    <3>3. /\ Later(limiter[r].elapsed) + caller'[g].left >= limiter[r].wait
          /\ caller'[g].left > 0 => Later(limiter[r].elapsed) + caller'[g].left = limiter[r].wait
      BY <1>4, <3>1, <3>2, LimiterAssumption DEF Later, Times
    <3> QED BY <1>3, <3>1, <3>3
  <2>2. ASSUME NEW r \in Limiters, limiter'[r].holder # NoCaller
        PROVE  LET g == limiter'[r].holder IN caller'[g].pc = "sleeping" /\ caller'[g].rl = r
    BY <1>1, <1>3, <1>4, <2>2 DEF Inv, SleepSuffices, Limiter
  <2> QED BY <2>1, <2>2 DEF SleepSuffices
<1>9. TimingKept'
  BY <1>1, <1>3, TimeFacts DEF Inv, TimingKept, Limiter
<1> QED BY <1>6, <1>7, <1>8, <1>9 DEF Inv

(* Every step of a caller, of a reload or of the clock keeps the invariant. *)
LEMMA StepInv == Inv /\ [Next]_vars => Inv'
<1> SUFFICES ASSUME Inv, [Next]_vars PROVE Inv'
  OBVIOUS
<1>1. CASE UNCHANGED vars
  BY <1>1 DEF vars, Inv, TypeOK, HoldsLimiter, SleepSuffices, TimingKept
<1>2. ASSUME NEW g \in Callers, CallerStep(g)
      PROVE  Inv'
  BY <1>2, BeginInv, PassInv, SleepInv, WakeInv, EndInv, RecordInv DEF CallerStep
<1> QED BY <1>1, <1>2, SetProvidersInv, TickInv DEF Next

(* Every reachable state satisfies the inductive invariant. *)
THEOREM Invariance == Spec => []Inv
BY InitInv, StepInv, PTL DEF Spec

(* The limiter's state stays well typed. *)
THEOREM TypeCorrect == Spec => []TypeOK
BY Invariance, PTL DEF Inv

(* A sleeper holds its limiter's mutex and sleeps long enough, whatever is *)
(* reloaded and recorded meanwhile.                                        *)
THEOREM SleepIsEnough == Spec => []SleepSuffices
BY Invariance, PTL DEF Inv

(* A request that goes through a limiter is sent by Pass or Wake. *)
LEMMA SendSteps ==
  ASSUME Inv, [Next]_vars, NEW g \in Callers, Sends(g), caller'[g].rl # NoLimiter
  PROVE  /\ Pass(g) \/ Wake(g)
         /\ caller'[g].rl = caller[g].rl
<1>1. caller \in [Callers -> Caller] /\ caller[g] \in Caller
  BY InvFacts
<1>2. caller'[g].pc = "sent" /\ caller[g].pc # "sent"
  BY DEF Sends
<1>3. PICK h \in Callers : CallerStep(h)
  <2>1. ~UNCHANGED caller
    BY <1>2
  <2>2. ~Tick
    BY <1>1, <1>2 DEF Tick, Caller
  <2> QED BY <2>1, <2>2 DEF Next, SetProviders, vars
<1>4. h = g
  <2>1. \A x \in Callers : x # h => caller'[x] = caller[x]
    BY <1>1, <1>3 DEF CallerStep, Begin, Pass, Sleep, Wake, End, ListFails, Finish, Record
  <2> QED BY <1>2, <2>1
<1>5. ~Sleep(g) /\ ~Record(g) /\ ~End(g) /\ ~ListFails(g)
  BY <1>1, <1>2 DEF Sleep, Record, End, ListFails, Idle, Caller
<1>6. ASSUME NEW k \in Kinds, Begin(g, k)
      PROVE  FALSE
  BY <1>1, <1>2, <1>6 DEF Begin
<1>7. Pass(g) \/ Wake(g)
  BY <1>3, <1>4, <1>5, <1>6 DEF CallerStep
<1> QED BY <1>1, <1>7 DEF Pass, Wake, Caller

(* Enough time has passed in the limiter when a request is sent. *)
LEMMA SendWaited ==
  ASSUME Inv, [Next]_vars, NEW g \in Callers, Sends(g), caller'[g].rl # NoLimiter
  PROVE  /\ caller'[g].rl \in Limiters
         /\ limiter[caller'[g].rl].elapsed >= limiter[caller'[g].rl].wait
<1> DEFINE r == caller[g].rl
<1>1. (Pass(g) \/ Wake(g)) /\ caller'[g].rl = r
  BY SendSteps
<1>2. r \in Limiters /\ limiter[r] \in Limiter
  BY <1>1, InvFacts DEF Pass, Wake, Inv, HoldsLimiter
<1>3. /\ limiter[r].elapsed \in Times /\ limiter[r].wait \in Times
      /\ \A t \in Times : t \in Nat
  BY <1>2, TimeFacts DEF Limiter
<1>4. CASE Pass(g)
  <2>1. limiter[r].wait - limiter[r].elapsed <= 0
    BY <1>4 DEF Pass, WaitTime
  <2> QED BY <1>1, <1>2, <1>3, <2>1
<1>5. CASE Wake(g)
  <2>1. limiter[r].elapsed + 0 >= limiter[r].wait
    BY <1>5 DEF Wake, Inv, SleepSuffices
  <2> QED BY <1>1, <1>2, <1>3, <2>1
<1> QED BY <1>1, <1>4, <1>5

(* Requests through a limiter keep its distance from the last recorded     *)
(* end, for any number of callers and any sequence of reloads.             *)
THEOREM Spacing == Spec => SpacedByLimiter
<1>1. Inv /\ [Next]_vars => [WaitsLongEnough]_vars
  BY SendWaited DEF WaitsLongEnough
<1> QED BY <1>1, Invariance, PTL DEF Spec, SpacedByLimiter

(* A reload that keeps the provider limited does not restart the timing. *)
THEOREM TimingKeptByReloads == Spec => TimingSurvivesReload
<1>1. ASSUME Inv, [Next]_vars, NEW g \in Callers, Sends(g),
             caller'[g].rl # NoLimiter, caller'[g].rl = limiterOf
      PROVE  sinceEnd >= limiter[limiterOf].wait
  <2>1. limiterOf \in Limiters /\ limiter[limiterOf].elapsed >= limiter[limiterOf].wait
    BY <1>1, SendWaited
  <2>2. sinceEnd >= limiter[limiterOf].elapsed
    BY <1>1 DEF Inv, TimingKept
  <2>3. /\ limiter[limiterOf].elapsed \in Nat /\ limiter[limiterOf].wait \in Nat
        /\ sinceEnd \in Nat
    BY <1>1, <2>1, InvFacts, TimeFacts DEF Limiter
  <2> QED BY <2>1, <2>2, <2>3
<1>2. Inv /\ [Next]_vars => [KeepsTiming]_vars
  BY <1>1 DEF KeepsTiming
<1> QED BY <1>2, Invariance, PTL DEF Spec, TimingSurvivesReload

-------------------------------------------------------------------------------
(* What EveryWaiterReturns rests on, apart from fairness: who is blocked   *)
(* waits for somebody asleep, and a sleep only gets shorter.               *)

(* A request that wants the mutex of a limiter gets it, or another request *)
(* sleeps with it, for no longer than the limiter's wait.                  *)
BlockedBySleeper ==
  \A g \in Callers : caller[g].pc \in {"waiting", "recording"} =>
    LET r == caller[g].rl IN
    \/ limiter[r].holder = NoCaller
    \/ \E h \in Callers \ {g} :
         /\ limiter[r].holder = h
         /\ caller[h].pc = "sleeping" /\ caller[h].rl = r
         /\ caller[h].left <= limiter[r].wait

(* Nothing another request, a reload or a recording does reaches a sleep:  *)
(* it stays as it is, with its limiter's wait and the mutex; or time takes *)
(* a tick of it; or it is over, and the mutex is free again.               *)
SleepsOnlyShorten ==
  \A g \in Callers : caller[g].pc = "sleeping" =>
    LET r == caller[g].rl
        Keeps == limiter'[r].holder = g /\ limiter'[r].wait = limiter[r].wait
    IN
    \/ caller'[g] = caller[g] /\ Keeps
    \/ /\ caller[g].left > 0 /\ Keeps
       /\ caller'[g] = [caller[g] EXCEPT !.left = @ - 1]
    \/ /\ caller[g].left = 0
       /\ caller'[g].pc = "sent" /\ limiter'[r].holder = NoCaller

(* Nobody waits for a request that is not asleep (rate_limiter.go:26-46).  *)
THEOREM BlockedOnlyBySleep == Spec => []BlockedBySleeper
<1>1. ASSUME Inv, NEW g \in Callers, caller[g].pc \in {"waiting", "recording"},
             limiter[caller[g].rl].holder # NoCaller
      PROVE  \E h \in Callers \ {g} :
               /\ limiter[caller[g].rl].holder = h
               /\ caller[h].pc = "sleeping" /\ caller[h].rl = caller[g].rl
               /\ caller[h].left <= limiter[caller[g].rl].wait
  <2> DEFINE r == caller[g].rl
             h == limiter[r].holder
  <2>1. /\ r \in Limiters /\ limiter[r] \in Limiter /\ h \in Callers
        /\ caller[h] \in Caller
    BY <1>1, InvFacts DEF Inv, HoldsLimiter, Limiter
  <2>2. caller[h].pc = "sleeping" /\ caller[h].rl = r
    BY <1>1, <2>1 DEF Inv, SleepSuffices
  <2>3. caller[h].left > 0 => limiter[r].elapsed + caller[h].left = limiter[r].wait
    BY <1>1, <2>1, <2>2 DEF Inv, SleepSuffices
  <2>4. caller[h].left \in Nat /\ limiter[r].elapsed \in Nat /\ limiter[r].wait \in Nat
    BY <2>1, TimeFacts DEF Caller, Limiter
  <2>5. caller[h].left <= limiter[r].wait
    BY <2>3, <2>4
  <2>6. h # g
    BY <1>1, <2>2
  <2> HIDE DEF h
  <2> QED BY <2>1, <2>2, <2>5, <2>6 DEF h
<1>2. Inv => BlockedBySleeper
  BY <1>1 DEF BlockedBySleeper
<1> QED BY <1>2, Invariance, PTL

(* No step of another request touches a sleeper or its limiter's mutex:    *)
(* they all need the mutex, or leave limiters alone.                       *)
LEMMA OthersLeaveSleeper ==
  ASSUME Inv, NEW g \in Callers, caller[g].pc = "sleeping",
         NEW h \in Callers \ {g}, CallerStep(h)
  PROVE  /\ caller'[g] = caller[g]
         /\ limiter'[caller[g].rl].holder = g
         /\ limiter'[caller[g].rl].wait = limiter[caller[g].rl].wait
<1> DEFINE r == caller[g].rl
<1>1. /\ caller \in [Callers -> Caller] /\ limiter \in [Limiters -> Limiter]
      /\ r \in Limiters /\ limiter[r] \in Limiter /\ limiter[r].holder = g
      /\ NoCaller \notin Callers
  BY InvFacts DEF Inv, HoldsLimiter, SleepSuffices
<1>2. caller'[g] = caller[g]
  BY <1>1 DEF CallerStep, Begin, Pass, Sleep, Wake, End, ListFails, Finish, Record
<1>3. CASE \/ \E k \in Kinds : Begin(h, k)
           \/ Pass(h) \/ End(h) \/ ListFails(h)
  BY <1>1, <1>2, <1>3 DEF Begin, Pass, End, ListFails
<1>4. CASE Sleep(h) \/ Wake(h) \/ Record(h)
  <2>1. caller[h].rl # r
    BY <1>1, <1>4 DEF Sleep, Wake, Record, Inv, SleepSuffices
  <2>2. limiter'[r] = limiter[r]
    BY <1>1, <1>4, <2>1 DEF Sleep, Wake, Record
  <2> QED BY <1>1, <1>2, <2>2
<1> QED BY <1>3, <1>4 DEF CallerStep

(* Every step leaves a sleep, shortens it or ends it (rate_limiter.go:26-39). *)
THEOREM SleepsShorten == Spec => [][SleepsOnlyShorten]_vars
<1> DEFINE Keeps(g) == /\ limiter'[caller[g].rl].holder = g
                       /\ limiter'[caller[g].rl].wait = limiter[caller[g].rl].wait
           Shortens(g) == \/ caller'[g] = caller[g] /\ Keeps(g)
                          \/ /\ caller[g].left > 0 /\ Keeps(g)
                             /\ caller'[g] = [caller[g] EXCEPT !.left = @ - 1]
                          \/ /\ caller[g].left = 0 /\ caller'[g].pc = "sent"
                             /\ limiter'[caller[g].rl].holder = NoCaller
<1>1. ASSUME Inv, Next, NEW g \in Callers, caller[g].pc = "sleeping"
      PROVE  Shortens(g)
  <2> DEFINE r == caller[g].rl
  <2>1. /\ caller \in [Callers -> Caller] /\ limiter \in [Limiters -> Limiter]
        /\ caller[g] \in Caller /\ r \in Limiters /\ limiter[r].holder = g
    BY <1>1, InvFacts DEF Inv, HoldsLimiter, SleepSuffices
  <2>2. ASSUME NEW l \in Limits, SetProviders(l)
        PROVE  Shortens(g)
    <3>1. caller' = caller /\ limiter'[r] = limiter[r]
      BY <2>1, <2>2 DEF SetProviders, Reachable
    <3> QED BY <2>1, <3>1
  <2>3. ASSUME NEW h \in Callers, CallerStep(h), h # g
        PROVE  Shortens(g)
    BY <1>1, <2>3, OthersLeaveSleeper
  <2>4. CASE CallerStep(g)
    <3>1. Wake(g)
      BY <1>1, <2>4 DEF CallerStep, Begin, Pass, Sleep, End, ListFails, Record
    <3> QED BY <2>1, <3>1 DEF Wake
  <2>5. CASE Tick
    <3>1. /\ limiter'[r] = [limiter[r] EXCEPT !.elapsed = Later(@)]
          /\ caller'[g] = [caller[g] EXCEPT !.left = IF @ > 0 THEN @ - 1 ELSE 0]
      BY <2>1, <2>5 DEF Tick
    <3>2. Keeps(g)
      BY <2>1, <3>1 DEF Limiter
    <3>3. CASE caller[g].left > 0
      BY <3>1, <3>2, <3>3
    <3>4. CASE ~(caller[g].left > 0)
      <4>1. caller[g].left \in Nat
        BY <2>1, TimeFacts DEF Caller
      <4>2. caller'[g] = caller[g]
        BY <2>1, <3>1, <3>4, <4>1 DEF Caller
      <4> QED BY <3>2, <4>2
    <3> QED BY <3>3, <3>4
  <2> HIDE DEF Shortens
  <2> QED BY <1>1, <2>2, <2>3, <2>4, <2>5 DEF Next
<1>2. Inv /\ [Next]_vars => [SleepsOnlyShorten]_vars
  BY <1>1 DEF SleepsOnlyShorten
<1> QED BY <1>2, Invariance, PTL DEF Spec
================================================================================
