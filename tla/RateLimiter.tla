------------------------------ MODULE RateLimiter ------------------------------
(***************************************************************************)
(* Requests to one provider and its rate limiter (rate_limiter.go), under  *)
(* the provider list being replaced at run time (Client.SetProviders).     *)
(* Limiters are objects: a request may still hold one that the client has  *)
(* dropped.  Wait sleeps with the limiter's mutex held, and the end of a   *)
(* request is recorded in a second critical section.                       *)
(*                                                                         *)
(* Time passes in ticks (seconds).  Instead of instants the model keeps    *)
(* the time since them, saturating at Horizon, which no wait exceeds: a    *)
(* zero lastRequestTime and one long past both mean "do not wait".         *)
(***************************************************************************)
EXTENDS Integers, FiniteSets

CONSTANTS Callers,    (* goroutines that send requests                      *)
          NoCaller,   (* nobody holds the mutex                             *)
          Limiters,   (* RateLimiter objects, reused once unreachable       *)
          NoLimiter,  (* a nil *RateLimiter                                 *)
          Limits,     (* values rate_limit_seconds is given; 0 is unlimited *)
          Horizon,    (* where elapsed times saturate                       *)
          Kinds       (* kinds of request made, a subset of AllKinds        *)

(* chat and tags go through the limiter, list too unless the model list is *)
(* static; the meta-router's and the judge's requests ("direct") do not.   *)
AllKinds == {"chat", "tags", "list", "direct"}

ASSUME LimiterAssumption ==
  /\ NoCaller \notin Callers
  /\ NoLimiter \notin Limiters
  /\ Horizon \in Nat
  /\ Limits \subseteq 0..Horizon
  /\ Kinds \subseteq AllKinds /\ Kinds # {}

VARIABLES limit,      (* RateLimitSeconds of the provider now              *)
          limiterOf,  (* the client's limiter for it, or NoLimiter         *)
          limiter,    (* limiter[r]: wait, time since its last request     *)
                      (* ended, and who holds its mutex                    *)
          caller,     (* caller[g]: what goroutine g is doing              *)
          sinceSent,  (* history: time since a request was last sent       *)
          sinceEnd    (* history: time since the end of a request was last *)
                      (* recorded while the provider has stayed limited    *)

vars == <<limit, limiterOf, limiter, caller, sinceSent, sinceEnd>>

Phases == {"idle", "waiting", "sleeping", "sent", "recording"}

Times == 0..Horizon

TypeOK ==
  /\ limit \in Limits
  /\ limiterOf \in Limiters \cup {NoLimiter}
  /\ limiter \in [Limiters -> [wait : Times, elapsed : Times,
                               holder : Callers \cup {NoCaller}]]
  /\ caller \in [Callers -> [pc : Phases, kind : Kinds \cup {"none"},
                             rl : Limiters \cup {NoLimiter},
                             left : Times, limit : Times]]
  /\ sinceSent \in Times
  /\ sinceEnd \in Times

Idle == [pc |-> "idle", kind |-> "none", rl |-> NoLimiter, left |-> 0, limit |-> 0]

NewRateLimiter(l) == [wait |-> l, elapsed |-> Horizon, holder |-> NoCaller]

(* NewClient calls SetProviders on an empty client. *)
Init ==
  /\ limit \in Limits
  /\ limiter = [r \in Limiters |-> NewRateLimiter(limit)]
  /\ IF limit > 0 THEN limiterOf \in Limiters ELSE limiterOf = NoLimiter
  /\ caller = [g \in Callers |-> Idle]
  /\ sinceSent = Horizon
  /\ sinceEnd = Horizon

-------------------------------------------------------------------------------
(* Client.SetProviders: a limiter that is there is kept as it is, a newly  *)
(* limited provider gets a fresh one, an unlimited one none.               *)

Reachable(r) == r = limiterOf \/ \E g \in Callers : caller[g].rl = r

(* Wrong variant: every reload makes a new limiter. *)
SetProvidersAnew(l) ==
  /\ limit' = l
  /\ IF l = 0
     THEN limiterOf' = NoLimiter /\ UNCHANGED limiter
     ELSE \E r \in Limiters :
            /\ ~Reachable(r)
            /\ limiterOf' = r
            /\ limiter' = [limiter EXCEPT ![r] = NewRateLimiter(l)]
  /\ sinceEnd' = IF l = 0 THEN Horizon ELSE sinceEnd
  /\ UNCHANGED <<caller, sinceSent>>

SetProviders(l) ==
  /\ limit' = l
  /\ \/ l = 0 /\ limiterOf' = NoLimiter /\ UNCHANGED limiter
     \/ l > 0 /\ limiterOf # NoLimiter /\ UNCHANGED <<limiterOf, limiter>>
     \/ /\ l > 0 /\ limiterOf = NoLimiter
        /\ \E r \in Limiters :
             /\ ~Reachable(r)
             /\ limiterOf' = r
             /\ limiter' = [limiter EXCEPT ![r] = NewRateLimiter(l)]
  /\ sinceEnd' = IF l = 0 THEN Horizon ELSE sinceEnd
  /\ UNCHANGED <<caller, sinceSent>>

-------------------------------------------------------------------------------
(* A request looks its limiter up (rateLimiterFor); without one it is sent *)
(* at once, otherwise Wait wants the mutex.                                *)
Begin(g, k) ==
  LET rl == IF k = "direct" THEN NoLimiter ELSE limiterOf
      pc == IF rl = NoLimiter THEN "sent" ELSE "waiting"
  IN
  /\ caller[g].pc = "idle"
  /\ caller' = [caller EXCEPT ![g] = [pc |-> pc, kind |-> k, rl |-> rl, left |-> 0,
                                      limit |-> limit]]
  /\ sinceSent' = IF pc = "sent" THEN 0 ELSE sinceSent
  /\ UNCHANGED <<limit, limiterOf, limiter, sinceEnd>>

WaitTime(r) == limiter[r].wait - limiter[r].elapsed

(* Wait, enough time has passed: the request is sent. *)
Pass(g) ==
  LET r == caller[g].rl IN
  /\ caller[g].pc = "waiting"
  /\ limiter[r].holder = NoCaller
  /\ WaitTime(r) <= 0
  /\ caller' = [caller EXCEPT ![g].pc = "sent"]
  /\ sinceSent' = 0
  /\ UNCHANGED <<limit, limiterOf, limiter, sinceEnd>>

(* Wrong variant: the time that has passed is added.                       *)
SleepTooLong(g) ==
  LET r == caller[g].rl IN
  /\ caller[g].pc = "waiting"
  /\ limiter[r].holder = NoCaller
  /\ WaitTime(r) > 0
  /\ limiter' = [limiter EXCEPT ![r].holder = g]
  /\ caller' = [caller EXCEPT ![g].pc = "sleeping",
                              ![g].left = limiter[r].wait + limiter[r].elapsed]
  /\ UNCHANGED <<limit, limiterOf, sinceSent, sinceEnd>>

(* Wait, otherwise: it sleeps for the rest with the mutex held. *)
Sleep(g) ==
  LET r == caller[g].rl IN
  /\ caller[g].pc = "waiting"
  /\ limiter[r].holder = NoCaller
  /\ WaitTime(r) > 0
  /\ limiter' = [limiter EXCEPT ![r].holder = g]
  /\ caller' = [caller EXCEPT ![g].pc = "sleeping", ![g].left = WaitTime(r)]
  /\ UNCHANGED <<limit, limiterOf, sinceSent, sinceEnd>>

(* Wrong variants: the sleeper wakes before its time; it lets go of the    *)
(* mutex and tests again, when others may have been faster.                *)
WakeEarly(g) ==
  /\ caller[g].pc = "sleeping"
  /\ limiter' = [limiter EXCEPT ![caller[g].rl].holder = NoCaller]
  /\ caller' = [caller EXCEPT ![g].pc = "sent", ![g].left = 0]
  /\ sinceSent' = 0
  /\ UNCHANGED <<limit, limiterOf, sinceEnd>>

WakeRechecks(g) ==
  /\ caller[g].pc = "sleeping"
  /\ caller[g].left = 0
  /\ limiter' = [limiter EXCEPT ![caller[g].rl].holder = NoCaller]
  /\ caller' = [caller EXCEPT ![g].pc = "waiting"]
  /\ UNCHANGED <<limit, limiterOf, sinceSent, sinceEnd>>

Wake(g) ==
  /\ caller[g].pc = "sleeping"
  /\ caller[g].left = 0
  /\ limiter' = [limiter EXCEPT ![caller[g].rl].holder = NoCaller]
  /\ caller' = [caller EXCEPT ![g].pc = "sent"]
  /\ sinceSent' = 0
  /\ UNCHANGED <<limit, limiterOf, sinceEnd>>

-------------------------------------------------------------------------------
(* The limiter in which the end of g's request is recorded: a chat uses    *)
(* the one it waited on (defer), tagging and listing look it up again.     *)
EndLimiter(g) ==
  CASE caller[g].kind = "chat"   -> caller[g].rl
    [] caller[g].kind = "direct" -> NoLimiter
    [] OTHER                     -> limiterOf

Finish(g, rl) ==
  caller' = [caller EXCEPT ![g] = IF rl = NoLimiter THEN Idle
                                  ELSE [@ EXCEPT !.pc = "recording", !.rl = rl]]

(* The request ended, with an answer or an error. *)
End(g) ==
  /\ caller[g].pc = "sent"
  /\ Finish(g, EndLimiter(g))
  /\ UNCHANGED <<limit, limiterOf, limiter, sinceSent, sinceEnd>>

(* A listing that fails returns early: its end is not recorded. *)
ListFails(g) ==
  /\ caller[g].pc = "sent"
  /\ caller[g].kind = "list"
  /\ Finish(g, NoLimiter)
  /\ UNCHANGED <<limit, limiterOf, limiter, sinceSent, sinceEnd>>

(* Wrong variant: UpdateLastRequestTime without the mutex. *)
RecordUnlocked(g) ==
  LET r == caller[g].rl IN
  /\ caller[g].pc = "recording"
  /\ limiter' = [limiter EXCEPT ![r].elapsed = 0]
  /\ sinceEnd' = IF r = limiterOf THEN 0 ELSE sinceEnd
  /\ caller' = [caller EXCEPT ![g] = Idle]
  /\ UNCHANGED <<limit, limiterOf, sinceSent>>

(* UpdateLastRequestTime. *)
Record(g) ==
  LET r == caller[g].rl IN
  /\ caller[g].pc = "recording"
  /\ limiter[r].holder = NoCaller
  /\ limiter' = [limiter EXCEPT ![r].elapsed = 0]
  /\ sinceEnd' = IF r = limiterOf THEN 0 ELSE sinceEnd
  /\ caller' = [caller EXCEPT ![g] = Idle]
  /\ UNCHANGED <<limit, limiterOf, sinceSent>>

-------------------------------------------------------------------------------
Later(t) == IF t < Horizon THEN t + 1 ELSE Horizon

Tick ==
  /\ limiter' = [r \in Limiters |-> [limiter[r] EXCEPT !.elapsed = Later(@)]]
  /\ caller' = [g \in Callers |-> [caller[g] EXCEPT !.left = IF @ > 0 THEN @ - 1 ELSE 0]]
  /\ sinceSent' = Later(sinceSent)
  /\ sinceEnd' = Later(sinceEnd)
  /\ UNCHANGED <<limit, limiterOf>>

CallerStep(g) ==
  \/ \E k \in Kinds : Begin(g, k)
  \/ Pass(g)
  \/ Sleep(g)
  \/ Wake(g)
  \/ End(g)
  \/ ListFails(g)
  \/ Record(g)

Next ==
  \/ \E l \in Limits : SetProviders(l)
  \/ \E g \in Callers : CallerStep(g)
  \/ Tick

Spec == Init /\ [][Next]_vars

(* Time passes, a sleeper wakes, every request ends (each HTTP client has  *)
(* the provider's timeout), and a goroutine blocked on a mutex that is     *)
(* released again and again gets it: sync.Mutex hands over in FIFO order   *)
(* once a waiter has starved for a millisecond.                            *)
Fairness ==
  /\ WF_vars(Tick)
  /\ \A g \in Callers :
       /\ SF_vars(Pass(g) \/ Sleep(g))
       /\ WF_vars(Wake(g))
       /\ WF_vars(End(g))
       /\ SF_vars(Record(g))

FairSpec == Spec /\ Fairness

-------------------------------------------------------------------------------
(* Properties *)

(* g's request is sent by this step. *)
Sends(g) == caller[g].pc # "sent" /\ caller'[g].pc = "sent"

(* Only the sleeper holds the mutex, so nobody restarts the wait period it *)
(* sleeps for: when its sleep is over enough time will have passed, and it *)
(* keeps the others waiting no longer than that takes.                     *)
SleepSuffices ==
  /\ \A g \in Callers : caller[g].pc = "sleeping" =>
       LET r == caller[g].rl IN
       /\ limiter[r].holder = g
       /\ limiter[r].elapsed + caller[g].left >= limiter[r].wait
       /\ caller[g].left > 0 => limiter[r].elapsed + caller[g].left = limiter[r].wait
  /\ \A r \in Limiters : limiter[r].holder # NoCaller =>
       LET g == limiter[r].holder IN caller[g].pc = "sleeping" /\ caller[g].rl = r

(* Wait's guarantee: a request that waited is sent at least wait seconds   *)
(* after the last end recorded in its limiter, whoever recorded it.        *)
WaitsLongEnough ==
  \A g \in Callers : (Sends(g) /\ caller'[g].rl # NoLimiter) =>
    limiter[caller'[g].rl].elapsed >= limiter[caller'[g].rl].wait

SpacedByLimiter == [][WaitsLongEnough]_vars

(* A reload does not restart the timing: as long as the provider stays     *)
(* limited, whatever reloads happen in between, requests keep the distance *)
(* of the limiter from the last recorded end (client.go:58-59).            *)
KeepsTiming ==
  \A g \in Callers : (Sends(g) /\ caller'[g].rl # NoLimiter /\ caller'[g].rl = limiterOf) =>
    sinceEnd >= limiter[limiterOf].wait

TimingSurvivesReload == [][KeepsTiming]_vars

(* No request is stuck behind the mutex: whoever waits gets through, and   *)
(* its end gets recorded, although the mutex is held while sleeping.       *)
EveryWaiterReturns ==
  \A g \in Callers : caller[g].pc = "waiting" ~> caller[g].pc = "idle"

(* rate_limit_seconds as documented (config.go:47): the minimum number of  *)
(* seconds between requests to the provider, in force when the request     *)
(* began.                                                                  *)
MinimumSpacing ==
  [][\A g \in Callers : Sends(g) => sinceSent >= caller'[g].limit]_vars
================================================================================
