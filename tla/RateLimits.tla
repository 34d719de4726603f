----------------------------- MODULE RateLimits -----------------------------
(***************************************************************************)
(* The rate limiter of the execution endpoints: per user, plan and window  *)
(* a Redis sorted set of the requests let through, one Lua script that     *)
(* drops what has left the window, counts, and either lets the request     *)
(* into every window or refuses it with the time to wait.  A process reads *)
(* its clock before it sends the script, so scripts may run with readings  *)
(* that are out of order.                                                  *)
(***************************************************************************)
EXTENDS Integers, Sequences, FiniteSets, FiniteSetsExt

CONSTANTS
    Clients,        \* concurrent requests of one user
    Plans,          \* the plans with windows; "enterprise" has none
    Limit,          \* plan -> window (in seconds) -> requests
    Second,         \* clock ticks per second
    MaxClock        \* bound on the clock

ASSUME RateLimitAssumption ==
    /\ Second \in Nat \ {0} /\ MaxClock \in Nat /\ "enterprise" \notin Plans
    /\ \A p \in Plans :
         /\ DOMAIN Limit[p] \subseteq Nat \ {0}
         /\ \A w \in DOMAIN Limit[p] : Limit[p][w] \in Nat \ {0}

VARIABLES
    clock,          \* the time everybody's clock shows
    plan,           \* the plan of the user's active subscription
    reading,        \* client -> the request under way: [plan, now], or IDLE
    hits,           \* plan -> window -> the members of the sorted set: the numbers of
                    \*     the requests it holds, whose scores are their readings
    expires,        \* plan -> window -> when Redis drops the whole key
    admitted,       \* plan -> the readings of all requests let through, by number
    refusal,        \* the last refusal, until another request is let through
    lag             \* the longest time a script ran after its clock reading

rateVars == <<clock, plan, reading, hits, expires, admitted, refusal, lag>>

IDLE == [plan |-> "none", now |-> 0]

(* No refusal is outstanding. *)
NoRefusal == [plan |-> "none", window |-> 0, until |-> 0]

Ceiling(t) == (t + Second - 1) \div Second

RateInit ==
    /\ clock = 1 /\ plan \in Plans
    /\ reading = [c \in Clients |-> IDLE]
    /\ hits = [p \in Plans |-> [w \in DOMAIN Limit[p] |-> {}]]
    /\ expires = [p \in Plans |-> [w \in DOMAIN Limit[p] |-> 0]]
    /\ admitted = [p \in Plans |-> <<>>]
    /\ refusal = NoRefusal /\ lag = 0

Tick == /\ clock < MaxClock /\ clock' = clock + 1
        /\ UNCHANGED <<plan, reading, hits, expires, admitted, refusal, lag>>

(* A subscription starts, changes or lapses in billing (external). *)
ChangePlan ==
    /\ \E p \in (Plans \cup {"enterprise"}) \ {plan} : plan' = p
    /\ UNCHANGED <<clock, reading, hits, expires, admitted, refusal, lag>>

(* The plan is resolved and the clock is read; an enterprise request is    *)
(* let through without touching Redis.                                     *)
enforce_rate_limit(c) ==
    /\ reading[c] = IDLE /\ plan \in Plans
    /\ reading' = [reading EXCEPT ![c] = [plan |-> plan, now |-> clock]]
    /\ UNCHANGED <<clock, plan, hits, expires, admitted, refusal, lag>>

(* What a window holds when the script looks at it with the reading now.   *)
Live(p, w, now) ==
    IF clock > expires[p][w] THEN {}
    ELSE {j \in hits[p][w] : admitted[p][j] > now - w * Second}

Oldest(p, members) == Min({admitted[p][j] : j \in members})

RetryTicks(p, w, now) == Max({1, Oldest(p, Live(p, w, now)) + w * Second - now})

Exceeded(p, now) ==
    {w \in DOMAIN Limit[p] : Cardinality(Live(p, w, now)) >= Limit[p][w]}

(* The exceeded window that is named: the one with the shortest wait, and  *)
(* of two with the same wait the shorter one.                              *)
NamedWindow(p, now) ==
    LET shortest == Min({RetryTicks(p, w, now) : w \in Exceeded(p, now)})
    IN  Min({w \in Exceeded(p, now) : RetryTicks(p, w, now) = shortest})

(* The expiry of the key is set when it is created only. *)
AdmitExpiryNotRenewed(p, now) ==
    /\ Exceeded(p, now) = {}
    /\ hits' = [hits EXCEPT ![p] =
          [w \in DOMAIN Limit[p] |-> Live(p, w, now) \cup {Len(admitted[p]) + 1}]]
    /\ expires' = [expires EXCEPT ![p] =
          [w \in DOMAIN Limit[p] |->
             IF Live(p, w, now) = {} THEN clock + w * Second ELSE expires[p][w]]]
    /\ admitted' = [admitted EXCEPT ![p] = Append(@, now)]
    /\ refusal' = IF refusal.plan = p THEN NoRefusal ELSE refusal

(* The script lets the request into every window and renews their expiry.  *)
Admit(p, now) ==
    /\ Exceeded(p, now) = {}
    /\ hits' = [hits EXCEPT ![p] =
          [w \in DOMAIN Limit[p] |-> Live(p, w, now) \cup {Len(admitted[p]) + 1}]]
    /\ expires' = [expires EXCEPT ![p] = [w \in DOMAIN Limit[p] |-> clock + w * Second]]
    /\ admitted' = [admitted EXCEPT ![p] = Append(@, now)]
    /\ refusal' = IF refusal.plan = p THEN NoRefusal ELSE refusal

(* The script refuses: the windows keep what they hold, and the answer     *)
(* names one window with its Retry-After in whole seconds.                 *)
Refuse(p, now) ==
    /\ Exceeded(p, now) # {}
    /\ LET w == NamedWindow(p, now)
       IN  refusal' = [plan |-> p, window |-> w,
                       until |-> clock + Second * Max({1, Ceiling(RetryTicks(p, w, now))})]
    /\ hits' = [hits EXCEPT ![p] = [w \in DOMAIN Limit[p] |-> Live(p, w, now)]]
    /\ UNCHANGED <<expires, admitted>>

(* The script runs and its answer arrives.  (A lost answer leaves the      *)
(* script's effect behind and becomes a 503, like a Redis that is down.)   *)
_check_sliding_windows(c) ==
    LET r == reading[c]
    IN  /\ r # IDLE
        /\ Admit(r.plan, r.now) \/ Refuse(r.plan, r.now)
        /\ lag' = Max({lag, clock - r.now})
        /\ reading' = [reading EXCEPT ![c] = IDLE]
        /\ UNCHANGED <<clock, plan>>

RedisUnavailable(c) ==
    /\ reading[c] # IDLE
    /\ reading' = [reading EXCEPT ![c] = IDLE]
    /\ UNCHANGED <<clock, plan, hits, expires, admitted, refusal, lag>>

RateNext ==
    \/ Tick \/ ChangePlan
    \/ \E c \in Clients :
         enforce_rate_limit(c) \/ _check_sliding_windows(c) \/ RedisUnavailable(c)

-----------------------------------------------------------------------------
(* No interval of readings as long as a window holds more requests of the  *)
(* plan than the window allows, however often the plan changes, if every   *)
(* script runs when its clock is read; when scripts run late, out of order *)
(* or after Redis dropped the key, the interval that is protected shrinks  *)
(* by the longest delay and no more.                                       *)
LimitPerWindow ==
    \A p \in Plans : \A w \in DOMAIN Limit[p] : \A i \in DOMAIN admitted[p] :
        Cardinality({j \in DOMAIN admitted[p] :
                        admitted[p][j] \in admitted[p][i]..(admitted[p][i] + w * Second - lag - 1)})
            <= Limit[p][w]

(* A refused client that waits for the Retry-After it was given finds room *)
(* in the window that was named, when nobody else of its plan was let      *)
(* through meanwhile, even if its own reading was late.                    *)
RetryAfterIsHonest ==
    refusal # NoRefusal /\ clock >= refusal.until =>
        refusal.window \notin Exceeded(refusal.plan, clock)
=============================================================================
