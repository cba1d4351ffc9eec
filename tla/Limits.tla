------------------------------- MODULE Limits -------------------------------
(***************************************************************************)
(* The rate limiters (internal/middleware/ratelimit.go): a counter in      *)
(* Redis per key and fixed window, started by the first call of a window.  *)
(* They differ in what a failing Redis does to the call.  Here is one key  *)
(* of one limiter of one route: what is done under another key, or on a    *)
(* route with another limiter, is counted apart.  Time is counted in       *)
(* ticks, Window of them to a window.                                      *)
(***************************************************************************)
EXTENDS Naturals, FiniteSets, Absent

CONSTANTS MaxRequests, Window,
          \* bounds on ticks, on failures of Redis and on lost counters
          MaxLapse, MaxOutages, MaxLosses

ASSUME LimitsAssumption ==
    MaxRequests \in Nat \ {0} /\ Window \in Nat \ {0} /\ None \notin Nat

VARIABLES
    limiter,    \* the limiter of the route called
    production, \* cfg.Env == "production"
    counter,    \* ratelimit:<prefix>:<key>, or None
    expires,    \* its TTL in ticks
    served,     \* calls let through in the last Window ticks: the tick, a
                \* number in it, and how many counters had been lost
    outages, losses, lapse
limitVars == <<limiter, production, counter, expires, served, outages, losses,
               lapse>>

Limiters == {"otp", "ip", "user", "user429"}

LimitsInit ==
    /\ limiter \in Limiters /\ production \in BOOLEAN
    /\ counter = None /\ expires = 0
    /\ served = {}
    /\ outages = 0 /\ losses = 0 /\ lapse = 0

\* INCR, and EXPIRE if the counter is new, in one script. Counts over the limit
\* are not told apart.
Count == IF counter = None THEN 1
         ELSE IF counter > MaxRequests THEN counter ELSE counter + 1
atomicIncr ==
    /\ counter' = Count
    /\ expires' = IF Count = 1 THEN Window ELSE expires
    /\ UNCHANGED outages
Unreachable == outages < MaxOutages /\ outages' = outages + 1 /\ UNCHANGED <<counter, expires>>

Serve == LET now == {x \in served : x[1] = lapse} IN
         served' = served \cup {<<lapse, Cardinality(now), losses>>}
Refuse == UNCHANGED served
Limited == atomicIncr /\ IF Count > MaxRequests THEN Refuse ELSE Serve

\* Mutant: a failing Redis lets the call through.
MutOTPRateLimit == limiter = "otp" /\ (Limited \/ (Unreachable /\ Serve))

\* One-time codes: a failing Redis refuses the call.
OTPRateLimit == limiter = "otp" /\ (Limited \/ (Unreachable /\ Refuse))

\* Per address: refused (503) in production only.
IPRateLimit ==
    /\ limiter = "ip"
    /\ Limited \/ (Unreachable /\ IF production THEN Refuse ELSE Serve)

\* Per account: let through. A call over the limit is answered 204 here, ...
UserRateLimit == limiter = "user" /\ (Limited \/ (Unreachable /\ Serve))

\* ... and 429 here.
UserRateLimit429 == limiter = "user429" /\ (Limited \/ (Unreachable /\ Serve))

\* A tick: a key whose time is up goes, the calls of a window ago too.
TimePasses ==
    /\ lapse < MaxLapse /\ lapse' = lapse + 1
    /\ counter' = IF expires <= 1 THEN None ELSE counter
    /\ expires' = IF expires = 0 THEN 0 ELSE expires - 1
    /\ served' = {x \in served : x[1] + Window > lapse + 1}
    /\ UNCHANGED <<limiter, production, outages, losses>>

\* Redis restarts without the counter, evicts it, or fails over to a replica
\* that did not have it.
CounterLost ==
    /\ counter # None /\ losses < MaxLosses /\ losses' = losses + 1
    /\ counter' = None /\ expires' = 0
    /\ UNCHANGED <<limiter, production, served, outages, lapse>>

LimitsNext ==
    \/ (OTPRateLimit \/ IPRateLimit \/ UserRateLimit \/ UserRateLimit429)
       /\ UNCHANGED <<limiter, production, losses, lapse>>
    \/ TimePasses \/ CounterLost

-----------------------------------------------------------------------------
(* Properties.                                                              *)

\* In any span as long as the window a limiter lets through 2*MaxRequests - 1
\* calls of one key at most, twice the limit being what a fixed window can let
\* through around its end, and MaxRequests more for each counter that Redis
\* lost.  The limiters that refuse when Redis does not answer do so whatever
\* it does; the others while it answers.
NeverTwiceTheLimit ==
    (limiter = "otp" \/ (limiter = "ip" /\ production) \/ outages = 0) =>
        Cardinality(served) < (2 + losses) * MaxRequests
=============================================================================
