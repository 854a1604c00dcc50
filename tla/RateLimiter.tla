---------------------------- MODULE RateLimiter ----------------------------
(***************************************************************************)
(* The token bucket in front of the API, internal/apihttp/ratelimit.go:    *)
(* one bucket for each address, refilled when the address is next seen,    *)
(* and a clean-up of the addresses not seen for two intervals.  Buckets    *)
(* live in memory; what follows is one run of the process.                 *)
(***************************************************************************)
EXTENDS Integers, Sequences

CONSTANTS
    Addresses,  \* client addresses
    Rate,       \* tokens in an interval
    Interval,   \* length of the interval in ticks
    MaxTicks,   \* bound: the clock
    MaxAllowed  \* bound: requests of an address that are let through

\* AuthRateLimiter and APIRateLimiter give positive numbers.
ASSUME LimiterAssumption == Rate \in Nat \ {0} /\ Interval \in Nat \ {0}

VARIABLES
    tick,      \* the clock
    visitors,  \* the buckets: tokens and lastSeen, NoVisitor when there is none
    allowed    \* history: when each address was let through

limiterVars == <<tick, visitors, allowed>>

NoVisitor == [tokens |-> -1, lastSeen |-> 0]
Since(ip) == tick - visitors[ip].lastSeen
Seen(tokens) == [tokens |-> tokens, lastSeen |-> tick]

LimiterInit ==
    /\ tick = 0
    /\ visitors = [ip \in Addresses |-> NoVisitor]
    /\ allowed = [ip \in Addresses |-> <<>>]

\* int() rounds down; the bucket never holds more than the rate.
Refilled(ip) ==
    LET tokens == visitors[ip].tokens + (Since(ip) * Rate) \div Interval
    IN  IF tokens > Rate THEN Rate ELSE tokens

\* Mutant: the first request of an address is free.
AllowNewFree(ip) ==
    /\ visitors[ip] = NoVisitor /\ Len(allowed[ip]) < MaxAllowed
    /\ visitors' = [visitors EXCEPT ![ip] = Seen(Rate)]
    /\ allowed' = [allowed EXCEPT ![ip] = Append(@, tick)]
    /\ UNCHANGED tick

AllowNew(ip) ==
    /\ visitors[ip] = NoVisitor /\ Len(allowed[ip]) < MaxAllowed
    /\ visitors' = [visitors EXCEPT ![ip] = Seen(Rate - 1)]
    /\ allowed' = [allowed EXCEPT ![ip] = Append(@, tick)]
    /\ UNCHANGED tick

Allow(ip) ==
    /\ visitors[ip] # NoVisitor /\ Refilled(ip) > 0 /\ Len(allowed[ip]) < MaxAllowed
    /\ visitors' = [visitors EXCEPT ![ip] = Seen(Refilled(ip) - 1)]
    /\ allowed' = [allowed EXCEPT ![ip] = Append(@, tick)]
    /\ UNCHANGED tick

\* A refused request moves lastSeen too: the fraction of a token is lost.
Refuse(ip) ==
    /\ visitors[ip] # NoVisitor /\ Refilled(ip) <= 0
    /\ visitors' = [visitors EXCEPT ![ip] = Seen(Refilled(ip))]
    /\ UNCHANGED <<tick, allowed>>

Cleanup ==
    /\ visitors' = [ip \in Addresses |-> IF Since(ip) > 2 * Interval THEN NoVisitor ELSE visitors[ip]]
    /\ UNCHANGED <<tick, allowed>>

LimiterTick == tick < MaxTicks /\ tick' = tick + 1 /\ UNCHANGED <<visitors, allowed>>

LimiterNext == (\E ip \in Addresses : AllowNew(ip) \/ Allow(ip) \/ Refuse(ip)) \/ Cleanup \/ LimiterTick

LimiterSpec == LimiterInit /\ [][LimiterNext]_limiterVars

-----------------------------------------------------------------------------
(* Over any window, an address is let through at most rate times and as    *)
(* often again as the window refills: rounding, the capped bucket and the  *)
(* clean-up of idle addresses never add up to more.                        *)
WindowBound ==
    \A ip \in Addresses : \A i, j \in DOMAIN allowed[ip] :
        i <= j => j - i + 1 <= Rate + ((allowed[ip][j] - allowed[ip][i]) * Rate) \div Interval

=============================================================================
