----------------------------- MODULE TokenBucket -----------------------------
(***************************************************************************)
(* utils.TokenBucket: the rate limiter in front of one RPC client, shared  *)
(* by the goroutines of all requests.  Take runs under the mutex and is    *)
(* one step; WaitForToken repeats it, with a random sleep in between.      *)
(*                                                                         *)
(* Time is counted in ticks.  RateNum tokens accrue in RateDen ticks.      *)
(***************************************************************************)
EXTENDS Integers

CONSTANTS
    Caller,     \* goroutines that call WaitForToken
    Capacity,   \* tokens of a full bucket (5)
    RateNum, RateDen,   \* refillRate = RateNum / RateDen (5 per second)
    MaxElapsed, \* bound on the age of the last refill, long enough to fill the bucket
    MaxWindow   \* bound on the length of the observed window

ASSUME RateAssumption ==
    /\ Capacity \in Nat \ {0}
    /\ RateNum \in Nat \ {0}
    /\ RateDen \in Nat \ {0}
ASSUME BoundsAssumption ==
    /\ MaxElapsed \in Nat
    /\ MaxWindow \in Nat
    /\ MaxElapsed * RateNum >= Capacity * RateDen

VARIABLES
    tokens,
    elapsed,    \* now - lastRefill
    waiting,    \* the callers in WaitForToken
    wElapsed,   \* history: ticks since the observed window was opened
    wTaken      \* history: tokens taken in it

vars == <<tokens, elapsed, waiting, wElapsed, wTaken>>

Init ==
    /\ tokens = Capacity
    /\ elapsed = 0
    /\ waiting = {}
    /\ wElapsed = 0
    /\ wTaken = 0

-----------------------------------------------------------------------------

\* Beyond MaxElapsed the next refill fills the bucket anyway.
Tick ==
    /\ wElapsed < MaxWindow
    /\ elapsed' = IF elapsed < MaxElapsed THEN elapsed + 1 ELSE elapsed
    /\ wElapsed' = wElapsed + 1
    /\ UNCHANGED <<tokens, waiting, wTaken>>

\* A window may be opened at any time.
OpenWindow ==
    /\ wElapsed' = 0
    /\ wTaken' = 0
    /\ UNCHANGED <<tokens, elapsed, waiting>>

\* refill() truncates the new tokens to an integer, and moves lastRefill only
\* when there is at least one.
TokensToAdd == (elapsed * RateNum) \div RateDen

\* A mutation: the capacity is not enforced.
Refilled_NoCapacity == tokens + TokensToAdd

Refilled == IF tokens + TokensToAdd < Capacity THEN tokens + TokensToAdd ELSE Capacity

\* A mutation: lastRefill moves at every call.
ElapsedAfterRefill_Always == 0

ElapsedAfterRefill == IF TokensToAdd > 0 THEN 0 ELSE elapsed

WaitForToken(c) ==
    /\ c \notin waiting
    /\ waiting' = waiting \cup {c}
    /\ UNCHANGED <<tokens, elapsed, wElapsed, wTaken>>

TakeSucceeds(c) ==
    /\ c \in waiting
    /\ Refilled > 0
    /\ tokens' = Refilled - 1
    /\ elapsed' = ElapsedAfterRefill
    /\ waiting' = waiting \ {c}
    /\ wTaken' = wTaken + 1
    /\ UNCHANGED wElapsed

TakeFails(c) ==
    /\ c \in waiting
    /\ Refilled = 0
    /\ tokens' = Refilled
    /\ elapsed' = ElapsedAfterRefill
    /\ UNCHANGED <<waiting, wElapsed, wTaken>>

Take(c) == TakeSucceeds(c) \/ TakeFails(c)

Next ==
    \/ Tick
    \/ OpenWindow
    \/ \E c \in Caller : WaitForToken(c) \/ Take(c)

Spec == Init /\ [][Next]_vars

\* Time passes: it is only the observed window that is bounded.  A waiting
\* caller wakes up and tries again.
FairSpec ==
    /\ Spec
    /\ WF_vars(Tick)
    /\ WF_vars(OpenWindow /\ wElapsed = MaxWindow)
    /\ \A c \in Caller : WF_vars(Take(c))

-----------------------------------------------------------------------------
(***************************************************************************)
(* Properties                                                              *)
(***************************************************************************)

\* The types; the bucket never holds more than its capacity.
TypeOK ==
    /\ tokens \in 0..Capacity
    /\ elapsed \in 0..MaxElapsed
    /\ waiting \subseteq Caller
    /\ wElapsed \in 0..MaxWindow
    /\ wTaken \in Nat

\* In any window, however the callers interleave with the refills, fewer than
\* Capacity + 1 + wElapsed * refillRate requests are let through: a full
\* bucket and what accrues, the fraction of a token kept from before included.
WindowBound == wTaken * RateDen < (Capacity + 1) * RateDen + wElapsed * RateNum

\* The same with what is still in the bucket and what has accrued since the
\* last refill, once a token was taken: the inductive form of WindowBound.
WindowBudget ==
    wTaken > 0 =>
        (tokens + wTaken) * RateDen + elapsed * RateNum
            < (Capacity + 1) * RateDen + wElapsed * RateNum

\* While callers wait, some of them get a token: failed tries, however often
\* they are made, do not put the refill off.  (Which caller it is, is left to
\* the random sleeps: one caller may lose every race.)
SomeoneServed ==
    (\E c \in Caller : []<>(c \in waiting)) =>
        []<><<\E c \in Caller : TakeSucceeds(c)>>_vars
=============================================================================
