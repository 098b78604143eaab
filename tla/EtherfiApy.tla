----------------------------- MODULE EtherfiApy -----------------------------
(***************************************************************************)
(* The APY cache of onEtherfiApy: EtherfiAPY and EtherfiAPYTs are shared   *)
(* by all requests without a lock.  A request that finds the value expired *)
(* first sets the time and only then fetches; the fetch has no timeout.    *)
(*                                                                         *)
(* Times are kept as ages, in ticks of several hours, and capped one tick  *)
(* beyond TTL: the code compares them with TTL only.                       *)
(***************************************************************************)
EXTENDS Integers

CONSTANTS
    Request,    \* requests in flight
    TTL         \* the twelve hours, in ticks

ASSUME TTLAssumption == TTL \in Nat

VARIABLES
    age,        \* now - app.EtherfiAPYTs
    valueAge,   \* how long app.EtherfiAPY has been there; at first it is 0.0
    pc,         \* where request r is: "idle", "claim", "fetch" or "answered"
    claimAge,   \* claimAge[r]: how long ago r found the value expired
    failed      \* history: the fetch that ended last failed

vars == <<age, valueAge, pc, claimAge, failed>>

Init ==
    /\ age = TTL + 1
    /\ valueAge = TTL + 1
    /\ pc = [r \in Request |-> "idle"]
    /\ claimAge = [r \in Request |-> 0]
    /\ failed = FALSE

Goto(r, at) == pc' = [pc EXCEPT ![r] = at]

Older(a) == IF a > TTL THEN a ELSE a + 1

\* A request needs no tick between its check and the assignment that follows.
Tick ==
    /\ \A r \in Request : pc[r] # "claim"
    /\ age' = Older(age)
    /\ valueAge' = Older(valueAge)
    /\ claimAge' = [r \in Request |-> IF pc[r] = "fetch" THEN Older(claimAge[r]) ELSE 0]
    /\ UNCHANGED <<pc, failed>>

Expired == age > TTL

\* A mutation: every answer prolongs the twelve hours.
AnswerCached_Sliding(r) ==
    /\ pc[r] = "idle"
    /\ ~Expired
    /\ Goto(r, "answered")
    /\ age' = 0
    /\ UNCHANGED <<valueAge, claimAge, failed>>

AnswerCached(r) ==
    /\ pc[r] = "idle"
    /\ ~Expired
    /\ Goto(r, "answered")
    /\ UNCHANGED <<age, valueAge, claimAge, failed>>

SeesExpired(r) ==
    /\ pc[r] = "idle"
    /\ Expired
    /\ Goto(r, "claim")
    /\ UNCHANGED <<age, valueAge, claimAge, failed>>

\* A mutation: the time is not set before the fetch.
Claim_NotSet(r) ==
    /\ pc[r] = "claim"
    /\ Goto(r, "fetch")
    /\ UNCHANGED <<age, valueAge, claimAge, failed>>

\* A mutation: what is stored is when the value expires.
Claim_StoresExpiry(r) ==
    /\ pc[r] = "claim"
    /\ Goto(r, "fetch")
    /\ age' = -TTL
    /\ UNCHANGED <<valueAge, claimAge, failed>>

Claim(r) ==
    /\ pc[r] = "claim"
    /\ Goto(r, "fetch")
    /\ age' = 0
    /\ UNCHANGED <<valueAge, claimAge, failed>>

\* No response, another status, malformed data, or an empty list, at which
\* the handler panics.  The time stays set.
FetchFails(r) ==
    /\ pc[r] = "fetch"
    /\ Goto(r, "answered")
    /\ claimAge' = [claimAge EXCEPT ![r] = 0]
    /\ failed' = TRUE
    /\ UNCHANGED <<age, valueAge>>

\* A mutation: the result goes to a local variable of the same name.
FetchSucceeds_Shadowed(r) ==
    /\ pc[r] = "fetch"
    /\ Goto(r, "answered")
    /\ claimAge' = [claimAge EXCEPT ![r] = 0]
    /\ failed' = FALSE
    /\ UNCHANGED <<age, valueAge>>

FetchSucceeds(r) ==
    /\ pc[r] = "fetch"
    /\ Goto(r, "answered")
    /\ claimAge' = [claimAge EXCEPT ![r] = 0]
    /\ valueAge' = 0
    /\ failed' = FALSE
    /\ UNCHANGED age

\* The handler is done; another request may come.
Done(r) ==
    /\ pc[r] = "answered"
    /\ Goto(r, "idle")
    /\ UNCHANGED <<age, valueAge, claimAge, failed>>

Handle(r) ==
    \/ AnswerCached(r) \/ SeesExpired(r) \/ Claim(r)
    \/ FetchFails(r) \/ FetchSucceeds(r) \/ Done(r)

Next == Tick \/ \E r \in Request : Handle(r)

Spec == Init /\ [][Next]_vars

\* A handler gets to its fetch and returns after it.  Any one fetch may hang,
\* but time after time one of them brings a value.
FairSpec ==
    /\ Spec
    /\ \A r \in Request : WF_vars(Claim(r)) /\ WF_vars(Done(r))
    /\ SF_vars(\E r \in Request : FetchSucceeds(r))

-----------------------------------------------------------------------------
(***************************************************************************)
(* Properties                                                              *)
(***************************************************************************)

Ages == 0..(TTL + 1)

\* The types; ages are capped.
TypeOK ==
    /\ age \in Ages
    /\ valueAge \in Ages
    /\ pc \in [Request -> {"idle", "claim", "fetch", "answered"}]
    /\ claimAge \in [Request -> Ages]
    /\ failed \in BOOLEAN

Fetching == \E r \in Request : pc[r] = "fetch"

\* A value older than the twelve hours is answered from the cache only while
\* its replacement is being fetched or after that fetch failed.  The time in
\* EtherfiAPYTs is that of a fetch's start, not of the value: the cache may
\* claim to be fresh when it is not, but never without such a reason.
AnswerFresh == ~Expired => valueAge <= TTL \/ Fetching \/ failed

\* Setting the time first keeps requests from fetching what is being fetched:
\* one that finds the value expired while another fetches waits no longer than
\* TTL for it.  Only requests that check before the other's assignment do.
NoSecondFetch ==
    \A r \in Request : pc[r] = "fetch" /\ claimAge[r] <= TTL => ~Expired

\* As long as requests come and time passes, the value is replaced again and
\* again, although fetches fail, hang and race.
Refreshed ==
    (/\ []<><<Tick>>_vars
     /\ []<><<\E r \in Request : AnswerCached(r) \/ SeesExpired(r)>>_vars)
    => []<><<valueAge' = 0>>_valueAge
=============================================================================
