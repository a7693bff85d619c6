---------------------------- MODULE UpstreamCalls ----------------------------
(***************************************************************************)
(* The requests of one server process on their way to the upstream models  *)
(* (stream_llm_with_risk of chimera/streaming_runtime.py) and the circuit  *)
(* breaker they share (HalfOpenCircuitBreaker, chimera/drift_runtime.py).  *)
(* A request takes a slot of REQUEST_SEM, asks the breaker, reserves its   *)
(* quota and tries the providers in turn.  What it streams is the subject  *)
(* of StreamProxy.                                                         *)
(***************************************************************************)
EXTENDS Naturals, FiniteSets

CONSTANTS
    Requests,     \* requests that may be open together
    Slots,        \* APEX_MAX_CONCURRENT
    Providers,    \* how many providers the pool holds
    Threshold,    \* failure_threshold, 5 in the code
    HalfOpenMax,  \* half_open_max_calls, 3 in the code
    MaxFailures   \* bound of the model: failures of upstream

ASSUME UpstreamAssumption ==
    /\ {Slots, Providers, Threshold, HalfOpenMax} \subseteq Nat \ {0}
    /\ MaxFailures \in Nat

VARIABLES
    breaker,   \* LLM_CIRCUIT: [state, failures, ready, attempts]
    at,        \* where each request is
    provider,  \* the provider it is trying
    failed     \* failures of upstream so far

vars == <<breaker, at, provider, failed>>

(* ready: reset_timeout has passed since _opened_at. *)
Closed == [state |-> "closed", failures |-> 0, ready |-> FALSE, attempts |-> 0]

Opened(b) == [b EXCEPT !.state = "open", !.ready = FALSE]

(* Failures are counted up to the threshold, which is all they are         *)
(* compared with.                                                          *)
Counted(n) == IF n < Threshold THEN n ELSE Threshold

(* before_call lets the request pass.                                      *)
Admits(b) == \/ b.state = "closed"
             \/ b.state = "open" /\ b.ready
             \/ b.state = "half_open" /\ b.attempts < HalfOpenMax

(* Mutant of BeforeCall: one probe too many is turned away, no more. *)
BeforeCallStuck(b) ==
    IF b.state = "open" /\ b.ready
    THEN [b EXCEPT !.state = "half_open", !.ready = FALSE, !.attempts = 1]
    ELSE IF b.state = "half_open" /\ Admits(b) THEN [b EXCEPT !.attempts = @ + 1] ELSE b

(* The breaker after before_call.  An open breaker whose timeout has       *)
(* passed becomes half open, and the request is its first probe; one probe *)
(* too many opens it again.                                                *)
BeforeCall(b) ==
    IF b.state = "open" /\ b.ready
    THEN [b EXCEPT !.state = "half_open", !.ready = FALSE, !.attempts = 1]
    ELSE IF b.state # "half_open" THEN b
    ELSE IF Admits(b) THEN [b EXCEPT !.attempts = @ + 1]
    ELSE [Opened(b) EXCEPT !.attempts = HalfOpenMax + 1]

(* Mutant of Success: the failures are not forgotten. *)
SuccessKeepsCount(b) == [b EXCEPT !.state = "closed", !.ready = FALSE, !.attempts = 0]

(* after_call_success, whatever the state. *)
Success(b) == Closed

(* Mutant of Failure: a failed probe leaves the breaker half open. *)
FailureStaysHalfOpen(b) ==
    LET n == Counted(b.failures + 1) IN
    IF n >= Threshold /\ b.state # "half_open" THEN [Opened(b) EXCEPT !.failures = n]
                                               ELSE [b EXCEPT !.failures = n]

(* after_call_failure; when the breaker is open already its timeout starts *)
(* again.                                                                  *)
Failure(b) ==
    LET n == Counted(b.failures + 1) IN
    IF b.state = "half_open" \/ n >= Threshold THEN [Opened(b) EXCEPT !.failures = n]
                                               ELSE [b EXCEPT !.failures = n]

Init ==
    /\ breaker = Closed
    /\ at = [q \in Requests |-> "new"]
    /\ provider = [q \in Requests |-> 0]
    /\ failed = 0

Places == {"new", "quota", "connect", "refused", "rejected", "stream", "hung"}

Go(q, place) == at' = [at EXCEPT ![q] = place]

Inside == {q \in Requests : at[q] \in Places \ {"new"}}

(* Mutant of Leave: the slot is not released. *)
LeaveLeaks(q) == Go(q, at[q]) /\ UNCHANGED provider

(* Leaving the semaphore; the slot serves a new request.                   *)
Leave(q) == Go(q, "new") /\ provider' = [provider EXCEPT ![q] = 0]

(* A slot of the semaphore, then before_call, which raises 503 when it     *)
(* does not admit the request.                                             *)
Enter(q) ==
    /\ at[q] = "new"
    /\ Cardinality(Inside) < Slots
    /\ breaker' = BeforeCall(breaker)
    /\ IF Admits(breaker) THEN Go(q, "quota") ELSE UNCHANGED at
    /\ UNCHANGED <<provider, failed>>

(* reserve_usage_or_raise: 429 when the tenant is over a limit.  The probe *)
(* a half-open breaker has granted is used up.                             *)
QuotaRefused(q) ==
    /\ at[q] = "quota"
    /\ Leave(q)
    /\ UNCHANGED <<breaker, failed>>

QuotaReserved(q) ==
    /\ at[q] = "quota"
    /\ Go(q, "connect")
    /\ provider' = [provider EXCEPT ![q] = 1]
    /\ UNCHANGED <<breaker, failed>>

(* Sovereign egress (403) or a missing key (400) ends the request; nothing *)
(* in the loop raises an HTTPException that would go on to the next        *)
(* provider.                                                               *)
EgressRefused(q) ==
    /\ at[q] = "connect"
    /\ Leave(q)
    /\ UNCHANGED <<breaker, failed>>

UpstreamFails == failed < MaxFailures /\ failed' = failed + 1

(* No provider is left. *)
Exhausted(q) == provider[q] = Providers

(* On to the next provider with breaker b; when none is left the request   *)
(* fails, which is one failure more.                                       *)
Advance(q, b) ==
    IF Exhausted(q)
    THEN breaker' = Failure(b) /\ Leave(q)
    ELSE /\ breaker' = b
         /\ Go(q, "connect")
         /\ provider' = [provider EXCEPT ![q] = @ + 1]

(* 429, 500, 502, 503 or 504: a failure; the body is awaited before the    *)
(* loop goes on.                                                           *)
RetryableStatus(q) ==
    /\ at[q] = "connect"
    /\ UpstreamFails
    /\ breaker' = Failure(breaker)
    /\ Go(q, "refused")
    /\ UNCHANGED provider

NextProvider(q) ==
    /\ at[q] = "refused"
    /\ Advance(q, breaker)
    /\ UNCHANGED failed

(* Any other status but 200: a failure, and the request ends once the body *)
(* has been read.                                                          *)
FinalStatus(q) ==
    /\ at[q] = "connect"
    /\ UpstreamFails
    /\ breaker' = Failure(breaker)
    /\ Go(q, "rejected")
    /\ UNCHANGED provider

(* httpx.RequestError, on connecting, in the middle of the stream or of    *)
(* the body of an error, which then counts as a second failure.            *)
RequestError(q) ==
    /\ at[q] \in {"connect", "refused", "rejected", "stream"}
    /\ UpstreamFails
    /\ Advance(q, Failure(breaker))

(* Status 200: a success before anything has been read.                    *)
Headers(q) ==
    /\ at[q] = "connect"
    /\ breaker' = Success(breaker)
    /\ Go(q, "stream")
    /\ UNCHANGED <<provider, failed>>

(* The stream ends, is blocked by a decision, or an evaluation raises; or  *)
(* the body of the final error has been read.                              *)
StreamEnds(q) ==
    /\ at[q] \in {"stream", "rejected"}
    /\ Leave(q)
    /\ UNCHANGED <<breaker, failed>>

(* Upstream says nothing any more; the client has timeout=None.            *)
Hang(q) ==
    /\ at[q] \in {"connect", "refused", "rejected", "stream"}
    /\ Go(q, "hung")
    /\ UNCHANGED <<breaker, provider, failed>>

(* The client disconnects: CancelledError, and the slot is released.       *)
Cancel(q) ==
    /\ q \in Inside
    /\ Leave(q)
    /\ UNCHANGED <<breaker, failed>>

(* reset_timeout passes.                                                   *)
Tick ==
    /\ breaker.state = "open" /\ ~breaker.ready
    /\ breaker' = [breaker EXCEPT !.ready = TRUE]
    /\ UNCHANGED <<at, provider, failed>>

Step(q) ==
    \/ Enter(q) \/ QuotaRefused(q) \/ QuotaReserved(q) \/ EgressRefused(q)
    \/ RetryableStatus(q) \/ NextProvider(q) \/ FinalStatus(q) \/ RequestError(q)
    \/ Headers(q) \/ StreamEnds(q) \/ Hang(q) \/ Cancel(q)

Next == Tick \/ \E q \in Requests : Step(q)

Spec == Init /\ [][Next]_vars

(* Clients keep coming and the semaphore is first come, first served; the  *)
(* clock runs; upstream answers what it has not left hanging; and not      *)
(* every request for ever is over its quota, refused by the egress policy  *)
(* or cancelled.                                                           *)
Fairness ==
    /\ WF_vars(Tick)
    /\ \A q \in Requests :
         /\ SF_vars(Enter(q)) /\ SF_vars(QuotaReserved(q)) /\ SF_vars(Headers(q))
         /\ WF_vars(NextProvider(q)) /\ WF_vars(StreamEnds(q))

FairSpec == Spec /\ Fairness

-----------------------------------------------------------------------------
(* The shapes of the state: a request tries a provider once its quota is   *)
(* reserved.                                                               *)
TypeOK ==
    /\ breaker \in [state : {"closed", "open", "half_open"}, failures : 0 .. Threshold,
                    ready : BOOLEAN, attempts : 0 .. HalfOpenMax + 1]
    /\ at \in [Requests -> Places]
    /\ provider \in [Requests -> 0 .. Providers]
    /\ \A q \in Requests : provider[q] = 0 <=> at[q] \in {"new", "quota"}
    /\ failed \in 0 .. MaxFailures

(* The breaker has left the closed state exactly when the threshold of     *)
(* failures was reached, and it stays so through every probe: what resets  *)
(* the count is what closes it.  Only an open breaker waits for a timeout. *)
BreakerCoherent ==
    /\ breaker.state # "closed" <=> breaker.failures = Threshold
    /\ breaker.ready => breaker.state = "open"
    /\ breaker.state = "half_open" => breaker.attempts \in 1 .. HalfOpenMax

(* A request passes an open breaker only after the timeout, and a half     *)
(* open one only as one of its probes; a failed probe opens the breaker at *)
(* once, and only a request that has the headers of a 200 closes it.       *)
ProbeDecides ==
    [][/\ \A q \in Requests : at[q] = "new" /\ at'[q] # "new" =>
            /\ breaker.state = "open" => breaker.ready
            /\ breaker'.state = "half_open" => breaker'.attempts <= HalfOpenMax
       /\ breaker.state = "half_open" /\ failed' # failed => breaker'.state = "open"
       /\ breaker.state # "closed" /\ breaker'.state = "closed" =>
            \E q \in Requests : at[q] = "connect" /\ at'[q] = "stream"]_vars

Hung == {q \in Requests : at[q] = "hung"}

(* Every slot of the semaphore is given back however a request ends: a     *)
(* request inside leaves, unless upstream stops answering for good.        *)
SlotsReturn == \A q \in Requests : q \in Inside ~> q \notin Inside \/ q \in Hung

(* Once upstream is healthy the breaker closes, whatever happened before   *)
(* and although requests over their quota use up probes; only unanswered   *)
(* requests that hold every slot keep it from closing.                     *)
Recovers == <>[](breaker.state = "closed" \/ Cardinality(Hung) = Slots)
=============================================================================
