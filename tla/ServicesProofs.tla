-------------------------- MODULE ServicesProofs --------------------------
(***************************************************************************)
(* Theorems about six parts that share nothing: the circuit breaker of the *)
(* upstream calls, the correlation of incidents, the threat feeds, the     *)
(* usage quotas, the copy of the ledger on S3 and the proofs of inclusion, *)
(* for any values of the constants.                                        *)
(***************************************************************************)
EXTENDS UpstreamCalls, Incidents, ThreatFeeds, UsageQuotas, LedgerShipping, InclusionProofs,
        FiniteSetTheorems, WellFoundedInduction, TLAPS

-----------------------------------------------------------------------------
(* The circuit breaker.                                                    *)

Breakers == [state : {"closed", "open", "half_open"}, failures : 0 .. Threshold,
             ready : BOOLEAN, attempts : 0 .. HalfOpenMax + 1]

(* BreakerCoherent, of any breaker.                                        *)
Coherent(b) ==
    /\ b \in Breakers
    /\ b.state # "closed" <=> b.failures = Threshold
    /\ b.ready => b.state = "open"
    /\ b.state = "half_open" => b.attempts \in 1 .. HalfOpenMax

(* A breaker that closed forgot its failures.                              *)
LEMMA ClosedFacts ==
    ASSUME UpstreamAssumption PROVE Coherent(Closed) /\ Closed.state = "closed"
BY DEF UpstreamAssumption, Coherent, Breakers, Closed

(* before_call keeps a breaker coherent, does not close it, and counts the *)
(* probes it lets pass.                                                    *)
LEMMA BeforeCallFacts ==
    ASSUME UpstreamAssumption, NEW b, Coherent(b)
    PROVE  /\ Coherent(BeforeCall(b))
           /\ b.state # "closed" => BeforeCall(b).state # "closed"
           /\ Admits(b) => /\ b.state = "open" => b.ready
                           /\ BeforeCall(b).state = "half_open" => BeforeCall(b).attempts <= HalfOpenMax
<1> USE DEF UpstreamAssumption, Coherent, Breakers, Admits
<1>1. CASE b.state = "open" /\ b.ready
  <2> DEFINE o == [b EXCEPT !.state = "half_open", !.ready = FALSE]
  <2>1. BeforeCall(b) = [o EXCEPT !.attempts = 1]
    BY <1>1 DEF BeforeCall
  <2>2. o \in Breakers /\ o.state = "half_open" /\ o.ready = FALSE /\ o.failures = b.failures
    OBVIOUS
  <2> HIDE DEF o
  <2> QED
    BY <1>1, <2>1, <2>2
<1>2. CASE ~(b.state = "open" /\ b.ready) /\ b.state # "half_open"
  <2>1. BeforeCall(b) = b
    BY <1>2 DEF BeforeCall
  <2> QED
    BY <1>2, <2>1
<1>3. CASE b.state = "half_open" /\ b.attempts < HalfOpenMax
  <2>1. BeforeCall(b) = [b EXCEPT !.attempts = b.attempts + 1]
    BY <1>3 DEF BeforeCall
  <2> QED
    BY <1>3, <2>1
<1>4. CASE b.state = "half_open" /\ ~(b.attempts < HalfOpenMax)
  <2> DEFINE o == [b EXCEPT !.state = "open", !.ready = FALSE]
  <2>1. BeforeCall(b) = [o EXCEPT !.attempts = HalfOpenMax + 1]
    BY <1>4 DEF BeforeCall, Opened
  <2>2. o \in Breakers /\ o.state = "open" /\ o.ready = FALSE /\ o.failures = b.failures
    BY <1>4
  <2> HIDE DEF o
  <2> QED
    BY <1>4, <2>1, <2>2
<1> QED
  BY <1>1, <1>2, <1>3, <1>4

(* after_call_failure keeps a breaker coherent, never closes it, and opens *)
(* one that was not closed.                                                *)
LEMMA FailureFacts ==
    ASSUME UpstreamAssumption, NEW b, Coherent(b)
    PROVE  Coherent(Failure(b)) /\ (b.state # "closed" => Failure(b).state = "open")
<1> DEFINE n == Counted(b.failures + 1)
           o == [b EXCEPT !.state = "open", !.ready = FALSE]
<1>1. n \in 0 .. Threshold /\ (b.failures = Threshold => n = Threshold)
  BY DEF UpstreamAssumption, Coherent, Breakers, Counted
<1>2. o \in Breakers /\ o.state = "open" /\ o.ready = FALSE
  BY DEF Coherent, Breakers
<1>3. Failure(b) = IF b.state = "half_open" \/ n >= Threshold
                     THEN [o EXCEPT !.failures = n] ELSE [b EXCEPT !.failures = n]
  BY DEF Failure, Opened
<1> HIDE DEF n, o
<1>4. CASE b.state = "half_open" \/ n >= Threshold
  <2>1. n = Threshold
    BY <1>1, <1>4 DEF Coherent, Breakers, UpstreamAssumption
  <2> QED
    BY <1>1, <1>2, <1>3, <1>4, <2>1 DEF Coherent, Breakers
<1>5. CASE ~(b.state = "half_open" \/ n >= Threshold)
  BY <1>1, <1>3, <1>5 DEF Coherent, Breakers, UpstreamAssumption
<1> QED
  BY <1>4, <1>5

(* What every step does: it keeps the breaker coherent, lets a request in  *)
(* as the breaker says, and closes it on headers only.                     *)
UpstreamInv == TypeOK /\ Coherent(breaker)

Decided ==
    /\ \A q \in Requests : at[q] = "new" /\ at'[q] # "new" =>
         /\ breaker.state = "open" => breaker.ready
         /\ breaker'.state = "half_open" => breaker'.attempts <= HalfOpenMax
    /\ breaker.state = "half_open" /\ failed' # failed => breaker'.state = "open"
    /\ breaker.state # "closed" /\ breaker'.state = "closed" =>
         \E q \in Requests : at[q] = "connect" /\ at'[q] = "stream"

(* A request moves on with its provider, the others stay.                  *)
LEMMA RequestMoves ==
    ASSUME UpstreamAssumption, TypeOK, NEW q \in Requests, NEW place \in Places, NEW n \in 0 .. Providers,
           at' = [at EXCEPT ![q] = place], provider' = [provider EXCEPT ![q] = n],
           n = 0 <=> place \in {"new", "quota"}, failed' \in 0 .. MaxFailures, Coherent(breaker')
    PROVE  /\ UpstreamInv' /\ at'[q] = place
           /\ \A o \in Requests : o # q => at'[o] = at[o]
<1>1. breaker' \in Breakers
  BY DEF Coherent
<1>2. /\ at' \in [Requests -> Places] /\ at'[q] = place
      /\ \A o \in Requests : o # q => at'[o] = at[o]
  BY DEF TypeOK
<1>3. /\ provider' \in [Requests -> 0 .. Providers] /\ provider'[q] = n
      /\ \A o \in Requests : o # q => provider'[o] = provider[o]
  BY DEF TypeOK
<1>4. \A o \in Requests : provider'[o] = 0 <=> at'[o] \in {"new", "quota"}
  BY <1>2, <1>3 DEF TypeOK
<1>5. TypeOK'
  BY <1>1, <1>2, <1>3, <1>4 DEF TypeOK, Breakers
<1> QED
  BY <1>2, <1>5 DEF UpstreamInv

(* A step of one request.                                                  *)
LEMMA UpstreamStep ==
    ASSUME UpstreamAssumption, UpstreamInv, NEW q \in Requests, Step(q)
    PROVE  UpstreamInv' /\ Decided
<1> DEFINE Moved(place, n) == at' = [at EXCEPT ![q] = place] /\ provider' = [provider EXCEPT ![q] = n]
<1>0. /\ TypeOK /\ Coherent(breaker) /\ at[q] \in Places /\ provider[q] \in 0 .. Providers
      /\ provider[q] = 0 <=> at[q] \in {"new", "quota"}
      /\ failed \in Nat /\ failed \in 0 .. MaxFailures
      /\ at = [at EXCEPT ![q] = at[q]] /\ provider = [provider EXCEPT ![q] = provider[q]]
  BY DEF UpstreamInv, TypeOK, UpstreamAssumption
<1>1. Providers \in Nat \ {0} /\ MaxFailures \in Nat
  BY DEF UpstreamAssumption
<1>2. /\ Coherent(Failure(breaker)) /\ Coherent(Failure(Failure(breaker)))
      /\ Coherent(BeforeCall(breaker)) /\ Coherent(Closed)
      /\ breaker.state # "closed" => /\ Failure(breaker).state = "open"
                                     /\ Failure(Failure(breaker)).state = "open"
                                     /\ BeforeCall(breaker).state # "closed"
      /\ Admits(breaker) => /\ breaker.state = "open" => breaker.ready
                            /\ BeforeCall(breaker).state = "half_open" =>
                                 BeforeCall(breaker).attempts <= HalfOpenMax
  BY <1>0, FailureFacts, BeforeCallFacts, ClosedFacts
<1>3. UpstreamFails => failed' = failed + 1 /\ failed' \in 0 .. MaxFailures
  BY <1>0, <1>1 DEF UpstreamFails
(* A step is one of four, by what it does to the breaker. *)
<1> DEFINE Asks(place)    == /\ breaker' = BeforeCall(breaker) /\ failed' = failed
                             /\ at[q] = "new" /\ (place # "new" => Admits(breaker))
           Quiet          == breaker' = breaker /\ failed' = failed /\ at[q] # "new"
           Fails          == /\ breaker' = Failure(breaker) \/ breaker' = Failure(Failure(breaker))
                             /\ at[q] # "new" /\ failed' \in 0 .. MaxFailures
           Answers(place) == /\ breaker' = Closed /\ failed' = failed
                             /\ at[q] = "connect" /\ place = "stream"
           Does(place, n) == /\ Moved(place, n) /\ (n = 0 <=> place \in {"new", "quota"})
                             /\ Asks(place) \/ Quiet \/ Fails \/ Answers(place)
<1>4. \E place \in Places, n \in 0 .. Providers : Does(place, n)
  <2> USE DEF Places
  <2>1. CASE Enter(q)
    <3>1. CASE Admits(breaker)
      <4>1. Does("quota", 0)
        BY <1>0, <2>1, <3>1 DEF Enter, Go
      <4> HIDE DEF Does
      <4> QED
        BY <1>1, <4>1
    <3>2. CASE ~Admits(breaker)
      <4>1. Does("new", 0)
        BY <1>0, <2>1, <3>2 DEF Enter, Go
      <4> HIDE DEF Does
      <4> QED
        BY <1>1, <4>1
    <3> QED
      BY <3>1, <3>2
  <2>2. CASE QuotaRefused(q) \/ EgressRefused(q) \/ StreamEnds(q) \/ Cancel(q)
    <3>1. Does("new", 0)
      BY <2>2 DEF QuotaRefused, EgressRefused, StreamEnds, Cancel, Leave, Go, Inside, Places
    <3> HIDE DEF Does
    <3> QED
      BY <1>1, <3>1
  <2>3. CASE QuotaReserved(q)
    <3>1. Does("connect", 1)
      BY <2>3 DEF QuotaReserved, Go
    <3> HIDE DEF Does
    <3> QED
      BY <1>1, <3>1
  <2>4. CASE RetryableStatus(q)
    <3>1. Does("refused", provider[q])
      BY <1>0, <1>3, <2>4 DEF RetryableStatus, Go
    <3> HIDE DEF Does
    <3> QED
      BY <1>0, <3>1
  <2>5. CASE FinalStatus(q)
    <3>1. Does("rejected", provider[q])
      BY <1>0, <1>3, <2>5 DEF FinalStatus, Go
    <3> HIDE DEF Does
    <3> QED
      BY <1>0, <3>1
  <2>6. ASSUME NEW b, Advance(q, b), at[q] \notin {"new", "quota"}
        PROVE  \/ Moved("new", 0) /\ breaker' = Failure(b)
               \/ \E n \in 1 .. Providers : Moved("connect", n) /\ breaker' = b
    <3>1. CASE Exhausted(q)
      BY <2>6, <3>1 DEF Advance, Leave, Go
    <3>2. CASE ~Exhausted(q)
      <4>1. provider[q] + 1 \in 1 .. Providers
        BY <1>0, <1>1, <2>6, <3>2 DEF Exhausted
      <4>2. Moved("connect", provider[q] + 1) /\ breaker' = b
        BY <2>6, <3>2 DEF Advance, Go
      <4> QED
        BY <4>1, <4>2
    <3> QED
      BY <3>1, <3>2
  <2>7. ASSUME NextProvider(q) \/ RequestError(q)
        PROVE  \E place \in Places, n \in 0 .. Providers : Does(place, n)
    <3>1. PICK b : /\ Advance(q, b) /\ at[q] \notin {"new", "quota"}
                   /\ \/ b = breaker /\ failed' = failed
                      \/ b = Failure(breaker) /\ failed' \in 0 .. MaxFailures
      BY <1>3, <2>7 DEF NextProvider, RequestError
    <3>2. failed' \in 0 .. MaxFailures
      BY <1>0, <3>1
    <3>3. CASE Moved("new", 0) /\ breaker' = Failure(b)
      <4>1. Does("new", 0)
        BY <3>1, <3>2, <3>3
      <4> HIDE DEF Does
      <4> QED
        BY <1>1, <4>1
    <3>4. CASE \E n \in 1 .. Providers : Moved("connect", n) /\ breaker' = b
      <4>1. PICK n \in 1 .. Providers : Moved("connect", n) /\ breaker' = b
        BY <3>4
      <4>2. Does("connect", n) /\ n \in 0 .. Providers
        BY <3>1, <3>2, <4>1
      <4> HIDE DEF Does
      <4> QED
        BY <4>2
    <3> QED
      BY <2>6, <3>1, <3>3, <3>4
  <2>8. CASE Headers(q)
    <3>1. Does("stream", provider[q])
      BY <1>0, <2>8 DEF Headers, Success, Go
    <3> HIDE DEF Does
    <3> QED
      BY <1>0, <3>1
  <2>9. CASE Hang(q)
    <3>1. Does("hung", provider[q])
      BY <1>0, <2>9 DEF Hang, Go
    <3> HIDE DEF Does
    <3> QED
      BY <1>0, <3>1
  <2> QED
    BY <2>1, <2>2, <2>3, <2>4, <2>5, <2>7, <2>8, <2>9 DEF Step
<1>5. PICK place \in Places, n \in 0 .. Providers : Does(place, n)
  BY <1>4
<1>6. Coherent(breaker') /\ failed' \in 0 .. MaxFailures
  <2>1. CASE Asks(place)
    BY <1>0, <1>2, <2>1
  <2>2. CASE Quiet
    BY <1>0, <2>2
  <2>3. CASE Fails
    BY <1>2, <2>3
  <2>4. CASE Answers(place)
    BY <1>0, <1>2, <2>4
  <2> QED
    BY <1>5, <2>1, <2>2, <2>3, <2>4
<1>7. /\ UpstreamInv' /\ at'[q] = place
      /\ \A o \in Requests : o # q => at'[o] = at[o]
  BY <1>0, <1>5, <1>6, RequestMoves
<1>8. Decided
  <2>1. \A o \in Requests : at[o] = "new" /\ at'[o] # "new" => o = q
    BY <1>7
  <2>2. Closed.state = "closed"
    BY DEF Closed
  <2>3. CASE Asks(place)
    BY <1>2, <1>7, <2>1, <2>3 DEF Decided
  <2>4. CASE Quiet
    BY <1>7, <2>1, <2>4 DEF Decided
  <2>5. CASE Fails
    BY <1>2, <1>7, <2>1, <2>5 DEF Decided
  <2>6. CASE Answers(place)
    BY <1>7, <2>1, <2>2, <2>6 DEF Decided
  <2> QED
    BY <1>5, <2>3, <2>4, <2>5, <2>6
<1> QED
  BY <1>7, <1>8

(* The timeout of an open breaker passes.                                  *)
LEMMA UpstreamTick ==
    ASSUME UpstreamAssumption, UpstreamInv, Tick PROVE UpstreamInv' /\ Decided
<1>1. Coherent(breaker') /\ breaker'.state = "open"
  BY DEF Tick, UpstreamInv, Coherent, Breakers
<1>2. TypeOK'
  BY <1>1 DEF Tick, UpstreamInv, TypeOK, Coherent, Breakers
<1> QED
  BY <1>1, <1>2 DEF Tick, UpstreamInv, Decided

(* The breaker stays coherent, and each step is decided as it should be.   *)
LEMMA UpstreamInductive ==
    /\ Init => UpstreamInv
    /\ UpstreamInv /\ [Next]_vars => UpstreamInv' /\ (Decided \/ UNCHANGED vars)
<1>1. UpstreamAssumption
  BY UpstreamAssumption
<1>2. Init => UpstreamInv
  BY <1>1, ClosedFacts DEF Init, UpstreamInv, TypeOK, Breakers, Coherent, Places, UpstreamAssumption
<1>3. ASSUME UpstreamInv, Next PROVE UpstreamInv' /\ Decided
  BY <1>1, <1>3, UpstreamStep, UpstreamTick DEF Next
<1>4. ASSUME UpstreamInv, UNCHANGED vars PROVE UpstreamInv'
  BY <1>4 DEF vars, UpstreamInv, TypeOK, Coherent
<1> QED
  BY <1>2, <1>3, <1>4

(* HalfOpenCircuitBreaker of drift_runtime.py: it is away from the closed  *)
(* state exactly when the threshold of failures was reached, only waits    *)
(* when it is open and admits its few probes, whatever requests of         *)
(* streaming_runtime.py interleave, fail, hang or are cancelled.           *)
THEOREM BreakerStays == Spec => []BreakerCoherent
<1>1. UpstreamInv => BreakerCoherent
  BY DEF UpstreamInv, Coherent, BreakerCoherent
<1> QED
  BY <1>1, UpstreamInductive, PTL DEF Spec

(* No request passes an open breaker before its timeout or a half-open one *)
(* beyond its probes, a failure reopens a half-open breaker, and only a    *)
(* request whose headers arrived closes one.                               *)
THEOREM OnlyProbesDecide == Spec => ProbeDecides
<1>1. UpstreamInv /\ [Next]_vars => UpstreamInv'
  BY UpstreamInductive
<1>2. UpstreamInv /\ [Next]_vars =>
        [/\ \A q \in Requests : at[q] = "new" /\ at'[q] # "new" =>
             /\ breaker.state = "open" => breaker.ready
             /\ breaker'.state = "half_open" => breaker'.attempts <= HalfOpenMax
         /\ breaker.state = "half_open" /\ failed' # failed => breaker'.state = "open"
         /\ breaker.state # "closed" /\ breaker'.state = "closed" =>
              \E q \in Requests : at[q] = "connect" /\ at'[q] = "stream"]_vars
  BY UpstreamInductive DEF Decided
<1> QED
  BY <1>1, <1>2, UpstreamInductive, PTL DEF Spec, ProbeDecides

-----------------------------------------------------------------------------
(* The incidents.                                                          *)

(* One alert moves to the state r.                                         *)
AlertMoves(a, r) == alert' = [alert EXCEPT ![a] = r]

(* The other alerts stay as they are.                                      *)
LEMMA AlertMovesFacts ==
    ASSUME IncTypeOK, NEW a \in Alerts, NEW r \in AlertStates, AlertMoves(a, r)
    PROVE  /\ alert' \in [Alerts -> AlertStates] /\ alert'[a] = r
           /\ \A b \in Alerts : b # a => alert'[b] = alert[b]
BY DEF IncTypeOK, AlertMoves

(* Counting another alert as saved counts one more.                        *)
LEMMA SavedFacts ==
    ASSUME IncidentsAssumption, NEW i \in Alerts
    PROVE  IsFiniteSet(Saved(i)) /\ Cardinality(Saved(i)) \in Nat
<1>1. IsFiniteSet(Alerts)
  BY FS_Interval DEF Alerts, IncidentsAssumption
<1>2. IsFiniteSet(Saved(i))
  BY <1>1, FS_Subset DEF Saved
<1> QED
  BY <1>2, FS_CardinalityType

(* An alert that neither saved its count nor is about to does not touch    *)
(* the tally.                                                              *)
LEMMA TallyUntouched ==
    ASSUME IncTypeOK, Tallied, NEW a \in Alerts, NEW r \in AlertStates, AlertMoves(a, r),
           alert[a].at \notin {"save", "saved"}, r.at \notin {"save", "saved"},
           UNCHANGED <<record, raced>>
    PROVE  Tallied'
<1>1. /\ alert' \in [Alerts -> AlertStates] /\ alert'[a] = r
      /\ \A b \in Alerts : b # a => alert'[b] = alert[b]
  BY AlertMovesFacts
<1>2. \A i \in Alerts : Saved(i)' = Saved(i)
  BY <1>1 DEF Saved
<1>3. \A i \in Alerts : Saving(i)' = Saving(i) /\ \A b \in Saving(i) : alert'[b] = alert[b]
  BY <1>1 DEF Saving
<1> SUFFICES ASSUME NEW i \in Alerts
             PROVE  /\ record[i] <= Cardinality(Saved(i)')
                    /\ \A b \in Saving(i)' : alert'[b].count <= Cardinality(Saved(i)') + 1
                    /\ i \notin raced =>
                         /\ record[i] = Cardinality(Saved(i)')
                         /\ \A b, c \in Saving(i)' : b = c /\ alert'[b].count = record[i] + 1
  BY DEF Tallied
<1> QED
  BY <1>2, <1>3 DEF Tallied

(* Before it counts itself an alert looks for the open incident, opens one *)
(* or takes its own identifier.                                            *)
LEMMA AlertFindsIncident ==
    ASSUME IncidentsAssumption, IncInv, NEW a \in Alerts,
           Raise(a) \/ Look(a) \/ LookFails(a) \/ Claim(a) \/ ClaimRaises(a) \/ Adopt(a) \/ AdoptFails(a)
    PROVE  IncInv'
<1>1. /\ IncTypeOK /\ OneIncident /\ Tallied /\ OpenedByItself
      /\ alert \in [Alerts -> AlertStates] /\ alert[a] \in AlertStates
      /\ active \in Alerts \cup {NoIncident} /\ NoIncident \notin Alerts
      /\ alert[a].at \in {"none", "look", "claim", "adopt"} => alert[a].id = NoIncident
      /\ alert[a].id = NoIncident => ~alert[a].opened
  BY DEF IncInv, IncTypeOK, Alerts, NoIncident, OpenedByItself
<1> DEFINE Found(r) ==
        /\ AlertMoves(a, r) /\ r \in AlertStates
        /\ alert[a].at \in {"none", "look", "claim", "adopt"}
        /\ \/ r.at \in {"look", "claim", "adopt"} /\ r.id = NoIncident
           \/ r.at = "count" /\ r.id \in Alerts
        /\ r.opened => r.id = a
        /\ incFaults' \in Nat
        /\ \/ incFaults' > 0
           \/ /\ incFaults' = incFaults
              /\ active # NoIncident => active' = active
              /\ r.id \in {NoIncident, active'} \/ (active = NoIncident /\ alert[a].at = "adopt")
              /\ r.at = "adopt" => active' # NoIncident
        /\ active' \in Alerts \cup {NoIncident}
<1>2. \E r : Found(r)
  <2>1. CASE Raise(a)
    <3> DEFINE r == [alert[a] EXCEPT !.at = "look"]
    <3>1. r \in AlertStates /\ r.at = "look" /\ r.id = alert[a].id /\ r.opened = alert[a].opened
      BY <1>1 DEF AlertStates
    <3>2. AlertMoves(a, r)
      BY <1>1, <2>1 DEF AlertStates, AlertMoves, Raise
    <3> HIDE DEF r
    <3>3. Found(r)
      BY <1>1, <2>1, <3>1, <3>2 DEF Raise, IncTypeOK
    <3> QED
      BY <3>3
  <2>2. CASE Look(a) /\ active = NoIncident
    <3> DEFINE r == [alert[a] EXCEPT !.at = "claim"]
    <3>1. r \in AlertStates /\ r.at = "claim" /\ r.id = alert[a].id /\ r.opened = alert[a].opened
      BY <1>1 DEF AlertStates
    <3>2. AlertMoves(a, r)
      BY <1>1, <2>2 DEF AlertStates, AlertMoves, Look
    <3> HIDE DEF r
    <3>3. Found(r)
      BY <1>1, <2>2, <3>1, <3>2 DEF Look, IncTypeOK
    <3> QED
      BY <3>3
  <2>3. CASE Look(a) /\ active # NoIncident
    <3> DEFINE r == [alert[a] EXCEPT !.at = "count", !.id = active]
    <3>1. r \in AlertStates /\ r.at = "count" /\ r.id = active /\ r.opened = alert[a].opened
      BY <1>1 DEF AlertStates
    <3>2. AlertMoves(a, r)
      BY <1>1, <2>3 DEF AlertStates, AlertMoves, Look
    <3> HIDE DEF r
    <3>3. Found(r)
      BY <1>1, <2>3, <3>1, <3>2 DEF Look, IncTypeOK
    <3> QED
      BY <3>3
  <2>4. CASE LookFails(a)
    <3> DEFINE r == [alert[a] EXCEPT !.at = "claim"]
    <3>1. r \in AlertStates /\ r.at = "claim" /\ r.id = alert[a].id /\ r.opened = alert[a].opened
      BY <1>1 DEF AlertStates
    <3>2. AlertMoves(a, r)
      BY <1>1, <2>4 DEF AlertStates, AlertMoves, LookFails
    <3> HIDE DEF r
    <3>3. Found(r)
      BY <1>1, <2>4, <3>1, <3>2 DEF LookFails, IncFault, IncTypeOK
    <3> QED
      BY <3>3
  <2>5. CASE Claim(a) /\ Claimable
    <3> DEFINE r == [alert[a] EXCEPT !.at = "count", !.id = a, !.opened = TRUE]
    <3>1. r \in AlertStates /\ r.at = "count" /\ r.id = a
      BY <1>1 DEF AlertStates
    <3>2. AlertMoves(a, r)
      BY <1>1, <2>5 DEF AlertStates, AlertMoves, Claim
    <3> HIDE DEF r
    <3>3. Found(r)
      BY <1>1, <2>5, <3>1, <3>2 DEF Claim, Claimable, IncTypeOK
    <3> QED
      BY <3>3
  <2>6. CASE Claim(a) /\ ~Claimable
    <3> DEFINE r == [alert[a] EXCEPT !.at = "adopt"]
    <3>1. r \in AlertStates /\ r.at = "adopt" /\ r.id = alert[a].id /\ r.opened = alert[a].opened
      BY <1>1 DEF AlertStates
    <3>2. AlertMoves(a, r)
      BY <1>1, <2>6 DEF AlertStates, AlertMoves, Claim
    <3> HIDE DEF r
    <3>3. Found(r)
      BY <1>1, <2>6, <3>1, <3>2 DEF Claim, Claimable, IncTypeOK
    <3> QED
      BY <3>3
  <2>7. CASE ClaimRaises(a) \/ AdoptFails(a)
    <3> DEFINE r == [alert[a] EXCEPT !.at = "count", !.id = a]
    <3>1. r \in AlertStates /\ r.at = "count" /\ r.id = a
      BY <1>1 DEF AlertStates
    <3>2. AlertMoves(a, r)
      BY <1>1, <2>7 DEF AlertStates, AlertMoves, ClaimRaises, AdoptFails
    <3> HIDE DEF r
    <3>3. incFaults' \in Nat /\ incFaults' > 0 /\ active' \in Alerts \cup {NoIncident}
          /\ alert[a].at \in {"claim", "adopt"}
      BY <1>1, <2>7 DEF ClaimRaises, AdoptFails, IncFault, IncTypeOK
    <3>4. Found(r)
      BY <3>1, <3>2, <3>3
    <3> QED
      BY <3>4
  <2>8. CASE Adopt(a)
    <3> DEFINE i == IF active = NoIncident THEN a ELSE active
               r == [alert[a] EXCEPT !.at = "count", !.id = i]
    <3>1. i \in Alerts /\ r \in AlertStates /\ r.at = "count" /\ r.id = i /\ r.opened = alert[a].opened
      BY <1>1 DEF AlertStates
    <3>2. AlertMoves(a, r)
      BY <1>1, <2>8 DEF AlertStates, AlertMoves, Adopt
    <3> HIDE DEF r
    <3>3. Found(r)
      BY <1>1, <2>8, <3>1, <3>2 DEF Adopt, IncTypeOK
    <3> QED
      BY <3>3
  <2> QED
    BY <2>1, <2>2, <2>3, <2>4, <2>5, <2>6, <2>7, <2>8
<1>3. PICK r : Found(r)
  BY <1>2
<1>4. UNCHANGED <<record, expiries, raced>>
  BY DEF Raise, Look, LookFails, Claim, ClaimRaises, Adopt, AdoptFails
<1>5. /\ alert' \in [Alerts -> AlertStates] /\ alert'[a] = r
      /\ \A b \in Alerts : b # a => alert'[b] = alert[b]
  BY <1>1, <1>3, AlertMovesFacts
<1>6. IncTypeOK'
  BY <1>1, <1>3, <1>4, <1>5 DEF IncTypeOK
<1>7. OneIncident'
  BY <1>1, <1>3, <1>4, <1>5 DEF OneIncident, IncTypeOK
<1>8. Tallied'
  BY <1>1, <1>3, <1>4, TallyUntouched
<1>9. OpenedByItself'
  BY <1>1, <1>3, <1>5 DEF OpenedByItself
<1> QED
  BY <1>6, <1>7, <1>8, <1>9 DEF IncInv

(* The other parts, when an alert with an incident counts itself there.    *)
LEMMA CountingKeeps ==
    ASSUME IncInv, NEW a \in Alerts, NEW r \in AlertStates, AlertMoves(a, r),
           alert[a].at \in {"count", "save"}, r.at \in {"save", "saved", "uncounted"}, r.id = alert[a].id,
           r.opened => alert[a].opened, record' \in [Alerts -> Nat], raced' \subseteq Alerts,
           UNCHANGED <<active, expiries>>, incFaults' \in Nat, incFaults' >= incFaults
    PROVE  IncTypeOK' /\ OneIncident' /\ OpenedByItself'
<1>1. IncTypeOK /\ OneIncident /\ OpenedByItself /\ alert[a].id \in Alerts
  BY DEF IncInv, IncTypeOK
<1>2. /\ alert' \in [Alerts -> AlertStates] /\ alert'[a] = r
      /\ \A b \in Alerts : b # a => alert'[b] = alert[b]
  BY <1>1, AlertMovesFacts
<1>3. IncTypeOK'
  BY <1>1, <1>2 DEF IncTypeOK
<1>4. OneIncident'
  BY <1>1, <1>2 DEF OneIncident, IncTypeOK
<1>5. OpenedByItself'
  BY <1>1, <1>2 DEF OpenedByItself
<1> QED
  BY <1>3, <1>4, <1>5

(* The state of an alert that has counted n.                               *)
Counts(x, n, o) == [x EXCEPT !.at = "save", !.count = n, !.opened = o]

(* It has that count, and its identifier.                                  *)
LEMMA CountsFacts ==
    ASSUME NEW x \in AlertStates, NEW n \in Nat, NEW o \in BOOLEAN
    PROVE  LET r == Counts(x, n, o)
           IN  r \in AlertStates /\ r.at = "save" /\ r.id = x.id /\ r.count = n /\ r.opened = o
<1> DEFINE s == [x EXCEPT !.at = "save", !.count = n]
<1>1. s \in AlertStates /\ s.at = "save" /\ s.id = x.id /\ s.count = n
  BY DEF AlertStates
<1>2. Counts(x, n, o) = [s EXCEPT !.opened = o]
  BY DEF AlertStates, Counts
<1> HIDE DEF s
<1> QED
  BY <1>1, <1>2 DEF AlertStates

(* An alert reads the record: it will write one more, and two that read    *)
(* before either wrote have raced.                                         *)
LEMMA CountInKeeps ==
    ASSUME IncidentsAssumption, IncInv, NEW a \in Alerts, CountIn(a)
    PROVE  IncInv'
<1> DEFINE i == alert[a].id
           o == alert[a].opened /\ record[i] = 0
           r == Counts(alert[a], record[i] + 1, o)
<1>1. /\ IncTypeOK /\ Tallied /\ alert \in [Alerts -> AlertStates] /\ alert[a] \in AlertStates
      /\ alert[a].at = "count" /\ i \in Alerts /\ record[i] \in Nat /\ incFaults \in Nat
      /\ UNCHANGED <<active, record, expiries, incFaults>>
  BY DEF IncInv, IncTypeOK, CountIn
<1>2. /\ r \in AlertStates /\ r.at = "save" /\ r.id = i /\ r.count = record[i] + 1
      /\ (r.opened => alert[a].opened)
  <2>1. o \in BOOLEAN /\ (o => alert[a].opened)
    BY Zenon
  <2> HIDE DEF o
  <2>2. record[i] + 1 \in Nat
    BY <1>1
  <2>3. alert[a] \in AlertStates
    BY <1>1
  <2>4. \A x \in AlertStates, n \in Nat, w \in BOOLEAN :
          LET c == Counts(x, n, w)
          IN  c \in AlertStates /\ c.at = "save" /\ c.id = x.id /\ c.count = n /\ c.opened = w
    BY CountsFacts
  <2>5. r \in AlertStates
    BY <2>1, <2>2, <2>3, <2>4
  <2>6. r.at = "save" /\ r.id = i /\ r.count = record[i] + 1
    BY <2>1, <2>2, <2>3, <2>4
  <2>7. r.opened = o
    BY <2>1, <2>2, <2>3, <2>4
  <2>8. r.opened => alert[a].opened
    BY <2>1, <2>7
  <2> QED
    BY <2>5, <2>6, <2>8
<1>3. AlertMoves(a, r)
  BY <1>1 DEF AlertStates, AlertMoves, CountIn, Counts
<1>4. /\ raced' = IF Saving(i) # {} THEN raced \cup {i} ELSE raced
      /\ raced \subseteq Alerts /\ raced' \subseteq Alerts
  BY <1>1 DEF CountIn, Saving, IncTypeOK
<1> HIDE DEF r
<1>5. IncTypeOK' /\ OneIncident' /\ OpenedByItself'
  BY <1>1, <1>2, <1>3, <1>4, CountingKeeps DEF IncTypeOK
<1>6. /\ alert' \in [Alerts -> AlertStates] /\ alert'[a] = r
      /\ \A b \in Alerts : b # a => alert'[b] = alert[b]
  BY <1>1, <1>2, <1>3, AlertMovesFacts
<1>7. ASSUME NEW j \in Alerts
      PROVE  /\ record[j] <= Cardinality(Saved(j)')
             /\ \A b \in Saving(j)' : alert'[b].count <= Cardinality(Saved(j)') + 1
             /\ j \notin raced' =>
                  /\ record[j] = Cardinality(Saved(j)')
                  /\ \A b, c \in Saving(j)' : b = c /\ alert'[b].count = record[j] + 1
  <2>1. Saved(j)' = Saved(j)
    BY <1>1, <1>2, <1>6 DEF Saved
  <2>2. Saving(j)' = IF j = i THEN Saving(j) \cup {a} ELSE Saving(j)
    BY <1>1, <1>2, <1>6 DEF Saving
  <2>3. \A b \in Saving(j) : b # a /\ alert'[b] = alert[b]
    BY <1>1, <1>6 DEF Saving
  <2>4. /\ record[j] <= Cardinality(Saved(j))
        /\ \A b \in Saving(j) : alert[b].count <= Cardinality(Saved(j)) + 1
        /\ j \notin raced =>
             /\ record[j] = Cardinality(Saved(j))
             /\ \A b, c \in Saving(j) : b = c /\ alert[b].count = record[j] + 1
    BY <1>1 DEF Tallied
  <2>5. Cardinality(Saved(j)) \in Nat
    BY SavedFacts
  <2>6. CASE j = i
    BY <1>1, <1>2, <1>4, <1>6, <2>1, <2>2, <2>3, <2>4, <2>5, <2>6
  <2>7. CASE j # i
    BY <1>4, <2>1, <2>2, <2>3, <2>4, <2>7
  <2> QED
    BY <2>6, <2>7
<1>8. Tallied'
  BY <1>1, <1>7 DEF Tallied
<1> QED
  BY <1>5, <1>8 DEF IncInv

(* An alert writes what it counted, and is one more that was saved.        *)
LEMMA SaveRecordKeeps ==
    ASSUME IncidentsAssumption, IncInv, NEW a \in Alerts, SaveRecord(a)
    PROVE  IncInv'
<1> DEFINE i == alert[a].id
           r == [alert[a] EXCEPT !.at = "saved"]
<1>1. /\ IncTypeOK /\ Tallied /\ alert \in [Alerts -> AlertStates] /\ alert[a] \in AlertStates
      /\ alert[a].at = "save" /\ i \in Alerts /\ alert[a].count \in Nat /\ incFaults \in Nat
      /\ UNCHANGED <<active, expiries, incFaults, raced>>
  BY DEF IncInv, IncTypeOK, SaveRecord, AlertStates
<1>2. r \in AlertStates /\ r.at = "saved" /\ r.id = i /\ r.opened = alert[a].opened
  BY <1>1 DEF AlertStates
<1>3. AlertMoves(a, r)
  BY <1>1 DEF AlertStates, AlertMoves, SaveRecord
<1>4. /\ record' \in [Alerts -> Nat] /\ record'[i] = alert[a].count
      /\ \A j \in Alerts : j # i => record'[j] = record[j]
  BY <1>1 DEF SaveRecord, IncTypeOK
<1> HIDE DEF r
<1>5. IncTypeOK' /\ OneIncident' /\ OpenedByItself'
  BY <1>1, <1>2, <1>3, <1>4, CountingKeeps DEF IncTypeOK
<1>6. /\ alert' \in [Alerts -> AlertStates] /\ alert'[a] = r
      /\ \A b \in Alerts : b # a => alert'[b] = alert[b]
  BY <1>1, <1>2, <1>3, AlertMovesFacts
<1>7. ASSUME NEW j \in Alerts
      PROVE  /\ record'[j] <= Cardinality(Saved(j)')
             /\ \A b \in Saving(j)' : alert'[b].count <= Cardinality(Saved(j)') + 1
             /\ j \notin raced =>
                  /\ record'[j] = Cardinality(Saved(j)')
                  /\ \A b, c \in Saving(j)' : b = c /\ alert'[b].count = record'[j] + 1
  <2>1. Saved(j)' = IF j = i THEN Saved(j) \cup {a} ELSE Saved(j)
    BY <1>1, <1>2, <1>6 DEF Saved
  <2>2. Saving(j)' = Saving(j) \ {a} /\ (a \in Saving(j) <=> j = i) /\ a \notin Saved(j)
    BY <1>1, <1>2, <1>6 DEF Saving, Saved
  <2>3. \A b \in Saving(j)' : b \in Saving(j) /\ alert'[b] = alert[b] /\ alert[b].count \in Nat
    BY <1>1, <1>6, <2>2 DEF Saving, AlertStates
  <2>4. /\ record[j] <= Cardinality(Saved(j))
        /\ \A b \in Saving(j) : alert[b].count <= Cardinality(Saved(j)) + 1
        /\ j \notin raced =>
             /\ record[j] = Cardinality(Saved(j))
             /\ \A b, c \in Saving(j) : b = c /\ alert[b].count = record[j] + 1
    BY <1>1 DEF Tallied
  <2>5. Cardinality(Saved(j)) \in Nat /\ IsFiniteSet(Saved(j))
    BY SavedFacts
  <2>6. CASE j = i
    <3>1. Cardinality(Saved(j)') = Cardinality(Saved(j)) + 1
      BY <2>1, <2>2, <2>5, <2>6, FS_AddElement
    <3>2. a \in Saving(j)
      BY <2>2, <2>6
    <3>3. record'[j] <= Cardinality(Saved(j)')
      BY <1>4, <2>4, <2>6, <3>1, <3>2
    <3>4. \A b \in Saving(j)' : alert'[b].count <= Cardinality(Saved(j)') + 1
      BY <2>3, <2>4, <2>5, <3>1
    <3>5. j \notin raced => Saving(j)' = {} /\ record'[j] = Cardinality(Saved(j)')
      BY <1>4, <2>2, <2>4, <2>6, <3>1, <3>2
    <3> QED
      BY <3>3, <3>4, <3>5
  <2>7. CASE j # i
    BY <1>4, <2>1, <2>2, <2>3, <2>4, <2>7
  <2> QED
    BY <2>6, <2>7
<1>8. Tallied'
  BY <1>1, <1>7 DEF Tallied
<1> QED
  BY <1>5, <1>8 DEF IncInv

(* An alert gives up counting itself.                                      *)
LEMMA RecordFailsKeeps ==
    ASSUME IncidentsAssumption, IncInv, NEW a \in Alerts, RecordFails(a)
    PROVE  IncInv'
<1> DEFINE r == [alert[a] EXCEPT !.at = "uncounted"]
<1>1. /\ IncTypeOK /\ Tallied /\ alert \in [Alerts -> AlertStates] /\ alert[a] \in AlertStates
      /\ alert[a].at \in {"count", "save"}
      /\ incFaults \in Nat /\ incFaults' \in Nat /\ incFaults' >= incFaults
      /\ UNCHANGED <<active, record, expiries, raced>>
  BY DEF IncInv, IncTypeOK, RecordFails, IncFault
<1>2. r \in AlertStates /\ r.at = "uncounted" /\ r.id = alert[a].id /\ r.opened = alert[a].opened
  BY <1>1 DEF AlertStates
<1>3. AlertMoves(a, r)
  BY <1>1 DEF AlertStates, AlertMoves, RecordFails
<1> HIDE DEF r
<1>4. IncTypeOK' /\ OneIncident' /\ OpenedByItself'
  BY <1>1, <1>2, <1>3, CountingKeeps DEF IncTypeOK
<1>5. /\ alert' \in [Alerts -> AlertStates] /\ alert'[a] = r
      /\ \A b \in Alerts : b # a => alert'[b] = alert[b]
  BY <1>1, <1>2, <1>3, AlertMovesFacts
<1>6. \A i \in Alerts : Saved(i)' = Saved(i)
  BY <1>1, <1>2, <1>5 DEF Saved
<1>7. \A i \in Alerts : \A b \in Saving(i)' : b \in Saving(i) /\ alert'[b] = alert[b]
  BY <1>2, <1>5 DEF Saving
<1>8. Tallied'
  <2> SUFFICES ASSUME NEW i \in Alerts
               PROVE  /\ record[i] <= Cardinality(Saved(i)')
                      /\ \A b \in Saving(i)' : alert'[b].count <= Cardinality(Saved(i)') + 1
                      /\ i \notin raced =>
                           /\ record[i] = Cardinality(Saved(i)')
                           /\ \A b, c \in Saving(i)' : b = c /\ alert'[b].count = record[i] + 1
    BY <1>1 DEF Tallied
  <2> QED
    BY <1>1, <1>6, <1>7 DEF Tallied
<1> QED
  BY <1>4, <1>8 DEF IncInv

(* A window ends, or nothing happens.                                      *)
LEMMA ExpireKeeps ==
    ASSUME IncInv, Expire \/ UNCHANGED incVars
    PROVE  IncInv'
<1>1. UNCHANGED <<record, alert, incFaults, raced>>
  BY DEF Expire, incVars
<1>2. /\ active' \in {active, NoIncident} /\ expiries' \in Nat
      /\ expiries' # 0 \/ (active' = active /\ expiries' = expiries)
  BY DEF Expire, incVars, IncInv, IncTypeOK
<1>3. IncTypeOK' /\ OneIncident' /\ OpenedByItself'
  BY <1>1, <1>2 DEF IncInv, IncTypeOK, OneIncident, OpenedByItself
<1>4. \A i \in Alerts : Saved(i)' = Saved(i) /\ Saving(i)' = Saving(i)
  BY <1>1 DEF Saved, Saving
<1>5. Tallied'
  BY <1>1, <1>4 DEF IncInv, Tallied
<1> QED
  BY <1>3, <1>5 DEF IncInv

(* No alert has been raised yet.                                           *)
LEMMA IncInitCoherent == ASSUME IncidentsAssumption, IncInit PROVE IncInv
<1>1. \A a \in Alerts : alert[a] = [at |-> "none", id |-> NoIncident, opened |-> FALSE, count |-> 0]
  BY DEF IncInit
<1>2. \A i \in Alerts : Saved(i) = {} /\ Saving(i) = {}
  BY <1>1 DEF Saved, Saving
<1>3. IncTypeOK
  BY <1>1 DEF IncInit, IncTypeOK, AlertStates
<1>4. OneIncident /\ OpenedByItself
  BY <1>1 DEF OneIncident, OpenedByItself
<1>5. Tallied
  <2>1. Cardinality({}) = 0
    BY FS_EmptySet
  <2>2. \A i \in Alerts : record[i] = 0
    BY DEF IncInit
  <2> QED
    BY <1>2, <2>1, <2>2 DEF Tallied
<1> QED
  BY <1>3, <1>4, <1>5 DEF IncInv

(* siem_ir.py: until a window ends or Redis fails the alerts of one class  *)
(* are of one incident; its count is never above the alerts saved in it,   *)
(* and below only after two of them read the record at once; at most one   *)
(* says that it opened the incident.  In whatever order the tasks run.     *)
THEOREM IncidentsCorrelate == IncSpec => []IncidentsAgree
<1>1. IncidentsAssumption
  BY IncidentsAssumption
<1>2. IncInit => IncInv
  BY <1>1, IncInitCoherent
<1>3. IncInv /\ [IncNext]_incVars => IncInv'
  <2> SUFFICES ASSUME IncInv, [IncNext]_incVars PROVE IncInv'
    OBVIOUS
  <2>1. ASSUME NEW a \in Alerts,
               Raise(a) \/ Look(a) \/ LookFails(a) \/ Claim(a) \/ ClaimRaises(a) \/ Adopt(a)
                 \/ AdoptFails(a) \/ CountIn(a) \/ SaveRecord(a) \/ RecordFails(a)
        PROVE  IncInv'
    BY <1>1, <2>1, AlertFindsIncident, CountInKeeps, SaveRecordKeeps, RecordFailsKeeps
  <2> QED
    BY <2>1, ExpireKeeps, Zenon DEF IncNext
<1>4. IncInv => IncidentsAgree
  <2> SUFFICES ASSUME IncInv PROVE IncidentsAgree
    OBVIOUS
  <2>1. expiries = 0 /\ incFaults = 0 =>
          \A a, b \in Alerts : NoIncident \in {alert[a].id, alert[b].id} \/ alert[a].id = alert[b].id
    BY DEF IncInv, OneIncident
  <2>2. ASSUME NEW i \in Alerts
        PROVE  Cardinality({a \in Alerts : alert[a].id = i /\ alert[a].opened}) <= 1
    <3> DEFINE opened == {a \in Alerts : alert[a].id = i /\ alert[a].opened}
    <3>1. opened \subseteq {i}
      BY DEF IncInv, OpenedByItself
    <3>2. IsFiniteSet({i}) /\ Cardinality({i}) = 1
      BY FS_Singleton
    <3> HIDE DEF opened
    <3>3. Cardinality(opened) <= 1
      BY <3>1, <3>2, FS_Subset
    <3> QED
      BY <3>3 DEF opened
  <2> QED
    BY <2>1, <2>2 DEF IncInv, Tallied, IncidentsAgree
<1> QED
  BY <1>2, <1>3, <1>4, PTL DEF IncSpec

-----------------------------------------------------------------------------
(* The threat feeds.                                                       *)

(* One call moves to the state r.                                          *)
CallMoves(k, r) == call' = [call EXCEPT ![k] = r]

(* The other calls stay as they are.                                       *)
LEMMA CallMovesFacts ==
    ASSUME FeedTypeOK, NEW k \in FeedCalls, NEW r \in CallStates, CallMoves(k, r)
    PROVE  /\ call' \in [FeedCalls -> CallStates] /\ call'[k] = r
           /\ \A o \in FeedCalls : o # k => call'[o] = call[o]
BY DEF FeedTypeOK, CallMoves

(* Nothing that was stored is lost and no time runs backwards.             *)
FeedGrows ==
    /\ \A v \in Versions : feedRules[v] # {} => feedRules'[v] # {}
    /\ \A v \in Versions : lastActive'[v] >= lastActive[v] /\ everStored[v] \subseteq everStored'[v]
    /\ feedNow' >= feedNow

(* A call that a step leaves alone still fits.                             *)
LEMMA FitsStays ==
    ASSUME FeedTypeOK, FeedTypeOK', FeedGrows, NEW c \in CallStates, CallFits(c)
    PROVE  CallFits(c)'
<1>1. c.since \in Nat /\ feedNow \in Nat /\ feedNow' \in Nat /\ c.since <= feedNow'
  BY DEF FeedTypeOK, CallStates, CallFits, FeedGrows
<1>2. \A v : v \in Versions /\ feedRules[v] # {} => v \in Versions /\ feedRules'[v] # {}
  BY DEF FeedGrows
<1>3. \A v \in Versions : lastActive[v] \in Nat /\ lastActive'[v] \in Nat /\ lastActive'[v] >= lastActive[v]
  BY DEF FeedTypeOK, FeedGrows
<1> QED
  BY <1>1, <1>2, <1>3 DEF CallFits, Stored

(* A cache that a step leaves alone holds rules its version had, and the   *)
(* version was in force since.                                             *)
CacheFits(c) ==
    c.full /\ c.version # NoVersion =>
      c.rules \in everStored[c.version] /\ lastActive[c.version] >= c.at

(* What is said of a cache stays true while feeds are stored and activated. *)
LEMMA CacheStays ==
    ASSUME FeedTypeOK, FeedTypeOK', FeedGrows, NEW c \in Caches, CacheFits(c)
    PROVE  CacheFits(c)'
<1>1. c.at \in Nat /\ (c.version # NoVersion => c.version \in Versions)
  BY DEF Caches, AVersion
<1>2. \A v \in Versions : lastActive[v] \in Nat /\ lastActive'[v] \in Nat
                          /\ lastActive'[v] >= lastActive[v] /\ everStored[v] \subseteq everStored'[v]
  BY DEF FeedTypeOK, FeedGrows
<1> QED
  BY <1>1, <1>2 DEF CacheFits

(* A call goes on without changing rules, record, caches or time: it reads *)
(* the record to write it, alone or not, or it is not about to write.      *)
LEMMA CallGoesOn ==
    ASSUME FeedInv, NEW k \in FeedCalls, NEW r \in CallStates, CallMoves(k, r), CallFits(r),
           UNCHANGED <<feedRules, meta, cache, feedNow, everStored, lastActive, wanted>>,
           \/ r.at # "write" /\ feedOverlap' = feedOverlap
           \/ /\ r.meta = meta
              /\ feedOverlap' = (feedOverlap \/ \E o \in FeedCalls : call[o].at = "write")
    PROVE  FeedInv'
<1>1. /\ call' \in [FeedCalls -> CallStates] /\ call'[k] = r
      /\ \A o \in FeedCalls : o # k => call'[o] = call[o]
  BY CallMovesFacts DEF FeedInv
<1>2. feedOverlap' \in BOOLEAN
  BY DEF FeedInv, FeedTypeOK
<1>3. FeedTypeOK' /\ OneRuleSet' /\ LastInForce'
  BY <1>1, <1>2 DEF FeedInv, FeedTypeOK, OneRuleSet, LastInForce, Stored
<1>4. CallsFit'
  BY <1>1 DEF FeedInv, CallsFit, CallFits, Stored
<1>5. ~feedOverlap' => ~feedOverlap
  OBVIOUS
<1>6. FeedsInForce'
  BY <1>5 DEF FeedInv, FeedsInForce
<1>7. WritesAlone'
  <2>1. CASE r.at # "write" /\ feedOverlap' = feedOverlap
    BY <1>1, <2>1 DEF FeedInv, WritesAlone
  <2>2. CASE /\ r.meta = meta
             /\ feedOverlap' = (feedOverlap \/ \E o \in FeedCalls : call[o].at = "write")
    BY <1>1, <2>2 DEF FeedInv, WritesAlone
  <2> QED
    BY <2>1, <2>2
<1> QED
  BY <1>3, <1>4, <1>6, <1>7 DEF FeedInv

(* The record of a call before it reads the meta record.                   *)
LEMMA CallOfFacts ==
    ASSUME NEW place \in FeedPlaces, NEW p \in FeedProcs \cup {NoVersion},
           NEW op \in {"load", "ingest", "stage", "activate"}, NEW v \in AVersion,
           NEW new \in SUBSET FeedCalls, NEW time \in Nat, time <= feedNow,
           place \in {"read", "write", "list", "push"} => Stored(v),
           place = "store" \/ new # {} => v \in Versions, place # "rules",
           place = "done" \/ p \in FeedProcs
    PROVE  CallOf(place, p, op, v, new, time) \in CallStates /\ CallFits(CallOf(place, p, op, v, new, time))
           /\ CallOf(place, p, op, v, new, time).at = place
<1>1. NoMeta \in Metas /\ NoMeta.active = NoVersion
  BY DEF NoMeta, Metas, AVersion
<1> QED
  BY <1>1 DEF CallOf, CallStates, CallFits

(* A call that is over fits.                                               *)
LEMMA OverFits ==
    ASSUME feedNow \in Nat PROVE Over \in CallStates /\ CallFits(Over) /\ Over.at = "done"
<1>1. NoMeta \in Metas /\ NoMeta.active = NoVersion
  BY DEF NoMeta, Metas, AVersion
<1> QED
  BY <1>1 DEF Over, CallOf, CallStates, FeedPlaces, AVersion, CallFits

(* A call starts, or a rollback finds its target.                          *)
LEMMA FeedBegins ==
    ASSUME FeedsAssumption, FeedInv, NEW k \in FeedCalls, FeedStart(k) \/ RollbackTarget(k)
    PROVE  FeedInv'
<1> DEFINE Enters(place, p, op, v, new, time) ==
        /\ place \in FeedPlaces /\ p \in FeedProcs \cup {NoVersion}
        /\ op \in {"load", "ingest", "stage", "activate"} /\ v \in AVersion
        /\ new \in SUBSET FeedCalls /\ time \in Nat /\ time <= feedNow
        /\ place \in {"read", "write", "list", "push"} => Stored(v)
        /\ place = "store" \/ new # {} => v \in Versions
        /\ place \notin {"rules", "write"} /\ (place = "done" \/ p \in FeedProcs)
        /\ CallMoves(k, CallOf(place, p, op, v, new, time))
<1>1. /\ call[k] \in CallStates /\ feedNow \in Nat /\ meta \in Metas
      /\ CallAt[k] \in FeedProcs /\ k \in FeedCalls
  BY DEF FeedInv, FeedTypeOK, FeedsAssumption, FeedCalls
<1>10. CallFits(call[k])
  BY DEF FeedInv, CallsFit
<1>2. UNCHANGED <<feedRules, meta, cache, feedNow, everStored, lastActive, wanted, feedOverlap>>
  BY DEF FeedStart, RollbackTarget, StartLoad, StartIngest, StartActivate, StartRollback, Shared
<1>3. ASSUME NEW place, NEW p, NEW op, NEW v, NEW new, NEW time,
             Enters(place, p, op, v, new, time)
      PROVE  FeedInv'
  <2> DEFINE r == CallOf(place, p, op, v, new, time)
  <2>1. r \in CallStates /\ CallFits(r) /\ r.at = place
    BY <1>3, CallOfFacts
  <2>2. CallMoves(k, r) /\ place # "write"
    BY <1>3
  <2> HIDE DEF r
  <2> QED
    BY <1>2, <2>1, <2>2, CallGoesOn
<1>4. CASE StartLoad(k, CallAt[k])
  <2>1. Enters("meta", CallAt[k], "load", NoVersion, {}, feedNow)
    BY <1>1, <1>4 DEF StartLoad, CallMoves, FeedPlaces, AVersion
  <2> HIDE DEF Enters
  <2> QED
    BY <1>3, <2>1
<1>5. ASSUME NEW v \in Versions, NEW i \in IngestKinds, StartIngest(k, CallAt[k], v, i)
      PROVE  FeedInv'
  <2>1. i.mode \in {"append", "replace"} /\ i.op \in {"ingest", "stage"}
    BY DEF FeedsAssumption
  <2>2. CASE i.mode = "append"
    <3>1. Enters("meta", CallAt[k], i.op, v, {k}, feedNow)
      BY <1>1, <1>5, <2>1, <2>2 DEF StartIngest, CallMoves, FeedPlaces, AVersion
    <3> HIDE DEF Enters
    <3> QED
      BY <1>3, <3>1
  <2>3. CASE i.mode # "append"
    <3>1. Enters("store", CallAt[k], i.op, v, {k}, feedNow)
      BY <1>1, <1>5, <2>1, <2>3 DEF StartIngest, CallMoves, FeedPlaces, AVersion
    <3> HIDE DEF Enters
    <3> QED
      BY <1>3, <3>1
  <2> QED
    BY <2>2, <2>3
<1>6. ASSUME CallMoves(k, Over) PROVE FeedInv'
  <2>1. Enters("done", NoVersion, "load", NoVersion, {}, 0)
    BY <1>1, <1>6 DEF Over, FeedPlaces, AVersion
  <2> HIDE DEF Enters
  <2> QED
    BY <1>3, <2>1
<1>7. ASSUME NEW v \in Versions, StartActivate(k, CallAt[k], v) PROVE FeedInv'
  <2>1. CASE Stored(v)
    <3>1. Enters("read", CallAt[k], "activate", v, {}, 0)
      BY <1>1, <1>7, <2>1 DEF StartActivate, CallMoves, FeedPlaces, AVersion
    <3> HIDE DEF Enters
    <3> QED
      BY <1>3, <3>1
  <2>2. CASE ~Stored(v)
    BY <1>6, <1>7, <2>2 DEF StartActivate, CallMoves
  <2> QED
    BY <2>1, <2>2
<1>8. CASE StartRollback(k, CallAt[k])
  <2>1. Enters("target", CallAt[k], "activate", meta.previous, {}, 0)
    BY <1>1, <1>8 DEF StartRollback, CallMoves, FeedPlaces, AVersion, Metas
  <2> HIDE DEF Enters
  <2> QED
    BY <1>3, <2>1
<1>9. CASE RollbackTarget(k)
  <2>1. PICK v : call' = [call EXCEPT ![k] =
                   IF Stored(v) THEN CallOf("read", call[k].proc, "activate", v, {}, 0) ELSE Over]
    BY <1>9 DEF RollbackTarget
  <2>2. CASE Stored(v)
    <3>1. v \in AVersion /\ call[k].proc \in FeedProcs
      BY <1>9, <1>10, <2>2 DEF RollbackTarget, Stored, AVersion, CallFits
    <3>2. Enters("read", call[k].proc, "activate", v, {}, 0)
      BY <1>1, <2>1, <2>2, <3>1 DEF CallMoves, FeedPlaces
    <3> HIDE DEF Enters
    <3> QED
      BY <1>3, <3>2
  <2>3. CASE ~Stored(v)
    BY <1>6, <2>1, <2>3 DEF CallMoves
  <2> QED
    BY <2>2, <2>3
<1> QED
  BY <1>4, <1>5, <1>7, <1>8, <1>9 DEF FeedStart

(* A call reads the record, or moves its version up the list.              *)
LEMMA FeedReads ==
    ASSUME FeedsAssumption, FeedInv, NEW k \in FeedCalls,
           ReadMeta(k) \/ ListVersion(k) \/ PushVersion(k) \/ LoadMeta(k)
    PROVE  FeedInv'
<1>1. /\ call \in [FeedCalls -> CallStates] /\ call[k] \in CallStates /\ CallFits(call[k])
      /\ meta \in Metas /\ LastInForce /\ feedNow \in Nat
      /\ lastActive \in [Versions -> Nat] /\ call[k].since \in Nat /\ call[k].since <= feedNow
  BY DEF FeedInv, FeedTypeOK, CallsFit, CallStates, CallFits
<1>2. UNCHANGED <<feedRules, meta, cache, feedNow, everStored, lastActive, wanted>>
  BY DEF ReadMeta, ListVersion, PushVersion, LoadMeta, Shared
<1>3. CASE ReadMeta(k)
  <2> DEFINE s == [call[k] EXCEPT !.at = "write"]
             r == [s EXCEPT !.meta = meta]
  <2>1. s \in CallStates /\ s.at = "write" /\ s.version = call[k].version /\ s.new = call[k].new
        /\ s.since = call[k].since /\ s.proc = call[k].proc
    BY <1>1 DEF CallStates, FeedPlaces
  <2>2. CallMoves(k, r)
    BY <1>1, <1>3 DEF ReadMeta, CallMoves, CallStates
  <2> HIDE DEF s
  <2>3. r \in CallStates /\ r.at = "write" /\ r.meta = meta /\ r.version = call[k].version
        /\ r.new = call[k].new /\ r.since = call[k].since /\ r.proc = call[k].proc
    BY <1>1, <2>1 DEF CallStates
  <2> HIDE DEF r
  <2>4. CallFits(r)
    BY <1>1, <1>3, <2>3 DEF CallFits, LastInForce, ReadMeta
  <2> QED
    BY <1>2, <1>3, <2>2, <2>3, <2>4, CallGoesOn DEF ReadMeta
<1>4. CASE ListVersion(k) \/ PushVersion(k)
  <2> DEFINE r(place) == [call[k] EXCEPT !.at = place]
  <2>1. call[k].at \in {"list", "push"} /\ feedOverlap' = feedOverlap
    BY <1>4 DEF ListVersion, PushVersion
  <2>2. AfterList(k) \in {"meta", "read"}
    BY DEF AfterList
  <2>3. PICK place \in {"push", "meta", "read"} : CallMoves(k, r(place))
    BY <1>1, <1>4, <2>2 DEF ListVersion, PushVersion, CallMoves, GoTo
  <2>4. /\ r(place) \in CallStates /\ r(place).at = place /\ r(place).version = call[k].version
        /\ r(place).new = call[k].new /\ r(place).meta = call[k].meta
        /\ r(place).since = call[k].since /\ r(place).proc = call[k].proc
    BY <1>1 DEF CallStates, FeedPlaces
  <2> HIDE DEF r
  <2>5. CallFits(r(place))
    BY <1>1, <2>1, <2>4 DEF CallFits
  <2> QED
    BY <1>2, <2>1, <2>3, <2>4, <2>5, CallGoesOn
<1>5. CASE LoadMeta(k)
  <2> DEFINE s == [call[k] EXCEPT !.at = "rules"]
             r == [s EXCEPT !.meta = meta]
  <2>1. s \in CallStates /\ s.at = "rules" /\ s.version = call[k].version /\ s.new = call[k].new
        /\ s.since = call[k].since /\ s.proc = call[k].proc
    BY <1>1 DEF CallStates, FeedPlaces
  <2>2. CallMoves(k, r)
    BY <1>1, <1>5 DEF LoadMeta, CallMoves, CallStates
  <2> HIDE DEF s
  <2>3. r \in CallStates /\ r.at = "rules" /\ r.meta = meta /\ r.version = call[k].version
        /\ r.new = call[k].new /\ r.since = call[k].since /\ r.proc = call[k].proc
    BY <1>1, <2>1 DEF CallStates
  <2> HIDE DEF r
  <2>4. CallFits(r)
    BY <1>1, <1>5, <2>3 DEF CallFits, LastInForce, LoadMeta
  <2> QED
    BY <1>2, <1>5, <2>2, <2>3, <2>4, CallGoesOn DEF LoadMeta, Shared
<1> QED
  BY <1>3, <1>4, <1>5

(* What a step owes for the call it moves and the parts it changes, when   *)
(* nothing that was stored is lost.                                        *)
LEMMA FeedStepKeeps ==
    ASSUME FeedInv, FeedTypeOK', FeedGrows, OneRuleSet', LastInForce',
           NEW k \in FeedCalls, NEW r \in CallStates, CallMoves(k, r), CallFits(r)', r.at # "write",
           feedOverlap' = feedOverlap,
           \/ meta' = meta /\ wanted' = wanted
           \/ /\ call[k].at = "write"
              /\ ~feedOverlap => meta'.active = wanted'.active /\ meta'.previous = wanted'.over,
           \A p \in FeedProcs : cache'[p] = cache[p] \/ \E c \in Caches : cache'[p] = c /\ CacheFits(c)'
    PROVE  FeedInv'
<1>1. /\ call' \in [FeedCalls -> CallStates] /\ call'[k] = r
      /\ \A o \in FeedCalls : o # k => call'[o] = call[o]
  BY CallMovesFacts DEF FeedInv
<1>2. CallsFit'
  <2>1. ASSUME NEW o \in FeedCalls, o # k
        PROVE  \E c \in CallStates : call'[o] = c /\ CallFits(c)'
    <3>1. PICK c \in CallStates : c = call[o]
      BY DEF FeedInv, FeedTypeOK
    <3>2. CallFits(c)
      BY <3>1 DEF FeedInv, CallsFit
    <3>3. CallFits(c)'
      BY <3>2, FitsStays DEF FeedInv
    <3> QED
      BY <1>1, <2>1, <3>1, <3>3
  <2>2. \A o \in FeedCalls : \E c : call'[o] = c /\ CallFits(c)'
    BY <1>1, <2>1
  <2> QED
    BY <2>2 DEF CallsFit, CallFits, Stored
<1>3. WritesAlone'
  BY <1>1 DEF FeedInv, WritesAlone
<1>4. ASSUME NEW p \in FeedProcs PROVE \E c : cache'[p] = c /\ CacheFits(c)'
  <2> SUFFICES ASSUME cache'[p] = cache[p] PROVE \E c : cache'[p] = c /\ CacheFits(c)'
    OBVIOUS
  <2>1. PICK c \in Caches : c = cache[p]
    BY DEF FeedInv, FeedTypeOK
  <2>2. CacheFits(c)
    BY <2>1 DEF FeedInv, FeedsInForce, CacheFits
  <2>3. CacheFits(c)'
    BY <2>2, CacheStays DEF FeedInv
  <2> QED
    BY <2>1, <2>3
<1>5. FeedsInForce'
  <2>1. meta'.active # NoVersion => feedRules'[meta'.active] # {}
    BY DEF LastInForce, Stored
  <2>2. \A p \in FeedProcs :
          cache'[p].full /\ cache'[p].version # NoVersion =>
            /\ cache'[p].rules \in everStored'[cache'[p].version]
            /\ lastActive'[cache'[p].version] >= cache'[p].at
    BY <1>4 DEF CacheFits
  <2>3. ~feedOverlap' => meta'.active = wanted'.active /\ meta'.previous = wanted'.over
    BY DEF FeedInv, FeedsInForce
  <2> QED
    BY <2>1, <2>2, <2>3 DEF FeedsInForce
<1> QED
  BY <1>2, <1>3, <1>5 DEF FeedInv

(* The load of the rules: the cache takes those of the version in force.   *)
LEMMA LoadRulesKeeps ==
    ASSUME FeedsAssumption, FeedInv, NEW k \in FeedCalls, LoadRules(k) PROVE FeedInv'
<1> DEFINE a == call[k].meta.active
           entered == [at |-> call[k].since, version |-> a, rules |-> Loaded(k), full |-> TRUE]
           s == [call[k] EXCEPT !.at = "store"]
           moved == IF call[k].new # {} THEN [s EXCEPT !.new = call[k].new \cup Loaded(k)] ELSE Over
<1>1. /\ call \in [FeedCalls -> CallStates] /\ call[k] \in CallStates /\ CallFits(call[k])
      /\ call[k].at = "rules" /\ call[k].meta \in Metas /\ a \in AVersion
      /\ FeedTypeOK /\ OneRuleSet /\ call[k].since \in Nat /\ feedNow \in Nat
  BY DEF FeedInv, FeedTypeOK, CallsFit, CallStates, Metas, LoadRules
<1>2. /\ UNCHANGED <<feedRules, meta, feedNow, everStored, lastActive, wanted, feedOverlap>>
      /\ cache' = [p \in FeedProcs |-> IF p # call[k].proc THEN cache[p] ELSE entered]
  BY DEF LoadRules, LoadedAt
<1>3. Loaded(k) \in SUBSET FeedCalls /\ (a # NoVersion => Loaded(k) \in everStored[a])
  <2>1. CASE a = NoVersion
    BY <2>1 DEF Loaded
  <2>2. CASE a # NoVersion
    <3>1. a \in Versions /\ feedRules[a] # {} /\ feedRules[a] \subseteq everStored[a]
          /\ feedRules[a] \in SUBSET SUBSET FeedCalls
      BY <1>1, <2>2 DEF CallFits, Stored, OneRuleSet, FeedTypeOK
    <3>2. PICK rules \in feedRules[a] : feedRules[a] = {rules}
      BY <1>1, <3>1 DEF OneRuleSet
    <3>3. UNION feedRules[a] = rules
      BY <3>2
    <3> QED
      BY <2>2, <3>1, <3>2, <3>3 DEF Loaded
  <2> QED
    BY <2>1, <2>2
<1>4. entered \in Caches /\ CacheFits(entered)
  BY <1>1, <1>3 DEF Caches, CallFits, CacheFits
<1> HIDE DEF entered
<1>5. CallMoves(k, moved)
  BY <1>1 DEF LoadRules, CallMoves, CallStates
<1>6. moved \in CallStates /\ CallFits(moved) /\ moved.at # "write"
  <2>1. CASE call[k].new # {}
    <3>1. s \in CallStates /\ s.at = "store" /\ s.version = call[k].version /\ s.meta = call[k].meta
          /\ s.since = call[k].since /\ s.proc = call[k].proc /\ s.new = call[k].new
      BY <1>1 DEF CallStates, FeedPlaces
    <3> HIDE DEF s
    <3>2. /\ moved \in CallStates /\ moved.at = "store" /\ moved.version = call[k].version
          /\ moved.meta = call[k].meta /\ moved.since = call[k].since /\ moved.proc = call[k].proc
      BY <1>1, <1>3, <2>1, <3>1 DEF CallStates
    <3> HIDE DEF moved
    <3> QED
      BY <1>1, <2>1, <3>2 DEF CallFits
  <2>2. CASE call[k].new = {}
    BY <1>1, <2>2, OverFits
  <2> QED
    BY <2>1, <2>2
<1> HIDE DEF moved
<1>7. PICK entry \in Caches, r \in CallStates : entry = entered /\ r = moved
  BY <1>4, <1>6
<1>8. /\ cache' \in [FeedProcs -> Caches]
      /\ \A p \in FeedProcs : cache'[p] = cache[p] \/ cache'[p] = entry
  BY <1>1, <1>2, <1>7 DEF FeedTypeOK
<1>9. CallMoves(k, r) /\ CallFits(r) /\ CacheFits(entry) /\ r.at # "write"
  BY <1>4, <1>5, <1>6, <1>7
<1>10. FeedTypeOK'
  BY <1>1, <1>2, <1>8, <1>9, CallMovesFacts DEF FeedTypeOK
<1>11. FeedGrows
  BY <1>1, <1>2 DEF FeedGrows, FeedTypeOK
<1>12. OneRuleSet' /\ LastInForce'
  BY <1>2 DEF FeedInv, OneRuleSet, LastInForce, Stored
<1>13. CallFits(r)'
  BY <1>2, <1>9 DEF Stored, CallFits
<1>14. CacheFits(entry)'
  BY <1>2, <1>9 DEF CacheFits
<1>15. \A p \in FeedProcs : cache'[p] = cache[p] \/ \E c \in Caches : cache'[p] = c /\ CacheFits(c)'
  BY <1>8, <1>14
<1> QED
  BY <1>2, <1>9, <1>10, <1>11, <1>12, <1>13, <1>15, FeedStepKeeps

(* The store of the rules of a version.                                    *)
LEMMA StoreRulesKeeps ==
    ASSUME FeedsAssumption, FeedInv, NEW k \in FeedCalls, StoreRules(k) PROVE FeedInv'
<1> DEFINE v == call[k].version
           listed == [call[k] EXCEPT !.at = "list"]
<1>1. /\ call \in [FeedCalls -> CallStates] /\ call[k] \in CallStates /\ CallFits(call[k])
      /\ FeedTypeOK /\ OneRuleSet /\ LastInForce /\ v \in Versions
      /\ call[k].new \in SUBSET FeedCalls /\ feedNow \in Nat
  BY DEF FeedInv, FeedTypeOK, CallsFit, CallFits, CallStates, StoreRules
<1>2. /\ UNCHANGED <<meta, cache, lastActive, wanted, feedOverlap, feedNow>>
      /\ feedRules' \in [Versions -> SUBSET SUBSET FeedCalls] /\ feedRules'[v] = {call[k].new}
      /\ everStored' \in [Versions -> SUBSET SUBSET FeedCalls]
      /\ everStored'[v] = everStored[v] \cup {call[k].new}
      /\ \A w \in Versions : w # v => feedRules'[w] = feedRules[w] /\ everStored'[w] = everStored[w]
  BY <1>1 DEF StoreRules, FeedTypeOK
<1>3. PICK r \in CallStates :
        /\ r = listed /\ r.at = "list" /\ r.version = v /\ r.meta = call[k].meta
        /\ r.new = call[k].new /\ r.since = call[k].since /\ r.proc = call[k].proc
  <2>1. /\ listed \in CallStates /\ listed.at = "list" /\ listed.version = v
        /\ listed.meta = call[k].meta /\ listed.new = call[k].new
        /\ listed.since = call[k].since /\ listed.proc = call[k].proc
    BY <1>1 DEF CallStates, FeedPlaces
  <2> HIDE DEF listed
  <2> QED
    BY <2>1
<1>4. CallMoves(k, r) /\ call[k].at = "store"
  BY <1>1, <1>3 DEF StoreRules, GoTo, CallMoves
<1> HIDE DEF listed
<1>5. FeedTypeOK'
  BY <1>1, <1>2, <1>3, <1>4, CallMovesFacts DEF FeedTypeOK
<1>6. FeedGrows
  <2>1. \A w \in Versions : lastActive[w] \in Nat
    BY <1>1 DEF FeedTypeOK
  <2>2. \A w \in Versions : lastActive'[w] >= lastActive[w]
    BY <1>2, <2>1
  <2>3. \A w \in Versions : feedRules[w] # {} => feedRules'[w] # {}
    BY <1>2
  <2>4. \A w \in Versions : everStored[w] \subseteq everStored'[w]
    BY <1>2
  <2> QED
    BY <1>1, <1>2, <2>2, <2>3, <2>4 DEF FeedGrows
<1>7. OneRuleSet'
  BY <1>1, <1>2 DEF OneRuleSet
<1>8. \A w : Stored(w) => w \in Versions /\ feedRules'[w] # {}
  BY <1>2 DEF Stored
<1>9. LastInForce'
  BY <1>1, <1>2, <1>8 DEF LastInForce, Stored
<1>10. CallFits(r)'
  <2>1. v \in Versions /\ feedRules'[v] # {} /\ r.since <= feedNow'
    BY <1>1, <1>2, <1>3 DEF CallFits
  <2>2. r.meta.active # NoVersion => r.meta.active \in Versions /\ feedRules'[r.meta.active] # {}
    BY <1>1, <1>3, <1>8 DEF CallFits
  <2>3. r.proc \in FeedProcs
    BY <1>1, <1>3, <1>4 DEF CallFits
  <2> QED
    BY <1>3, <2>1, <2>2, <2>3 DEF CallFits, Stored
<1> QED
  BY <1>2, <1>3, <1>4, <1>5, <1>6, <1>7, <1>9, <1>10, FeedStepKeeps

(* The record is written: one version leaves force and another enters it.  *)
LEMMA WriteMetaKeeps ==
    ASSUME FeedsAssumption, FeedInv, NEW k \in FeedCalls, WriteMeta(k) PROVE FeedInv'
<1> DEFINE place == IF call[k].op = "activate" THEN "list" ELSE "meta"
           x == [call[k] EXCEPT !.at = place]
           y == [x EXCEPT !.new = {}]
           z == [y EXCEPT !.since = feedNow]
           n == NewMeta(k)
<1>1. /\ call \in [FeedCalls -> CallStates] /\ call[k] \in CallStates /\ CallFits(call[k])
      /\ FeedTypeOK /\ OneRuleSet /\ LastInForce /\ WritesAlone /\ feedNow \in Nat
      /\ call[k].at = "write" /\ Stored(call[k].version) /\ call[k].version \in AVersion
      /\ call[k].meta \in Metas /\ meta \in Metas
  BY DEF FeedInv, FeedTypeOK, CallsFit, CallFits, CallStates, WriteMeta
<1>2. /\ UNCHANGED <<feedRules, versions, cache, everStored, feedOverlap, feedNow>>
      /\ meta' = n
      /\ lastActive' = [v \in Versions |-> IF v \in {meta.active, n.active}
                                             THEN feedNow ELSE lastActive[v]]
  BY DEF WriteMeta
<1>3. /\ n \in Metas /\ (n.active # NoVersion => Stored(n.active))
      /\ call[k].op = "stage" => n.active = call[k].meta.active /\ n.previous = call[k].meta.previous
      /\ call[k].op # "stage" => n.active = call[k].version /\ n.previous = call[k].meta.active
  BY <1>1 DEF NewMeta, Metas, AVersion, CallFits
<1> HIDE DEF n
<1>4. /\ lastActive' \in [Versions -> Nat]
      /\ \A v \in Versions : lastActive'[v] = IF v \in {meta.active, n.active}
                                                THEN feedNow ELSE lastActive[v]
      /\ \A v \in Versions : lastActive[v] <= feedNow
      /\ \A v \in Versions : lastActive[v] \in Nat
  BY <1>1, <1>2 DEF FeedTypeOK, LastInForce
<1>5. FeedGrows /\ OneRuleSet'
  BY <1>1, <1>2, <1>4 DEF FeedGrows, OneRuleSet, FeedTypeOK
<1>6. LastInForce'
  <2>1. \A v \in Versions : lastActive'[v] <= feedNow
    BY <1>1, <1>4
  <2>2. n.active # NoVersion => /\ n.active \in Versions /\ feedRules[n.active] # {}
                                /\ lastActive'[n.active] = feedNow
    BY <1>3, <1>4 DEF Stored
  <2> QED
    BY <1>2, <2>1, <2>2 DEF LastInForce, Stored
<1>7. CallMoves(k, z)
  BY <1>1 DEF WriteMeta, CallMoves, CallStates
<1>8. x \in CallStates /\ x.at = place /\ x.version = call[k].version /\ x.meta = call[k].meta
      /\ x.proc = call[k].proc
  BY <1>1 DEF CallStates, FeedPlaces
<1>9. place \in {"list", "meta"}
  OBVIOUS
<1> HIDE DEF x, place
<1>10. y \in CallStates /\ y.at = place /\ y.version = call[k].version /\ y.meta = call[k].meta
       /\ y.proc = call[k].proc /\ y.new = {}
  BY <1>8 DEF CallStates
<1> HIDE DEF y
<1>11. PICK r \in CallStates :
         /\ r = z /\ r.at = place /\ r.version = call[k].version /\ r.meta = call[k].meta
         /\ r.proc = call[k].proc /\ r.new = {} /\ r.since = feedNow
  <2>1. /\ z \in CallStates /\ z.at = place /\ z.version = call[k].version
        /\ z.meta = call[k].meta /\ z.proc = call[k].proc /\ z.new = {} /\ z.since = feedNow
    BY <1>1, <1>10 DEF CallStates
  <2> HIDE DEF z
  <2> QED
    BY <2>1
<1> HIDE DEF z
<1>12. CallFits(r)'
  <2>1. r.at \in {"list", "meta"} /\ r.since <= feedNow'
    BY <1>1, <1>2, <1>9, <1>11
  <2>2. r.version \in Versions /\ feedRules'[r.version] # {}
    BY <1>1, <1>2, <1>11 DEF Stored
  <2>3. r.meta.active # NoVersion => r.meta.active \in Versions /\ feedRules'[r.meta.active] # {}
    BY <1>1, <1>2, <1>11 DEF CallFits, Stored
  <2>4. r.proc \in FeedProcs
    BY <1>1, <1>11 DEF CallFits
  <2> QED
    BY <1>11, <2>1, <2>2, <2>3, <2>4 DEF CallFits, Stored
<1>13. /\ wanted' \in [active : AVersion, over : AVersion]
       /\ ~feedOverlap => n.active = wanted'.active /\ n.previous = wanted'.over
  <2>1. meta.active \in AVersion /\ (~feedOverlap => call[k].meta = meta)
    BY <1>1 DEF Metas, WritesAlone
  <2>2. CASE call[k].op = "stage"
    BY <1>1, <1>3, <2>1, <2>2 DEF WriteMeta, FeedInv, FeedTypeOK, FeedsInForce
  <2>3. CASE call[k].op # "stage"
    <3>1. wanted' = [active |-> call[k].version, over |-> meta.active]
      BY <2>3 DEF WriteMeta
    <3> QED
      BY <1>1, <1>3, <2>1, <2>3, <3>1
  <2> QED
    BY <2>2, <2>3
<1>14. FeedTypeOK'
  <2>1. call' \in [FeedCalls -> CallStates]
    BY <1>1, <1>7, <1>11, CallMovesFacts
  <2> QED
    BY <1>1, <1>2, <1>3, <1>4, <1>13, <2>1 DEF FeedTypeOK
<1>15. r.at # "write" /\ feedOverlap' = feedOverlap /\ cache' = cache
  BY <1>2, <1>9, <1>11
<1>16. ~feedOverlap => meta'.active = wanted'.active /\ meta'.previous = wanted'.over
  BY <1>2, <1>13
<1> QED
  BY <1>1, <1>5, <1>6, <1>7, <1>11, <1>12, <1>14, <1>15, <1>16, FeedStepKeeps

(* Time passes for the version in force.                                   *)
LEMMA FeedTickKeeps == ASSUME FeedsAssumption, FeedInv, FeedTick PROVE FeedInv'
<1>1. /\ FeedTypeOK /\ OneRuleSet /\ CallsFit /\ LastInForce /\ WritesAlone /\ FeedsInForce
      /\ feedNow \in Nat /\ feedNow' = feedNow + 1
      /\ UNCHANGED <<feedRules, meta, cache, call, everStored, wanted, feedOverlap>>
      /\ lastActive \in [Versions -> Nat]
  BY DEF FeedInv, FeedTypeOK, FeedTick
<1>2. /\ lastActive' \in [Versions -> Nat]
      /\ \A v \in Versions : /\ lastActive[v] \in Nat /\ lastActive[v] <= feedNow
                              /\ lastActive'[v] = IF v = meta.active THEN feedNow + 1 ELSE lastActive[v]
  BY <1>1 DEF FeedTick, LastInForce
<1>3. FeedTypeOK' /\ OneRuleSet' /\ WritesAlone'
  BY <1>1, <1>2 DEF FeedTypeOK, OneRuleSet, WritesAlone
<1>4. FeedGrows
  BY <1>1, <1>2 DEF FeedGrows
<1>5. CallsFit'
  <2>1. ASSUME NEW k \in FeedCalls PROVE \E c : call'[k] = c /\ CallFits(c)'
    <3>1. PICK c \in CallStates : c = call[k]
      BY <1>1 DEF FeedTypeOK
    <3>2. CallFits(c)'
      BY <1>1, <1>3, <1>4, <3>1, FitsStays DEF CallsFit
    <3> QED
      BY <1>1, <3>1, <3>2
  <2> QED
    BY <2>1 DEF CallsFit, CallFits, Stored
<1>6. LastInForce'
  <2>1. \A v \in Versions : lastActive'[v] <= feedNow'
    BY <1>1, <1>2
  <2>2. meta.active # NoVersion => /\ meta.active \in Versions /\ feedRules[meta.active] # {}
                                   /\ lastActive'[meta.active] = feedNow'
    BY <1>1, <1>2 DEF LastInForce, Stored
  <2> QED
    BY <1>1, <2>1, <2>2 DEF LastInForce, Stored
<1>7. FeedsInForce'
  <2>1. ASSUME NEW p \in FeedProcs PROVE \E c : cache'[p] = c /\ CacheFits(c)'
    <3>1. PICK c \in Caches : c = cache[p]
      BY <1>1 DEF FeedTypeOK
    <3>2. CacheFits(c)
      BY <1>1, <3>1 DEF FeedsInForce, CacheFits
    <3>3. CacheFits(c)'
      BY <1>1, <1>3, <1>4, <3>2, CacheStays
    <3> QED
      BY <1>1, <3>1, <3>3
  <2>2. \A p \in FeedProcs :
          cache'[p].full /\ cache'[p].version # NoVersion =>
            /\ cache'[p].rules \in everStored'[cache'[p].version]
            /\ lastActive'[cache'[p].version] >= cache'[p].at
    BY <2>1 DEF CacheFits
  <2> QED
    BY <1>1, <2>2 DEF FeedsInForce
<1> QED
  BY <1>3, <1>5, <1>6, <1>7 DEF FeedInv

(* No version is stored, no call has begun.                                *)
LEMMA FeedInitCoherent == ASSUME FeedsAssumption, FeedInit PROVE FeedInv
<1>1. /\ NewCall \in CallStates /\ NewCall.at = "new" /\ NewCall.new = {} /\ NewCall.since = 0
      /\ NewCall.meta.active = NoVersion /\ NoMeta \in Metas
  BY DEF NewCall, CallOf, CallStates, NoMeta, Metas, FeedPlaces, AVersion
<1>2. FeedTypeOK
  BY <1>1 DEF FeedInit, FeedTypeOK, Caches, AVersion
<1>3. CallsFit /\ WritesAlone
  BY <1>1 DEF FeedInit, CallsFit, CallFits, WritesAlone
<1>4. OneRuleSet /\ LastInForce /\ FeedsInForce
  BY DEF FeedInit, OneRuleSet, LastInForce, FeedsInForce, NoMeta
<1> QED
  BY <1>2, <1>3, <1>4 DEF FeedInv

(* threat_intel_store.py: the version in force is stored, a cache holds    *)
(* rules its version had and that version was in force since the cache was *)
(* loaded, and unless two calls read the record before either wrote it the *)
(* version in force is the one activated last and the version to go back   *)
(* to the one it replaced: however many calls of however many processes    *)
(* interleave, and whatever happens to the list of versions.               *)
THEOREM FeedsFollow == FeedSpec => []FeedsInForce
<1>1. FeedsAssumption
  BY FeedsAssumption
<1>2. FeedInit => FeedInv
  BY <1>1, FeedInitCoherent
<1>3. FeedInv /\ [FeedNext]_feedVars => FeedInv'
  <2> SUFFICES ASSUME FeedInv, [FeedNext]_feedVars PROVE FeedInv'
    OBVIOUS
  <2>1. ASSUME NEW k \in FeedCalls,
               FeedStart(k) \/ RollbackTarget(k) \/ ReadMeta(k) \/ WriteMeta(k) \/ StoreRules(k)
                 \/ ListVersion(k) \/ PushVersion(k) \/ LoadMeta(k) \/ LoadRules(k)
        PROVE  FeedInv'
    BY <1>1, <2>1, FeedBegins, FeedReads, WriteMetaKeeps, StoreRulesKeeps, LoadRulesKeeps
  <2>2. CASE UNCHANGED feedVars
    BY <2>2 DEF feedVars, FeedInv, FeedTypeOK, OneRuleSet, CallsFit, CallFits, LastInForce,
                Stored, WritesAlone, FeedsInForce
  <2> QED
    BY <1>1, <2>1, <2>2, FeedTickKeeps DEF FeedNext
<1>4. FeedInv => FeedsInForce
  BY DEF FeedInv
<1> QED
  BY <1>2, <1>3, <1>4, PTL DEF FeedSpec

-----------------------------------------------------------------------------
(* The usage quotas.  First the sums of the shares of streams.             *)
SumsOf(share, n, f) ==
    f = [q \in 0 .. n |-> IF q = 0 THEN 0 ELSE f[q - 1] + share[q]]

(* A set of numbers that is not empty has a least one.                     *)
LEMMA LeastNumber ==
    ASSUME NEW D, D \subseteq Nat, D # {}
    PROVE  \E d \in D : \A e \in D : d <= e
<1> DEFINE less == OpToRel(<, Nat)
<1>1. \E d \in D : \A e \in D : ~(<<e, d>> \in less)
  <2> HIDE DEF less
  <2>1. IsWellFoundedOn(less, Nat)
    BY NatLessThanWellFounded DEF less
  <2> QED
    BY <2>1, WFMin, Zenon
<1>2. \A d, e \in Nat : e < d => <<e, d>> \in less
  BY DEF OpToRel
<1>3. PICK d \in D : \A e \in D : ~(<<e, d>> \in less)
  BY <1>1
<1> HIDE DEF less
<1>4. \A e \in D : ~(e < d)
  BY <1>2, <1>3
<1> QED
  BY <1>4

(* The recursion of Sums has a solution: from the least number of streams  *)
(* without one a step down leads to a number with one, which extends.      *)
LEMMA SumsExist ==
    ASSUME QuotasAssumption, NEW share PROVE \E f : SumsOf(share, MaxStreams, f)
<1> DEFINE D == {n \in Nat : ~\E f : SumsOf(share, n, f)}
<1>1. ASSUME D # {} PROVE FALSE
  <2>1. PICK d \in D : \A e \in D : d <= e
    BY <1>1, LeastNumber
  <2>2. CASE d = 0
    <3> DEFINE f == [q \in 0 .. 0 |-> 0]
    <3>1. SumsOf(share, 0, f)
      BY DEF SumsOf
    <3> QED
      BY <2>2, <3>1
  <2>3. CASE d # 0
    <3>1. d - 1 \in Nat /\ d - 1 \notin D
      BY <2>1, <2>3
    <3>2. PICK g : SumsOf(share, d - 1, g)
      BY <3>1
    <3> DEFINE f == [q \in 0 .. d |-> IF q = d THEN g[d - 1] + share[d] ELSE g[q]]
    <3>3. \A q \in 0 .. d - 1 : g[q] = IF q = 0 THEN 0 ELSE g[q - 1] + share[q]
      BY <3>2, Zenon DEF SumsOf
    <3>4. \A q \in 0 .. d : f[q] = IF q = 0 THEN 0 ELSE f[q - 1] + share[q]
      BY <2>1, <2>3, <3>3
    <3>5. SumsOf(share, d, f)
      BY <3>4 DEF SumsOf
    <3> QED
      BY <3>5, Zenon
  <2> QED
    BY <2>2, <2>3
<1> QED
  BY <1>1 DEF QuotasAssumption

LEMMA SumsFacts ==
    ASSUME QuotasAssumption, NEW share
    PROVE  /\ Sums(share)[0] = 0
           /\ \A q \in Streams : Sums(share)[q] = Sums(share)[q - 1] + share[q]
<1>1. SumsOf(share, MaxStreams, Sums(share))
  BY SumsExist, Zenon DEF Sums, SumsOf
<1>2. \A q \in 0 .. MaxStreams :
        Sums(share)[q] = IF q = 0 THEN 0 ELSE Sums(share)[q - 1] + share[q]
  BY <1>1, Zenon DEF SumsOf
<1> QED
  BY <1>2 DEF Streams, QuotasAssumption

(* Nothing but zeros adds up to zero.                                      *)
LEMMA SumOfNothing ==
    ASSUME QuotasAssumption, NEW share, \A q \in Streams : share[q] = 0
    PROVE  Sums(share)[MaxStreams] = 0
<1> DEFINE D == {n \in 0 .. MaxStreams : Sums(share)[n] # 0}
<1>1. ASSUME D # {} PROVE FALSE
  <2>1. PICK d \in D : \A e \in D : d <= e
    <3>1. D \subseteq Nat
      OBVIOUS
    <3> QED
      BY <1>1, <3>1, LeastNumber
  <2>2. d # 0 /\ d \in Streams /\ d - 1 \in 0 .. MaxStreams /\ d - 1 \notin D
    BY <2>1, SumsFacts DEF Streams, QuotasAssumption
  <2> QED
    BY <2>1, <2>2, SumsFacts
<1> QED
  BY <1>1 DEF QuotasAssumption

LEMMA SumIsNat ==
    ASSUME QuotasAssumption, NEW share, \A q \in Streams : share[q] \in Nat
    PROVE  \A n \in 0 .. MaxStreams : Sums(share)[n] \in Nat
<1> DEFINE D == {n \in 0 .. MaxStreams : Sums(share)[n] \notin Nat}
<1>1. ASSUME D # {} PROVE FALSE
  <2>1. PICK d \in D : \A e \in D : d <= e
    <3>1. D \subseteq Nat
      OBVIOUS
    <3> QED
      BY <1>1, <3>1, LeastNumber
  <2>2. d # 0 /\ d \in Streams /\ d - 1 \in 0 .. MaxStreams /\ d - 1 \notin D
    BY <2>1, SumsFacts DEF Streams, QuotasAssumption
  <2> QED
    BY <2>1, <2>2, SumsFacts
<1> QED
  BY <1>1 DEF QuotasAssumption

(* When one share grows, the sum grows by as much.                         *)
LEMMA SumGrows ==
    ASSUME QuotasAssumption, NEW a, NEW b, NEW p \in Streams, NEW more \in Nat,
           \A q \in Streams : a[q] \in Nat /\ b[q] = IF q = p THEN a[q] + more ELSE a[q]
    PROVE  Sums(b)[MaxStreams] = Sums(a)[MaxStreams] + more
<1> DEFINE D == {n \in 0 .. MaxStreams : Sums(b)[n] # Sums(a)[n] + (IF n < p THEN 0 ELSE more)}
<1>0. \A n \in 0 .. MaxStreams : Sums(a)[n] \in Nat
  BY SumIsNat
<1>1. ASSUME D # {} PROVE FALSE
  <2>1. PICK d \in D : \A e \in D : d <= e
    <3>1. D \subseteq Nat
      OBVIOUS
    <3> QED
      BY <1>1, <3>1, LeastNumber
  <2>2. d # 0 /\ d \in Streams /\ d - 1 \in 0 .. MaxStreams /\ d - 1 \notin D
    BY <2>1, SumsFacts DEF Streams, QuotasAssumption
  <2>3. /\ Sums(a)[d] = Sums(a)[d - 1] + a[d] /\ Sums(b)[d] = Sums(b)[d - 1] + b[d]
        /\ Sums(a)[d] \in Nat /\ Sums(a)[d - 1] \in Nat
    BY <1>0, <2>2, SumsFacts
  <2> QED
    BY <2>1, <2>2, <2>3 DEF Streams, QuotasAssumption
<1> QED
  BY <1>0, <1>1 DEF Streams, QuotasAssumption

-----------------------------------------------------------------------------
(* Windows.                                                                *)
LEMMA Division ==
    ASSUME NEW d \in Nat \ {0}, NEW m \in Nat
    PROVE  /\ m \div d \in Nat /\ m \div d <= m
           /\ (m \div d) * d <= m /\ m < (m \div d) * d + d
OBVIOUS

LEMMA DivisionGrows ==
    ASSUME NEW d \in Nat \ {0}, NEW m \in Nat, NEW n \in Nat, m <= n
    PROVE  m \div d <= n \div d
<1> DEFINE x == m \div d  y == n \div d
<1>1. x \in Nat /\ y \in Nat /\ x * d <= m /\ n < y * d + d
  BY Division
<1>2. ASSUME y + 1 <= x PROVE FALSE
  <2> HIDE DEF x, y
  <2>1. (y + 1) * d <= x * d
    BY <1>1, <1>2
  <2>2. (y + 1) * d = y * d + d
    BY <1>1
  <2>3. y * d \in Nat /\ x * d \in Nat
    BY <1>1
  <2> QED
    BY <1>1, <2>1, <2>2, <2>3
<1> QED
  BY <1>1, <1>2

(* A day and a month have minutes.                                         *)
LEMMA Lengths ==
    ASSUME QuotasAssumption
    PROVE  /\ MinutesPerDay \in Nat \ {0}
           /\ MinutesPerDay * DaysPerMonth \in Nat \ {0}
           /\ (DaysPerMonth + 1) * MinutesPerDay = MinutesPerDay * DaysPerMonth + MinutesPerDay
<1>1. MinutesPerDay \in Nat \ {0} /\ DaysPerMonth \in Nat \ {0}
  BY DEF QuotasAssumption
<1> QED
  BY <1>1

(* The end of a window is after each of its minutes, and not after what a  *)
(* reservation in it sets as the end of its counter.                       *)
LEMMA WindowFacts ==
    ASSUME QuotasAssumption, NEW c \in Counters, NEW m \in 0 .. MaxMinutes
    PROVE  /\ Window(c, m) \in Nat /\ <<c, Window(c, m)>> \in Keys
           /\ m < WindowEnds(c, Window(c, m))
           /\ WindowEnds(c, Window(c, m)) <= m + TimeToLive(c)
           /\ TimeToLive(c) \in Nat \ {0}
<1> DEFINE day == MinutesPerDay  month == MinutesPerDay * DaysPerMonth
<1>1. /\ day \in Nat \ {0} /\ month \in Nat \ {0} /\ m \in Nat /\ MaxMinutes \in Nat
      /\ (DaysPerMonth + 1) * MinutesPerDay = month + day
  BY Lengths DEF QuotasAssumption
<1>2. ASSUME NEW d \in Nat \ {0}
      PROVE  /\ m \div d \in 0 .. MaxMinutes
             /\ m < (m \div d + 1) * d /\ (m \div d + 1) * d <= m + d
  <2> DEFINE x == m \div d
  <2>1. x \in Nat /\ x <= m /\ x * d <= m /\ m < x * d + d
    BY <1>1, Division
  <2> HIDE DEF x
  <2>2. (x + 1) * d = x * d + d /\ x * d \in Nat
    BY <2>1
  <2> QED
    BY <1>1, <2>1, <2>2 DEF x
<1>3. CASE c = "day"
  <2>1. Window(c, m) = m \div day /\ WindowEnds(c, m \div day) = (m \div day + 1) * day
        /\ TimeToLive(c) = 2 * day
    BY <1>3 DEF Window, WindowEnds, TimeToLive
  <2>2. /\ m \div day \in 0 .. MaxMinutes
        /\ m < (m \div day + 1) * day /\ (m \div day + 1) * day <= m + day
    BY <1>1, <1>2
  <2> DEFINE x == m \div day
  <2>3. x \in Nat /\ (x + 1) * day \in Nat /\ 2 * day \in Nat \ {0} /\ day <= 2 * day
    BY <1>1, <2>2
  <2> HIDE DEF day, month
  <2> QED
    BY <1>1, <2>1, <2>2, <2>3 DEF Keys
<1>4. CASE c = "month"
  <2>1. Window(c, m) = m \div month /\ WindowEnds(c, m \div month) = (m \div month + 1) * month
        /\ TimeToLive(c) = month + day
    BY <1>1, <1>4 DEF Window, WindowEnds, TimeToLive
  <2>2. /\ m \div month \in 0 .. MaxMinutes
        /\ m < (m \div month + 1) * month /\ (m \div month + 1) * month <= m + month
    BY <1>1, <1>2
  <2> DEFINE x == m \div month
  <2> HIDE DEF day, month
  <2>3. x \in Nat /\ (x + 1) * month \in Nat
    BY <1>1, <2>2
  <2> QED
    BY <1>1, <2>1, <2>2, <2>3 DEF Keys
<1>5. CASE c \notin {"day", "month"}
  BY <1>1, <1>5 DEF Window, WindowEnds, TimeToLive, Keys
<1> QED
  BY <1>3, <1>4, <1>5

(* A later window ends later.                                              *)
LEMMA EndsFollow ==
    ASSUME QuotasAssumption, NEW c \in Counters, NEW v \in Nat, NEW w \in Nat, v <= w
    PROVE  /\ WindowEnds(c, v) \in Nat /\ WindowEnds(c, w) \in Nat
           /\ WindowEnds(c, v) <= WindowEnds(c, w)
<1>1. ASSUME NEW d \in Nat \ {0}
      PROVE  (v + 1) * d \in Nat /\ (w + 1) * d \in Nat /\ (v + 1) * d <= (w + 1) * d
  OBVIOUS
<1> QED
  BY <1>1, Lengths DEF WindowEnds

(* Windows come one after the other.                                       *)
LEMMA WindowsFollow ==
    ASSUME QuotasAssumption, NEW c \in Counters, NEW m \in Nat, NEW n \in Nat, m <= n
    PROVE  Window(c, m) <= Window(c, n)
BY Lengths, DivisionGrows DEF Window

(* The shares of the streams in a window, and their sum.                   *)
LEMMA SharesFacts ==
    ASSUME QuotasAssumption, QuotaTypeOK, NEW c, NEW w
    PROVE  /\ \A q \in Streams : Shares(c, w)[q] \in Nat
           /\ Total(c, w) \in Nat
<1>1. \A q \in Streams : Shares(c, w)[q] \in Nat
  BY DEF Shares, QuotaTypeOK, Amount
<1> QED
  BY <1>1, SumIsNat DEF Total, QuotasAssumption

(* A limit is a number, and no step changes it.                            *)
LEMMA LimitFacts ==
    ASSUME QuotasAssumption, QuotaTypeOK, NEW c \in Counters PROVE Limit(c) \in Nat
BY DEF QuotasAssumption, QuotaTypeOK, Limit

(* A step that lets nothing through leaves the totals as they are.         *)
LEMMA TotalsStay ==
    ASSUME \A q \in Streams : LetThrough(q)' = LetThrough(q),
           \A q \in Streams : LetThrough(q) =>
              stream'[q].began = stream[q].began /\ stream'[q].prompt = stream[q].prompt,
           NEW c, NEW w
    PROVE  Total(c, w)' = Total(c, w)
<1>1. Shares(c, w)' = Shares(c, w)
  BY DEF Shares, Window, Amount
<1> QED
  BY <1>1 DEF Total, Sums

(* A step that lets a stream through adds its share to its windows.        *)
LEMMA TotalsGrow ==
    ASSUME QuotasAssumption, QuotaTypeOK, NEW q \in Streams, NEW tokens \in Nat,
           stream[q].at = "new",
           stream' = [stream EXCEPT ![q] = [at |-> "runs", began |-> minute, prompt |-> tokens]],
           NEW c \in Counters, NEW w
    PROVE  Total(c, w)' = Total(c, w) + (IF w = Window(c, minute) THEN Amount(c, tokens) ELSE 0)
<1> DEFINE more == IF w = Window(c, minute) THEN Amount(c, tokens) ELSE 0
           b == Shares(c, w)'
<1>1. more \in Nat
  BY DEF Amount
<1>2. \A o \in Streams : Shares(c, w)[o] \in Nat
  BY SharesFacts
<1>3. \A o \in Streams : b[o] = IF o = q THEN Shares(c, w)[o] + more ELSE Shares(c, w)[o]
  <2>1. ASSUME NEW o \in Streams, o # q PROVE b[o] = Shares(c, w)[o]
    <3>1. stream'[o] = stream[o]
      BY <2>1 DEF QuotaTypeOK
    <3> QED
      BY <3>1 DEF Shares, LetThrough, Window, Amount
  <2>2. Shares(c, w)[q] = 0
    BY DEF Shares, LetThrough
  <2>3. stream'[q] = [at |-> "runs", began |-> minute, prompt |-> tokens]
    BY DEF QuotaTypeOK
  <2>4. b[q] = more
    BY <2>3 DEF Shares, LetThrough, Window, Amount
  <2> QED
    BY <1>1, <2>1, <2>2, <2>4
<1>4. Sums(b)[MaxStreams] = Sums(Shares(c, w))[MaxStreams] + more
  <2> HIDE DEF b, more
  <2> QED
    BY <1>1, <1>2, <1>3, SumGrows
<1> QED
  BY <1>4 DEF Total, Sums

-----------------------------------------------------------------------------
(* What the actions do to counters and totals.                             *)
CounterStates == [n : Nat, until : Nat \cup {Forever}]
StreamStates  == [at : {"new", "refused", "runs", "done"}, began : 0 .. MaxMinutes, prompt : Nat]

LEMMA QuotaStarts ==
    ASSUME QuotasAssumption, QuotaInit PROVE QuotaInv
<1>1. QuotaTypeOK
  BY DEF QuotaInit, QuotaTypeOK, Absent, QuotasAssumption
<1>2. \A q \in Streams : stream[q].began = 0 /\ ~LetThrough(q)
  BY DEF QuotaInit, LetThrough
<1>3. \A c, w : Total(c, w) = 0
  <2> TAKE c, w
  <2>1. \A q \in Streams : Shares(c, w)[q] = 0
    BY <1>2 DEF Shares
  <2> QED
    BY <2>1, SumOfNothing DEF Total
<1>4. \A k \in Keys : counter[k] = Absent /\ Absent.n = 0
  BY DEF QuotaInit, Absent
<1>5. \A k \in Keys : k[1] \in Counters
  BY DEF Keys
<1> QED
  BY <1>1, <1>2, <1>3, <1>4, <1>5, LimitFacts DEF QuotaInv, QuotaInit

(* What a reservation does to the counters of the windows of this minute.  *)
LEMMA ReservedFacts ==
    ASSUME QuotasAssumption, QuotaInv, NEW tokens \in Nat, counter' = Reserved(tokens)
    PROVE  /\ counter' \in [Keys -> CounterStates]
           /\ \A c \in Counters : LET k == <<c, Window(c, minute)>> IN
                /\ counter'[k].n = counter[k].n + Amount(c, tokens)
                /\ counter'[k].until = minute + TimeToLive(c) /\ counter'[k] # Absent
                /\ counter'[k].until >= WindowEnds(c, Window(c, minute))
           /\ \A k \in Keys : k[2] # Window(k[1], minute) => counter'[k] = counter[k]
<1>1. minute \in 0 .. MaxMinutes /\ MaxMinutes \in Nat /\ counter \in [Keys -> CounterStates]
  BY DEF QuotasAssumption, QuotaInv, QuotaTypeOK, CounterStates
<1>2. ASSUME NEW c \in Counters
      PROVE  LET k == <<c, Window(c, minute)>> IN
                /\ k \in Keys
                /\ counter'[k] = [n |-> counter[k].n + Amount(c, tokens), until |-> minute + TimeToLive(c)]
                /\ minute + TimeToLive(c) \in Nat \ {0}
                /\ WindowEnds(c, Window(c, minute)) <= minute + TimeToLive(c)
  BY <1>1, WindowFacts DEF Reserved
<1>3. \A k \in Keys : k[2] # Window(k[1], minute) => counter'[k] = counter[k]
  BY DEF Reserved
<1>4. \A k \in Keys : k[1] \in Counters /\ k = <<k[1], k[2]>>
  BY DEF Keys
<1>5. \A c : Amount(c, tokens) \in Nat
  BY DEF Amount
<1>6. ASSUME NEW k \in Keys PROVE counter'[k] \in CounterStates
  <2>1. CASE k[2] = Window(k[1], minute)
    <3>1. k[1] \in Counters /\ k = <<k[1], Window(k[1], minute)>> /\ counter[k] \in CounterStates
      BY <1>1, <1>4, <2>1
    <3>2. /\ counter'[k] = [n |-> counter[k].n + Amount(k[1], tokens),
                            until |-> minute + TimeToLive(k[1])]
          /\ minute + TimeToLive(k[1]) \in Nat
      BY <1>2, <3>1
    <3>3. counter[k].n + Amount(k[1], tokens) \in Nat
      BY <1>5, <3>1 DEF CounterStates
    <3> QED
      BY <3>2, <3>3 DEF CounterStates
  <2>2. CASE k[2] # Window(k[1], minute)
    BY <1>1, <1>3, <2>2
  <2> QED
    BY <2>1, <2>2
<1>7. counter' \in [Keys -> CounterStates]
  <2>1. counter' = [k \in Keys |-> counter'[k]]
    BY DEF Reserved
  <2> QED
    BY <1>6, <2>1
<1>8. \A c \in Counters : LET k == <<c, Window(c, minute)>> IN
        /\ counter'[k].n = counter[k].n + Amount(c, tokens)
        /\ counter'[k].until = minute + TimeToLive(c) /\ counter'[k] # Absent
        /\ counter'[k].until >= WindowEnds(c, Window(c, minute))
  <2> TAKE c \in Counters
  <2> DEFINE k == <<c, Window(c, minute)>>
  <2>1. /\ counter'[k] = [n |-> counter[k].n + Amount(c, tokens), until |-> minute + TimeToLive(c)]
        /\ minute + TimeToLive(c) \in Nat \ {0}
        /\ WindowEnds(c, Window(c, minute)) <= minute + TimeToLive(c)
    BY <1>2
  <2>2. /\ counter'[k].n = counter[k].n + Amount(c, tokens)
        /\ counter'[k].until = minute + TimeToLive(c) /\ counter'[k].until # 0
    BY <2>1
  <2>3. counter'[k] # Absent
    BY <2>2 DEF Absent
  <2> QED
    BY <2>1, <2>2, <2>3
<1> QED
  BY <1>3, <1>7, <1>8

(* A reservation keeps the invariant, whether it is let through or not.    *)
LEMMA ReservationKeeps ==
    ASSUME QuotasAssumption, QuotaInv, NEW q \in Streams, NEW tokens \in Nat,
           stream[q].at = "new", counter' = Reserved(tokens), UNCHANGED <<quotaPolicy, minute>>,
           \/ stream' = [stream EXCEPT ![q].at = "refused"]
           \/ /\ \A c \in Counters : ~Exceeds(c, counter'[<<c, Window(c, minute)>>].n)
              /\ stream' = [stream EXCEPT ![q] = [at |-> "runs", began |-> minute, prompt |-> tokens]]
    PROVE  QuotaInv'
<1>1. /\ QuotaTypeOK /\ minute \in 0 .. MaxMinutes /\ MaxMinutes \in Nat
      /\ counter \in [Keys -> CounterStates] /\ stream \in [Streams -> StreamStates]
      /\ minute' = minute /\ quotaPolicy' = quotaPolicy
  BY DEF QuotasAssumption, QuotaInv, QuotaTypeOK, CounterStates, StreamStates
<1>2. /\ counter' \in [Keys -> CounterStates]
      /\ \A c \in Counters : LET k == <<c, Window(c, minute)>> IN
           /\ counter'[k].n = counter[k].n + Amount(c, tokens)
           /\ counter'[k].until = minute + TimeToLive(c) /\ counter'[k] # Absent
           /\ counter'[k].until >= WindowEnds(c, Window(c, minute))
      /\ \A k \in Keys : k[2] # Window(k[1], minute) => counter'[k] = counter[k]
  BY ReservedFacts, Zenon
<1>3. /\ \A o \in Streams \ {q} : stream'[o] = stream[o]
      /\ stream' \in [Streams -> StreamStates]
      /\ stream'[q].began <= minute
  <2>1. CASE stream' = [stream EXCEPT ![q].at = "refused"]
    BY <1>1, <2>1 DEF StreamStates, QuotaInv
  <2>2. CASE stream' = [stream EXCEPT ![q] = [at |-> "runs", began |-> minute, prompt |-> tokens]]
    BY <1>1, <2>2 DEF StreamStates
  <2> QED
    BY <2>1, <2>2
<1>4. QuotaTypeOK'
  BY <1>1, <1>2, <1>3 DEF QuotaTypeOK, CounterStates, StreamStates
<1>5. (\A o \in Streams : stream[o].began <= minute)'
  BY <1>1, <1>3 DEF QuotaInv
<1>6. ASSUME NEW o \in Streams, NEW c \in Counters
      PROVE  counter'[<<c, Window(c, minute)'>>] # Absent
  BY <1>1, <1>2 DEF Window
<1>7. ASSUME NEW k \in Keys
      PROVE  /\ k[2] >= Window(k[1], minute) => Total(k[1], k[2])' <= counter'[k].n
             /\ Limit(k[1]) > 0 => Total(k[1], k[2])' <= Limit(k[1])
  <2> DEFINE c == k[1] w == k[2]
  <2>1. c \in Counters /\ w \in Nat /\ k = <<c, w>> /\ Amount(c, tokens) \in Nat
    BY <1>1 DEF Keys, Amount
  <2>2. /\ w >= Window(c, minute) => Total(c, w) <= counter[k].n
        /\ Limit(c) > 0 => Total(c, w) <= Limit(c)
    BY DEF QuotaInv
  <2>3. Total(c, w) \in Nat /\ Limit(c) \in Nat /\ counter[k].n \in Nat /\ counter'[k].n \in Nat
        /\ Window(c, minute) \in Nat
    <3>1. Total(c, w) \in Nat /\ Limit(c) \in Nat /\ Window(c, minute) \in Nat
      BY <1>1, <2>1, SharesFacts, LimitFacts, WindowFacts, Zenon
    <3> QED
      BY <1>1, <1>2, <3>1 DEF CounterStates
  <2>4. CASE stream' = [stream EXCEPT ![q].at = "refused"]
    <3>1. Total(c, w)' = Total(c, w)
      <4>1. ~LetThrough(q) /\ stream'[q].at = "refused"
        BY <1>1, <2>4 DEF LetThrough, StreamStates
      <4>2. \A o \in Streams : LetThrough(o)' = LetThrough(o)
        BY <1>3, <4>1 DEF LetThrough
      <4>3. \A o \in Streams : LetThrough(o) =>
              stream'[o].began = stream[o].began /\ stream'[o].prompt = stream[o].prompt
        BY <1>3, <4>1
      <4> QED
        BY <4>2, <4>3, TotalsStay
    <3>2. counter[k].n <= counter'[k].n
      BY <1>2, <2>1, <2>3
    <3> QED
      BY <2>2, <2>3, <3>1, <3>2
  <2>5. CASE /\ \A d \in Counters : ~Exceeds(d, counter'[<<d, Window(d, minute)>>].n)
             /\ stream' = [stream EXCEPT ![q] = [at |-> "runs", began |-> minute, prompt |-> tokens]]
    <3>1. Total(c, w)' = Total(c, w) + (IF w = Window(c, minute) THEN Amount(c, tokens) ELSE 0)
      <4>1. stream' = [stream EXCEPT ![q] = [at |-> "runs", began |-> minute, prompt |-> tokens]]
        BY <2>5
      <4>2. c \in Counters
        BY <2>1
      <4> HIDE DEF c, w
      <4> QED
        BY <1>1, <4>1, <4>2, TotalsGrow, Zenon
    <3>2. CASE w = Window(c, minute)
      <4>1. counter'[k].n = counter[k].n + Amount(c, tokens) /\ ~Exceeds(c, counter'[k].n)
        BY <1>2, <2>1, <2>5, <3>2
      <4> QED
        BY <2>1, <2>2, <2>3, <3>1, <3>2, <4>1 DEF Exceeds
    <3>3. CASE w # Window(c, minute)
      BY <1>2, <2>2, <2>3, <3>1, <3>3
    <3> QED
      BY <3>2, <3>3
  <2> QED
    BY <2>4, <2>5
<1>8. ASSUME NEW k \in Keys, k[2] >= Window(k[1], minute), counter'[k] # Absent
      PROVE  counter'[k].until >= WindowEnds(k[1], k[2])
  <2>1. k[1] \in Counters /\ k = <<k[1], k[2]>>
    BY DEF Keys
  <2>2. CASE k[2] = Window(k[1], minute)
    BY <1>2, <2>1, <2>2
  <2>3. CASE k[2] # Window(k[1], minute)
    BY <1>2, <1>8, <2>3 DEF QuotaInv
  <2> QED
    BY <2>2, <2>3
<1>9. /\ \A c : Window(c, minute)' = Window(c, minute) /\ Limit(c)' = Limit(c)
      /\ \A c, w : WindowEnds(c, w)' = WindowEnds(c, w)
  BY <1>1 DEF Window, Limit, WindowEnds
<1> QED
  BY <1>4, <1>5, <1>6, <1>7, <1>8, <1>9 DEF QuotaInv

(* A completion counts on counters that are not those of a window to come, *)
(* and leaves the end of those of this minute as it is.                    *)
LEMMA CompletionKeeps ==
    ASSUME QuotasAssumption, QuotaInv, NEW q \in Streams, NEW tokens \in CompletionTokens,
           Complete(q, tokens)
    PROVE  QuotaInv'
<1>1. /\ QuotaTypeOK /\ minute \in 0 .. MaxMinutes /\ MaxMinutes \in Nat /\ tokens \in Nat
      /\ counter \in [Keys -> CounterStates] /\ stream \in [Streams -> StreamStates]
      /\ minute' = minute /\ quotaPolicy' = quotaPolicy
  BY DEF QuotasAssumption, QuotaInv, QuotaTypeOK, CounterStates, StreamStates, Complete
<1>2. /\ stream' \in [Streams -> StreamStates]
      /\ \A o \in Streams : /\ stream'[o].began = stream[o].began
                            /\ stream'[o].prompt = stream[o].prompt
                            /\ LetThrough(o)' = LetThrough(o)
  BY <1>1 DEF Complete, StreamStates, LetThrough
<1>3. \A c, w : Total(c, w)' = Total(c, w)
  BY <1>2, TotalsStay
<1>4. \A k \in Keys : k[1] \in Counters /\ k[2] \in Nat /\ k = <<k[1], k[2]>>
  BY DEF Keys, QuotasAssumption
<1>5. ASSUME NEW k \in Keys
      PROVE  /\ counter'[k] \in CounterStates /\ counter[k].n <= counter'[k].n
             /\ counter[k] # Absent => counter'[k].until = counter[k].until /\ counter'[k] # Absent
             /\ k[2] >= Window(k[1], minute) /\ counter[k] = Absent => counter'[k] = Absent
  <2> DEFINE counts == tokens > 0 /\ k[1] # "rpm" /\ k[2] = Window(k[1], stream[q].began)
  <2>1. counter[k] \in CounterStates
    BY <1>1
  <2>2. CASE ~counts
    <3>1. counter'[k] = counter[k]
      BY <2>2 DEF Complete
    <3> QED
      BY <2>1, <3>1 DEF CounterStates
  <2>3. CASE counts
    <3>1. counter'[k] = [n |-> counter[k].n + tokens,
                         until |-> IF counter[k] = Absent THEN Forever ELSE counter[k].until]
      BY <2>3 DEF Complete
    <3>2. k[2] >= Window(k[1], minute) => counter[k] # Absent
      <4>1. stream[q].began \in Nat /\ stream[q].began <= minute /\ LetThrough(q)
        BY <1>1 DEF QuotaInv, StreamStates, Complete, LetThrough
      <4>2. Window(k[1], stream[q].began) <= Window(k[1], minute) /\ Window(k[1], minute) \in Nat
        <5>1. minute \in Nat /\ k[1] \in Counters
          BY <1>1, <1>4
        <5> QED
          BY <1>1, <4>1, <5>1, WindowsFollow, WindowFacts, Zenon
      <4>3. k[2] >= Window(k[1], minute) => k[2] = Window(k[1], minute)
        BY <1>4, <2>3, <4>2
      <4> QED
        BY <1>4, <2>3, <4>1, <4>3 DEF QuotaInv
    <3>3. counter'[k] # Absent
      BY <1>1, <2>1, <2>3, <3>1 DEF Absent, CounterStates
    <3> QED
      BY <1>1, <2>1, <3>1, <3>2, <3>3 DEF CounterStates
  <2> QED
    BY <2>2, <2>3
<1>6. QuotaTypeOK'
  <2>1. counter' = [k \in Keys |-> counter'[k]]
    BY DEF Complete
  <2>2. counter' \in [Keys -> CounterStates]
    BY <1>5, <2>1
  <2> QED
    BY <1>1, <1>2, <2>2 DEF QuotaTypeOK, CounterStates, StreamStates
<1>7. (\A o \in Streams : stream[o].began <= minute)'
  BY <1>1, <1>2 DEF QuotaInv
<1>8. /\ \A c, m : Window(c, m)' = Window(c, m') /\ Limit(c)' = Limit(c)
      /\ \A c, w : WindowEnds(c, w)' = WindowEnds(c, w)
  BY <1>1 DEF Window, Limit, WindowEnds
<1>9. ASSUME NEW o \in Streams, NEW c \in Counters, LetThrough(o)',
             Window(c, stream'[o].began) = Window(c, minute)
      PROVE  counter'[<<c, Window(c, minute)>>] # Absent
  <2>1. <<c, Window(c, minute)>> \in Keys
    BY <1>1, WindowFacts
  <2>2. counter[<<c, Window(c, minute)>>] # Absent
    BY <1>2, <1>9 DEF QuotaInv
  <2> QED
    BY <1>5, <2>1, <2>2
<1>10. ASSUME NEW k \in Keys
       PROVE  /\ k[2] >= Window(k[1], minute) =>
                   /\ Total(k[1], k[2])' <= counter'[k].n
                   /\ counter'[k] # Absent => counter'[k].until >= WindowEnds(k[1], k[2])
              /\ Limit(k[1]) > 0 => Total(k[1], k[2])' <= Limit(k[1])
  <2>1. Total(k[1], k[2]) \in Nat /\ counter[k].n \in Nat /\ counter'[k].n \in Nat
    BY <1>1, <1>5, SharesFacts DEF CounterStates
  <2> QED
    BY <1>3, <1>5, <2>1 DEF QuotaInv
<1>11. \A c : Window(c, minute)' = Window(c, minute)
  BY <1>1 DEF Window
<1>12. \A o \in Streams : \A c : Window(c, stream[o].began)' = Window(c, stream'[o].began)
  BY DEF Window
<1> QED
  BY <1>1, <1>6, <1>7, <1>8, <1>9, <1>10, <1>11, <1>12 DEF QuotaInv

(* A counter expires only when its window is over.                         *)
LEMMA ExpiryKeeps ==
    ASSUME QuotasAssumption, QuotaInv, NEW x \in Keys, KeyExpires(x) PROVE QuotaInv'
<1>1. /\ QuotaTypeOK /\ minute \in 0 .. MaxMinutes /\ MaxMinutes \in Nat
      /\ counter \in [Keys -> CounterStates] /\ stream \in [Streams -> StreamStates]
      /\ UNCHANGED <<quotaPolicy, minute, stream>> /\ counter' = [counter EXCEPT ![x] = Absent]
  BY DEF QuotasAssumption, QuotaInv, QuotaTypeOK, CounterStates, StreamStates, KeyExpires
<1>2. x[1] \in Counters /\ x[2] \in Nat /\ x = <<x[1], x[2]>>
  BY DEF Keys, QuotasAssumption
<1>3. x[2] < Window(x[1], minute)
  <2>1. ASSUME x[2] >= Window(x[1], minute) PROVE FALSE
    <3>1. counter[x].until >= WindowEnds(x[1], x[2]) /\ counter[x].until = minute
      BY <2>1 DEF QuotaInv, KeyExpires
    <3>2. minute < WindowEnds(x[1], Window(x[1], minute)) /\ Window(x[1], minute) \in Nat
      BY <1>1, <1>2, WindowFacts, Zenon
    <3>3. WindowEnds(x[1], Window(x[1], minute)) <= WindowEnds(x[1], x[2])
      BY <1>2, <2>1, <3>2, EndsFollow
    <3>4. WindowEnds(x[1], Window(x[1], minute)) \in Int /\ WindowEnds(x[1], x[2]) \in Int
      BY <1>2, <3>2, EndsFollow
    <3> QED
      BY <1>1, <3>1, <3>2, <3>3, <3>4
  <2>2. Window(x[1], minute) \in Nat
    BY <1>1, <1>2, WindowFacts, Zenon
  <2> QED
    BY <1>2, <2>1, <2>2
<1>4. \A k \in Keys : k[2] >= Window(k[1], minute) => counter'[k] = counter[k]
  <2> SUFFICES ASSUME NEW k \in Keys, k[2] >= Window(k[1], minute) PROVE k # x
    BY <1>1
  <2>1. Window(x[1], minute) \in Nat
    BY <1>1, <1>2, WindowFacts, Zenon
  <2> QED
    BY <1>2, <1>3, <2>1
<1>5. \A c, w : Total(c, w)' = Total(c, w)
  BY <1>1, TotalsStay DEF LetThrough
<1>6. QuotaTypeOK'
  BY <1>1 DEF QuotaTypeOK, CounterStates, StreamStates, Absent
<1>7. /\ \A c : Window(c, minute)' = Window(c, minute) /\ Limit(c)' = Limit(c)
      /\ \A c, w : WindowEnds(c, w)' = WindowEnds(c, w)
      /\ \A o \in Streams : \A c : Window(c, stream[o].began)' = Window(c, stream[o].began)
      /\ \A o \in Streams : LetThrough(o)' = LetThrough(o)
  BY <1>1 DEF Window, Limit, WindowEnds, LetThrough
<1>8. \A c \in Counters : LET k == <<c, Window(c, minute)>> IN
         k \in Keys /\ counter'[k] = counter[k]
  <2> TAKE c \in Counters
  <2>1. <<c, Window(c, minute)>> \in Keys /\ Window(c, minute) \in Nat
    BY <1>1, WindowFacts
  <2> QED
    BY <1>4, <2>1
<1> QED
  BY <1>1, <1>4, <1>5, <1>6, <1>7, <1>8 DEF QuotaInv

(* Time goes on: windows may end, and those that begin are empty.          *)
LEMMA TickKeeps ==
    ASSUME QuotasAssumption, QuotaInv, QuotaTick PROVE QuotaInv'
<1>1. /\ QuotaTypeOK /\ minute \in 0 .. MaxMinutes /\ MaxMinutes \in Nat
      /\ counter \in [Keys -> CounterStates] /\ stream \in [Streams -> StreamStates]
      /\ UNCHANGED <<quotaPolicy, counter, stream>> /\ minute' = minute + 1
      /\ minute' \in 0 .. MaxMinutes
  BY DEF QuotasAssumption, QuotaInv, QuotaTypeOK, CounterStates, StreamStates, QuotaTick
<1>2. \A c, w : Total(c, w)' = Total(c, w)
  BY <1>1, TotalsStay DEF LetThrough
<1>3. ASSUME NEW c \in Counters
      PROVE  /\ Window(c, minute) \in Nat /\ Window(c, minute') \in Nat
             /\ Window(c, minute) <= Window(c, minute')
             /\ <<c, Window(c, minute')>> \in Keys
  <2>1. minute \in Nat /\ minute' \in Nat /\ minute <= minute'
    BY <1>1
  <2> QED
    BY <1>1, <2>1, WindowFacts, WindowsFollow, Zenon
<1>4. QuotaTypeOK'
  BY <1>1 DEF QuotaTypeOK
<1>5. ASSUME NEW q \in Streams, NEW c \in Counters, LetThrough(q),
             Window(c, stream[q].began) = Window(c, minute')
      PROVE  counter[<<c, Window(c, minute')>>] # Absent
  <2>1. stream[q].began \in Nat /\ stream[q].began <= minute
    BY <1>1 DEF QuotaInv, StreamStates
  <2>2. Window(c, stream[q].began) <= Window(c, minute)
    <3>1. minute \in Nat
      BY <1>1
    <3> QED
      BY <2>1, <3>1, WindowsFollow, Zenon
  <2>3. Window(c, minute') = Window(c, minute)
    <3> DEFINE v == Window(c, minute)  w == Window(c, minute')
    <3>1. v \in Nat /\ w \in Nat /\ v <= w /\ w <= v
      BY <1>3, <1>5, <2>2
    <3> HIDE DEF v, w
    <3>2. w = v
      BY <3>1
    <3> QED
      BY <3>2 DEF v, w
  <2> QED
    BY <1>5, <2>3 DEF QuotaInv
<1>6. \A k \in Keys : k[1] \in Counters /\ k[2] \in Nat
  BY DEF Keys, QuotasAssumption
<1>7. ASSUME NEW k \in Keys, k[2] >= Window(k[1], minute')
      PROVE  k[2] >= Window(k[1], minute)
  <2> DEFINE v == Window(k[1], minute)  w == Window(k[1], minute')
  <2>1. v \in Nat /\ w \in Nat /\ v <= w /\ k[2] \in Nat
    BY <1>3, <1>6
  <2> HIDE DEF v, w
  <2>2. k[2] >= w
    BY <1>7 DEF w
  <2>3. k[2] >= v
    BY <2>1, <2>2
  <2> QED
    BY <2>3 DEF v
<1>8. /\ \A c : Window(c, minute)' = Window(c, minute') /\ Limit(c)' = Limit(c)
      /\ \A c, w : WindowEnds(c, w)' = WindowEnds(c, w)
      /\ \A o \in Streams : \A c : Window(c, stream[o].began)' = Window(c, stream[o].began)
      /\ \A o \in Streams : LetThrough(o)' = LetThrough(o)
  BY <1>1 DEF Window, Limit, WindowEnds, LetThrough
<1>9. \A q \in Streams : stream[q].began <= minute'
  BY <1>1 DEF QuotaInv, StreamStates
<1> QED
  BY <1>1, <1>2, <1>4, <1>5, <1>7, <1>8, <1>9 DEF QuotaInv

LEMMA QuotaInvImplies ==
    ASSUME QuotasAssumption, QuotaInv PROVE QuotasHold
<1>1. ASSUME NEW k \in Keys, counter[k].until = Forever PROVE k[2] < Window(k[1], minute)
  <2>1. /\ k[1] \in Counters /\ k[2] \in Nat /\ minute \in 0 .. MaxMinutes
    BY DEF Keys, QuotaInv, QuotaTypeOK, QuotasAssumption
  <2>2. Window(k[1], minute) \in Nat
    BY <2>1, WindowFacts, Zenon
  <2>3. WindowEnds(k[1], k[2]) \in Nat
    BY <2>1, EndsFollow
  <2>4. counter[k] # Absent
    BY <1>1 DEF Absent, Forever
  <2>5. ~(k[2] >= Window(k[1], minute))
    BY <1>1, <2>3, <2>4 DEF QuotaInv, Forever
  <2> QED
    BY <2>1, <2>2, <2>5
<1>2. ASSUME NEW q \in Streams, NEW c \in Counters, Limit(c) > 0
      PROVE  Total(c, Window(c, stream[q].began)) <= Limit(c)
  <2>1. stream[q].began \in 0 .. MaxMinutes
    BY DEF QuotaInv, QuotaTypeOK
  <2>2. PICK w : w = Window(c, stream[q].began)
    OBVIOUS
  <2>3. <<c, w>> \in Keys
    BY <2>1, <2>2, WindowFacts, Zenon
  <2>4. \A k \in Keys : Limit(k[1]) > 0 => Total(k[1], k[2]) <= Limit(k[1])
    BY DEF QuotaInv
  <2>5. Total(c, w) <= Limit(c)
    BY <1>2, <2>3, <2>4
  <2> QED
    BY <2>2, <2>5
<1> QED
  BY <1>1, <1>2 DEF QuotasHold

(* No window lets more through than its limit, for any number of streams,  *)
(* any limits and any length of days and months.                           *)
THEOREM QuotasKept == QuotaSpec => []QuotasHold
<1>1. QuotaInit => QuotaInv
  BY QuotasAssumption, QuotaStarts
<1>2. QuotaInv /\ [QuotaNext]_quotaVars => QuotaInv'
  <2> SUFFICES ASSUME QuotaInv, [QuotaNext]_quotaVars PROVE QuotaInv'
    OBVIOUS
  <2>1. ASSUME NEW q \in Streams, NEW t \in PromptTokens, Reserve(q, t) \/ ReserveRaises(q, t)
        PROVE  QuotaInv'
    <3>1. t \in Nat
      BY QuotasAssumption DEF QuotasAssumption
    <3>2. CASE Reserve(q, t)
      BY <3>1, <3>2, QuotasAssumption, ReservationKeeps DEF Reserve, Begins
    <3>3. CASE ReserveRaises(q, t)
      BY <3>1, <3>3, QuotasAssumption, ReservationKeeps DEF ReserveRaises, Begins
    <3> QED
      BY <2>1, <3>2, <3>3
  <2>2. ASSUME NEW q \in Streams, NEW t \in CompletionTokens, Complete(q, t) PROVE QuotaInv'
    BY <2>2, QuotasAssumption, CompletionKeeps
  <2>3. ASSUME NEW k \in Keys, KeyExpires(k) PROVE QuotaInv'
    BY <2>3, QuotasAssumption, ExpiryKeeps
  <2>4. CASE QuotaTick
    BY <2>4, QuotasAssumption, TickKeeps
  <2>5. CASE UNCHANGED quotaVars
    <3>1. /\ minute' = minute /\ counter' = counter /\ stream' = stream /\ quotaPolicy' = quotaPolicy
      BY <2>5 DEF quotaVars
    <3>2. \A c, w : Total(c, w)' = Total(c, w)
      BY <3>1, TotalsStay DEF LetThrough
    <3> QED
      BY <3>1, <3>2 DEF QuotaInv, QuotaTypeOK, LetThrough, Window, Limit, WindowEnds
  <2> QED
    BY <2>1, <2>2, <2>3, <2>4, <2>5 DEF QuotaNext
<1>3. QuotaInv => QuotasHold
  BY QuotasAssumption, QuotaInvImplies
<1> QED
  BY <1>1, <1>2, <1>3, PTL DEF QuotaSpec

-----------------------------------------------------------------------------
(* The copy on S3.  First its sequences: what they hold, and once.         *)
LEMMA AppendHolds ==
    ASSUME NEW S, NEW seq \in Seq(S), NEW e \in S
    PROVE  /\ Append(seq, e) \in Seq(S) /\ Len(Append(seq, e)) = Len(seq) + 1
           /\ DOMAIN Append(seq, e) = 1 .. Len(seq) + 1
           /\ Append(seq, e)[Len(seq) + 1] = e
           /\ \A i \in DOMAIN seq : Append(seq, e)[i] = seq[i]
           /\ ToSet(Append(seq, e)) = ToSet(seq) \cup {e}
           /\ IsInjective(seq) /\ e \notin ToSet(seq) => IsInjective(Append(seq, e))
<1>1. /\ Append(seq, e) \in Seq(S) /\ Len(Append(seq, e)) = Len(seq) + 1
      /\ DOMAIN Append(seq, e) = 1 .. Len(seq) + 1 /\ DOMAIN seq = 1 .. Len(seq) /\ Len(seq) \in Nat
      /\ Append(seq, e)[Len(seq) + 1] = e
      /\ \A i \in 1 .. Len(seq) : Append(seq, e)[i] = seq[i]
  OBVIOUS
<1>2. ToSet(Append(seq, e)) = ToSet(seq) \cup {e}
  BY <1>1 DEF ToSet
<1>3. ASSUME IsInjective(seq), e \notin ToSet(seq) PROVE IsInjective(Append(seq, e))
  BY <1>1, <1>3 DEF ToSet, IsInjective
<1> QED
  BY <1>1, <1>2, <1>3

LEMMA TailHolds ==
    ASSUME NEW S, NEW seq \in Seq(S), seq # <<>>
    PROVE  /\ Tail(seq) \in Seq(S) /\ Head(seq) \in S /\ Head(seq) \in ToSet(seq)
           /\ Len(Tail(seq)) = Len(seq) - 1 /\ Len(seq) \in Nat \ {0}
           /\ Head(seq) = seq[1] /\ \A i \in DOMAIN Tail(seq) : Tail(seq)[i] = seq[i + 1]
           /\ DOMAIN Tail(seq) = 1 .. Len(seq) - 1 /\ DOMAIN seq = 1 .. Len(seq)
           /\ ToSet(seq) = ToSet(Tail(seq)) \cup {Head(seq)}
           /\ IsInjective(seq) => IsInjective(Tail(seq)) /\ Head(seq) \notin ToSet(Tail(seq))
<1>1. /\ Tail(seq) \in Seq(S) /\ Head(seq) \in S /\ Head(seq) = seq[1]
      /\ Len(Tail(seq)) = Len(seq) - 1 /\ Len(seq) \in Nat \ {0}
      /\ DOMAIN Tail(seq) = 1 .. Len(seq) - 1 /\ DOMAIN seq = 1 .. Len(seq)
      /\ \A i \in 1 .. Len(seq) - 1 : Tail(seq)[i] = seq[i + 1]
  OBVIOUS
<1>2. ToSet(seq) = ToSet(Tail(seq)) \cup {Head(seq)}
  <2>1. ASSUME NEW e \in ToSet(seq) PROVE e \in ToSet(Tail(seq)) \cup {Head(seq)}
    <3>1. PICK i \in 1 .. Len(seq) : e = seq[i]
      BY <1>1 DEF ToSet
    <3>2. CASE i = 1
      BY <1>1, <3>1, <3>2
    <3>3. CASE i # 1
      <4>1. i - 1 \in DOMAIN Tail(seq) /\ (i - 1) + 1 = i
        BY <1>1, <3>1, <3>3
      <4>2. Tail(seq)[i - 1] = e
        BY <1>1, <3>1, <4>1
      <4> QED
        BY <4>1, <4>2 DEF ToSet
    <3> QED
      BY <3>2, <3>3
  <2>2. ASSUME NEW e \in ToSet(Tail(seq)) PROVE e \in ToSet(seq)
    <3>1. PICK i \in DOMAIN Tail(seq) : e = Tail(seq)[i]
      BY DEF ToSet
    <3>2. i + 1 \in DOMAIN seq /\ seq[i + 1] = e
      BY <1>1, <3>1
    <3> QED
      BY <3>2 DEF ToSet
  <2>3. Head(seq) \in ToSet(seq)
    BY <1>1 DEF ToSet
  <2> QED
    BY <2>1, <2>2, <2>3
<1>3. ASSUME IsInjective(seq) PROVE IsInjective(Tail(seq)) /\ Head(seq) \notin ToSet(Tail(seq))
  BY <1>1, <1>3 DEF ToSet, IsInjective
<1> QED
  BY <1>1, <1>2, <1>3

LEMMA ConcatHolds ==
    ASSUME NEW S, NEW a \in Seq(S), NEW b \in Seq(S)
    PROVE  /\ a \o b \in Seq(S) /\ Len(a \o b) = Len(a) + Len(b)
           /\ DOMAIN (a \o b) = 1 .. Len(a) + Len(b) /\ Len(a) \in Nat /\ Len(b) \in Nat
           /\ \A i \in 1 .. Len(a) : (a \o b)[i] = a[i]
           /\ \A i \in 1 .. Len(b) : (a \o b)[Len(a) + i] = b[i]
           /\ ToSet(a \o b) = ToSet(a) \cup ToSet(b)
           /\ IsInjective(a) /\ IsInjective(b) /\ ToSet(a) \cap ToSet(b) = {} => IsInjective(a \o b)
<1>1. /\ a \o b \in Seq(S) /\ Len(a \o b) = Len(a) + Len(b)
      /\ DOMAIN (a \o b) = 1 .. Len(a) + Len(b) /\ Len(a) \in Nat /\ Len(b) \in Nat
      /\ DOMAIN a = 1 .. Len(a) /\ DOMAIN b = 1 .. Len(b)
      /\ \A i \in 1 .. Len(a) + Len(b) : (a \o b)[i] = IF i <= Len(a) THEN a[i] ELSE b[i - Len(a)]
  OBVIOUS
<1>2. /\ \A i \in 1 .. Len(a) : (a \o b)[i] = a[i] /\ i \in DOMAIN (a \o b)
      /\ \A i \in 1 .. Len(b) : (a \o b)[Len(a) + i] = b[i] /\ Len(a) + i \in DOMAIN (a \o b)
      /\ \A i \in DOMAIN (a \o b) : i \in 1 .. Len(a) \/ (i - Len(a) \in 1 .. Len(b) /\ (a \o b)[i] = b[i - Len(a)])
  BY <1>1
<1>3. ToSet(a \o b) = ToSet(a) \cup ToSet(b)
  <2>1. ASSUME NEW e \in ToSet(a \o b) PROVE e \in ToSet(a) \cup ToSet(b)
    <3>1. PICK i \in DOMAIN (a \o b) : (a \o b)[i] = e
      BY DEF ToSet
    <3>2. CASE i \in 1 .. Len(a)
      BY <1>1, <1>2, <3>1, <3>2 DEF ToSet
    <3>3. CASE i - Len(a) \in 1 .. Len(b) /\ (a \o b)[i] = b[i - Len(a)]
      BY <1>1, <3>1, <3>3 DEF ToSet
    <3> QED
      BY <1>2, <3>1, <3>2, <3>3
  <2>2. ASSUME NEW e \in ToSet(a) PROVE e \in ToSet(a \o b)
    <3>1. PICK i \in 1 .. Len(a) : e = a[i]
      BY <1>1, <2>2 DEF ToSet
    <3>2. (a \o b)[i] = e /\ i \in DOMAIN (a \o b)
      BY <1>2, <3>1
    <3> QED
      BY <3>2, Zenon DEF ToSet
  <2>3. ASSUME NEW e \in ToSet(b) PROVE e \in ToSet(a \o b)
    <3>1. PICK i \in 1 .. Len(b) : e = b[i]
      BY <1>1, <2>3 DEF ToSet
    <3>2. (a \o b)[Len(a) + i] = e /\ Len(a) + i \in DOMAIN (a \o b)
      BY <1>2, <3>1
    <3> QED
      BY <3>2, Zenon DEF ToSet
  <2> QED
    BY <2>1, <2>2, <2>3
<1>4. ASSUME IsInjective(a), IsInjective(b), ToSet(a) \cap ToSet(b) = {} PROVE IsInjective(a \o b)
  <2> SUFFICES ASSUME NEW i \in DOMAIN (a \o b), NEW j \in DOMAIN (a \o b), (a \o b)[i] = (a \o b)[j]
               PROVE  i = j
    BY DEF IsInjective
  <2>1. CASE i \in 1 .. Len(a) /\ j \in 1 .. Len(a)
    BY <1>1, <1>2, <1>4, <2>1 DEF IsInjective
  <2>2. CASE i \in 1 .. Len(a) /\ j \notin 1 .. Len(a)
    <3>1. a[i] = b[j - Len(a)] /\ i \in DOMAIN a /\ j - Len(a) \in DOMAIN b
      BY <1>1, <1>2, <2>2
    <3> QED
      BY <1>4, <3>1, Zenon DEF ToSet
  <2>3. CASE i \notin 1 .. Len(a) /\ j \in 1 .. Len(a)
    <3>1. a[j] = b[i - Len(a)] /\ j \in DOMAIN a /\ i - Len(a) \in DOMAIN b
      BY <1>1, <1>2, <2>3
    <3> QED
      BY <1>4, <3>1, Zenon DEF ToSet
  <2>4. CASE i \notin 1 .. Len(a) /\ j \notin 1 .. Len(a)
    <3>1. b[i - Len(a)] = b[j - Len(a)] /\ i - Len(a) \in DOMAIN b /\ j - Len(a) \in DOMAIN b
      BY <1>1, <1>2, <2>4
    <3>2. i - Len(a) = j - Len(a) /\ i \in Int /\ j \in Int
      BY <1>1, <1>4, <3>1 DEF IsInjective
    <3> QED
      BY <1>1, <3>2
  <2> QED
    BY <2>1, <2>2, <2>3, <2>4
<1> QED
  BY <1>1, <1>2, <1>3, <1>4

LEMMA EmptyHolds ==
    <<>> \in Seq(1 .. ShipEntries) /\ ToSet(<<>>) = {} /\ IsInjective(<<>>) /\ Len(<<>>) = 0
BY DEF ToSet, IsInjective

-----------------------------------------------------------------------------
(* The loops.                                                              *)
Entries == 1 .. ShipEntries
ShipperStates == [at : {"pop", "decide", "put"}, batch : Seq(Entries), day : Days, copy : Seq(Entries)]

(* An entry stays in one place when those in X move to the place t: all    *)
(* other places keep at most what they had, and none of X.                 *)
LEMMA EntriesMove ==
    ASSUME InOnePlace, NEW X, NEW t \in ShipPlaces,
           X \subseteq ToSet(offered)', ToSet(offered) \subseteq ToSet(offered)',
           \A p \in ShipPlaces \ {t} : Holds(p)' \subseteq Holds(p) /\ X \cap Holds(p)' = {},
           Holds(t)' \subseteq Holds(t) \cup X
    PROVE  InOnePlace'
<1>1. ASSUME NEW p \in ShipPlaces, NEW q \in ShipPlaces \ {p} PROVE Holds(p)' \cap Holds(q)' = {}
  <2>1. Holds(p) \cap Holds(q) = {}
    BY DEF InOnePlace
  <2>2. CASE p = t
    BY <2>1, <2>2
  <2>3. CASE q = t
    BY <2>1, <2>3
  <2>4. CASE p # t /\ q # t
    BY <2>1, <2>4
  <2> QED
    BY <2>2, <2>3, <2>4
<1>2. ASSUME NEW p \in ShipPlaces PROVE Holds(p)' \subseteq ToSet(offered)'
  BY DEF InOnePlace
<1> QED
  BY <1>1, <1>2 DEF InOnePlace

LEMMA HoldsFacts ==
    /\ Holds(<<"list", 0>>) = ToSet(shipBuffer)
    /\ \A s \in Shippers : Holds(<<"batch", s>>) = ToSet(shipper[s].batch)
    /\ \A d \in Days : Holds(<<"day", d>>) = DayEntries(d)
BY DEF Holds

LEMMA HoldsFactsNext ==
    /\ Holds(<<"list", 0>>)' = ToSet(shipBuffer')
    /\ \A s \in Shippers : Holds(<<"batch", s>>)' = ToSet(shipper'[s].batch)
    /\ \A d \in Days : Holds(<<"day", d>>)' = DayEntries(d)'
BY DEF Holds, ToSet

(* The same, place by place.                                               *)
LEMMA MoveToPlace ==
    ASSUME InOnePlace, NEW X, NEW t \in ShipPlaces,
           X \subseteq ToSet(offered'), ToSet(offered) \subseteq ToSet(offered'),
           t # <<"list", 0>> =>
              ToSet(shipBuffer') \subseteq ToSet(shipBuffer) /\ X \cap ToSet(shipBuffer') = {},
           \A s \in Shippers : t # <<"batch", s>> =>
              ToSet(shipper'[s].batch) \subseteq ToSet(shipper[s].batch)
              /\ X \cap ToSet(shipper'[s].batch) = {},
           \A d \in Days : t # <<"day", d>> =>
              DayEntries(d)' \subseteq DayEntries(d) /\ X \cap DayEntries(d)' = {},
           Holds(t)' \subseteq Holds(t) \cup X
    PROVE  InOnePlace'
<1>1. \A p \in ShipPlaces \ {t} : Holds(p)' \subseteq Holds(p) /\ X \cap Holds(p)' = {}
  <2> SUFFICES ASSUME NEW p \in ShipPlaces \ {t}
               PROVE  Holds(p)' \subseteq Holds(p) /\ X \cap Holds(p)' = {}
    OBVIOUS
  <2>1. CASE p = <<"list", 0>>
    BY <2>1, HoldsFacts, HoldsFactsNext
  <2>2. CASE \E s \in Shippers : p = <<"batch", s>>
    BY <2>2, HoldsFacts, HoldsFactsNext
  <2>3. CASE \E d \in Days : p = <<"day", d>>
    BY <2>3, HoldsFacts, HoldsFactsNext
  <2> QED
    BY <2>1, <2>2, <2>3 DEF ShipPlaces
<1>2. ToSet(offered)' = ToSet(offered')
  BY DEF ToSet
<1> QED
  BY <1>1, <1>2, EntriesMove

(* Nothing moves: no place has more than before.                           *)
LEMMA NothingMoves ==
    ASSUME InOnePlace, ToSet(offered) \subseteq ToSet(offered'),
           ToSet(shipBuffer') \subseteq ToSet(shipBuffer),
           \A s \in Shippers : ToSet(shipper'[s].batch) \subseteq ToSet(shipper[s].batch),
           \A d \in Days : DayEntries(d)' \subseteq DayEntries(d)
    PROVE  InOnePlace'
<1> DEFINE t == <<"list", 0>>  X == {}
<1>1. t \in ShipPlaces
  BY DEF ShipPlaces
<1>2. Holds(t)' \subseteq Holds(t) \cup X
  BY HoldsFacts, HoldsFactsNext
<1>3. /\ X \subseteq ToSet(offered') /\ X \cap ToSet(shipBuffer') = {}
      /\ \A s \in Shippers : X \cap ToSet(shipper'[s].batch) = {}
      /\ \A d \in Days : X \cap DayEntries(d)' = {}
  OBVIOUS
<1> HIDE DEF t, X
<1> QED
  BY <1>1, <1>2, <1>3, MoveToPlace

(* The loop s is now in this state, the others are where they were.        *)
Becomes(s, stage, batch, day, copy) ==
    /\ shipper' \in [Shippers -> ShipperStates]
    /\ \A o \in Shippers \ {s} : shipper'[o] = shipper[o]
    /\ shipper'[s].at = stage /\ shipper'[s].batch = batch
    /\ shipper'[s].day = day /\ shipper'[s].copy = copy

(* What each step of a loop does to it.                                    *)
LEMMA LoopSteps ==
    ASSUME ShippingAssumption, ShipTypeOK, NEW s \in loops
    PROVE  /\ s \in Shippers /\ shipper[s] \in ShipperStates /\ object[today] \in Seq(Entries)
           /\ ShipPop(s) =>
                \/ /\ shipBuffer # <<>> /\ shipBuffer' = Tail(shipBuffer)
                   /\ Becomes(s, "decide", Append(shipper[s].batch, Head(shipBuffer)),
                              shipper[s].day, shipper[s].copy)
                \/ /\ shipBuffer' = shipBuffer
                   /\ Becomes(s, "decide", shipper[s].batch, shipper[s].day, shipper[s].copy)
           /\ ShipGoOn(s) => Becomes(s, "pop", shipper[s].batch, shipper[s].day, shipper[s].copy)
           /\ ShipFlush(s) => Becomes(s, "put", shipper[s].batch, today, object[today])
           /\ ShipPut(s) \/ ShipPutFails(s) \/ ShipRestart(s) =>
                Becomes(s, "pop", <<>>, shipper[s].day, <<>>)
<1>1. /\ shipper[s] \in ShipperStates /\ s \in Shippers /\ object[today] \in Seq(Entries)
      /\ shipper \in [Shippers -> ShipperStates] /\ shipBuffer \in Seq(Entries)
      /\ today \in Days /\ shipper[s].batch \in Seq(Entries)
  BY DEF ShipTypeOK, ShipperStates, Entries
<1>2. ASSUME NEW r \in ShipperStates, shipper' = [shipper EXCEPT ![s] = r]
      PROVE  Becomes(s, r.at, r.batch, r.day, r.copy)
  <2>1. shipper' \in [Shippers -> ShipperStates] /\ shipper'[s] = r
        /\ \A o \in Shippers \ {s} : shipper'[o] = shipper[o]
    BY <1>1, <1>2
  <2> QED
    BY <2>1 DEF Becomes
<1>3. ASSUME ShipPop(s)
      PROVE  \/ /\ shipBuffer # <<>> /\ shipBuffer' = Tail(shipBuffer)
                /\ Becomes(s, "decide", Append(shipper[s].batch, Head(shipBuffer)),
                           shipper[s].day, shipper[s].copy)
             \/ /\ shipBuffer' = shipBuffer
                /\ Becomes(s, "decide", shipper[s].batch, shipper[s].day, shipper[s].copy)
  <2>1. CASE shipBuffer # <<>>
    <3> DEFINE longer == Append(shipper[s].batch, Head(shipBuffer))
               r == [shipper[s] EXCEPT !.at = "decide", !.batch = longer]
    <3>1. longer \in Seq(Entries)
      BY <1>1, <2>1, TailHolds, AppendHolds
    <3>2. shipBuffer' = Tail(shipBuffer) /\ shipper' = [shipper EXCEPT ![s] = r]
      BY <1>3, <2>1 DEF ShipPop
    <3> HIDE DEF longer
    <3>3. r \in ShipperStates /\ r.at = "decide" /\ r.batch = longer
          /\ r.day = shipper[s].day /\ r.copy = shipper[s].copy
      BY <1>1, <3>1 DEF ShipperStates
    <3> HIDE DEF r
    <3>4. Becomes(s, r.at, r.batch, r.day, r.copy)
      BY <1>2, <3>2, <3>3
    <3>5. Becomes(s, "decide", longer, shipper[s].day, shipper[s].copy)
      BY <3>3, <3>4
    <3> QED
      BY <2>1, <3>2, <3>5 DEF longer
  <2>2. CASE shipBuffer = <<>>
    <3> DEFINE r == [shipper[s] EXCEPT !.at = "decide"]
    <3>1. shipBuffer' = shipBuffer /\ shipper' = [shipper EXCEPT ![s] = r]
      BY <1>3, <2>2 DEF ShipPop
    <3>2. r \in ShipperStates /\ r.at = "decide" /\ r.batch = shipper[s].batch
          /\ r.day = shipper[s].day /\ r.copy = shipper[s].copy
      BY <1>1 DEF ShipperStates
    <3> HIDE DEF r
    <3>3. Becomes(s, r.at, r.batch, r.day, r.copy)
      BY <1>2, <3>1, <3>2
    <3> QED
      BY <3>1, <3>2, <3>3
  <2> QED
    BY <2>1, <2>2
<1>4. ASSUME ShipGoOn(s) PROVE Becomes(s, "pop", shipper[s].batch, shipper[s].day, shipper[s].copy)
  <2> DEFINE r == [shipper[s] EXCEPT !.at = "pop"]
  <2>1. shipper' = [shipper EXCEPT ![s] = r]
    BY <1>4 DEF ShipGoOn
  <2>2. r \in ShipperStates /\ r.at = "pop" /\ r.batch = shipper[s].batch
        /\ r.day = shipper[s].day /\ r.copy = shipper[s].copy
    BY <1>1 DEF ShipperStates
  <2> HIDE DEF r
  <2>3. Becomes(s, r.at, r.batch, r.day, r.copy)
    BY <1>2, <2>1, <2>2
  <2> QED
    BY <2>2, <2>3
<1>5. ASSUME ShipFlush(s) PROVE Becomes(s, "put", shipper[s].batch, today, object[today])
  <2> DEFINE read == object[today]
             r == [shipper[s] EXCEPT !.at = "put", !.day = today, !.copy = read]
  <2>1. shipper' = [shipper EXCEPT ![s] = r]
    BY <1>5 DEF ShipFlush
  <2>2. read \in Seq(Entries)
    BY <1>1
  <2> HIDE DEF read
  <2>3. r \in ShipperStates /\ r.at = "put" /\ r.batch = shipper[s].batch
        /\ r.day = today /\ r.copy = read
    BY <1>1, <2>2 DEF ShipperStates
  <2> HIDE DEF r
  <2>4. Becomes(s, r.at, r.batch, r.day, r.copy)
    BY <1>2, <2>1, <2>3
  <2> QED
    BY <2>3, <2>4 DEF read
<1>6. ASSUME ShipPut(s) \/ ShipPutFails(s) \/ ShipRestart(s)
      PROVE  Becomes(s, "pop", <<>>, shipper[s].day, <<>>)
  <2> DEFINE r == [shipper[s] EXCEPT !.at = "pop", !.batch = <<>>, !.copy = <<>>]
  <2>1. shipper' = [shipper EXCEPT ![s] = r]
    BY <1>6 DEF ShipPut, ShipPutFails, ShipRestart, AfterFlush
  <2>2. r \in ShipperStates /\ r.at = "pop" /\ r.batch = <<>>
        /\ r.day = shipper[s].day /\ r.copy = <<>>
    BY <1>1, EmptyHolds DEF ShipperStates, Entries
  <2> HIDE DEF r
  <2>3. Becomes(s, r.at, r.batch, r.day, r.copy)
    BY <1>2, <2>1, <2>2
  <2> QED
    BY <2>2, <2>3
<1> QED
  BY <1>1, <1>3, <1>4, <1>5, <1>6

(* What a day has, as long as the objects do not change: less, but for     *)
(* what a flush has read of it.                                            *)
LEMMA DaysKeep ==
    ASSUME ShipTypeOK, NEW s \in loops, object' = object,
           \A o \in Shippers \ {s} : shipper'[o] = shipper[o],
           shipper'[s].at = "put" => ToSet(shipper'[s].copy) \subseteq ToSet(object[shipper'[s].day])
    PROVE  \A d \in Days : DayEntries(d)' \subseteq DayEntries(d)
<1> SUFFICES ASSUME NEW d \in Days, NEW e \in DayEntries(d)' PROVE e \in DayEntries(d)
  OBVIOUS
<1>1. CASE e \in ToSet(object'[d])
  BY <1>1 DEF DayEntries
<1>2. CASE \E o \in Shippers : shipper'[o].at = "put" /\ shipper'[o].day = d /\ e \in ToSet(shipper'[o].copy)
  <2>1. PICK o \in Shippers : shipper'[o].at = "put" /\ shipper'[o].day = d /\ e \in ToSet(shipper'[o].copy)
    BY <1>2
  <2>2. CASE o = s
    BY <2>1, <2>2 DEF DayEntries
  <2>3. CASE o # s
    BY <2>1, <2>3 DEF DayEntries, Flushing
  <2> QED
    BY <2>2, <2>3
<1> QED
  BY <1>1, <1>2 DEF DayEntries, Flushing, ToSet

(* The loop s is in a new state and its batch does not grow, a flush of    *)
(* its has read the object, and no object changes.                         *)
Placed == ShipTypeOK /\ InOnePlace /\ OnceThere

LEMMA LoopMovesNothing ==
    ASSUME ShippingAssumption, Placed, NEW s \in loops,
           NEW stage, NEW batch, NEW day, NEW copy, Becomes(s, stage, batch, day, copy),
           UNCHANGED <<loops, offered, today, object>>,
           shipBuffer' \in Seq(Entries), IsInjective(shipBuffer'),
           ToSet(shipBuffer') \subseteq ToSet(shipBuffer),
           shipMishaps' \in Nat, overlaps' \in Nat,
           batch = shipper[s].batch \/ batch = <<>>,
           stage = "put" => copy = object[day]
    PROVE  Placed'
<1>1. /\ s \in Shippers /\ \A o \in Shippers \ {s} : shipper'[o] = shipper[o]
      /\ shipper' \in [Shippers -> ShipperStates]
      /\ shipper'[s].batch = batch /\ shipper'[s].day = day /\ shipper'[s].at = stage
      /\ shipper'[s].copy = copy
  BY DEF Becomes, Placed, ShipTypeOK
<1>2. ShipTypeOK'
  BY <1>1 DEF Placed, ShipTypeOK, ShipperStates, Entries, Flushing
<1>3. \A d \in Days : DayEntries(d)' \subseteq DayEntries(d)
  <2>1. shipper'[s].at = "put" => ToSet(shipper'[s].copy) \subseteq ToSet(object[shipper'[s].day])
    BY <1>1
  <2> QED
    BY <1>1, <2>1, DaysKeep DEF Placed
<1>4. \A o \in Shippers : ToSet(shipper'[o].batch) \subseteq ToSet(shipper[o].batch)
  BY <1>1, EmptyHolds
<1>5. InOnePlace'
  BY <1>3, <1>4, NothingMoves DEF Placed
<1>6. /\ \A o \in Shippers : IsInjective(shipper'[o].batch)
      /\ \A o \in Shippers : shipper'[o].at = "put" => IsInjective(shipper'[o].copy)
  <2>1. IsInjective(batch) /\ (stage = "put" => IsInjective(copy))
    <3>1. day \in Days
      BY <1>1 DEF ShipperStates
    <3> QED
      BY <1>1, <3>1, EmptyHolds DEF Placed, OnceThere
  <2> QED
    BY <1>1, <2>1 DEF Placed, OnceThere, Flushing
<1>7. OnceThere'
  BY <1>6 DEF Placed, OnceThere, Flushing, IsInjective
<1> QED
  BY <1>2, <1>5, <1>7 DEF Placed

(* An offered entry is new, and comes to the list.                         *)
LEMMA OfferPlaced ==
    ASSUME ShippingAssumption, Placed, NEW e \in Entries, Offer(e) PROVE Placed'
<1> DEFINE X == {e}  t == <<"list", 0>>
<1>1. /\ shipBuffer' \in Seq(Entries) /\ offered' \in Seq(Entries)
      /\ ToSet(shipBuffer') = ToSet(shipBuffer) \cup X /\ ToSet(offered') = ToSet(offered) \cup X
      /\ IsInjective(shipBuffer) /\ e \notin ToSet(shipBuffer) => IsInjective(shipBuffer')
      /\ e \notin ToSet(offered) /\ UNCHANGED <<loops, today, object, shipper, shipMishaps, overlaps>>
  BY AppendHolds DEF Offer, Placed, ShipTypeOK, Entries
<1>2. ShipTypeOK'
  BY <1>1 DEF Placed, ShipTypeOK, Entries, Flushing
<1>3. t \in ShipPlaces
  BY DEF ShipPlaces
<1>4. \A p \in ShipPlaces : X \cap Holds(p) = {}
  BY <1>1 DEF Placed, InOnePlace
<1>5. \A s \in Shippers : ToSet(shipper'[s].batch) = ToSet(shipper[s].batch)
                          /\ X \cap ToSet(shipper[s].batch) = {}
  BY <1>1, <1>4, HoldsFacts DEF ShipPlaces
<1>6. \A d \in Days : DayEntries(d)' = DayEntries(d) /\ X \cap DayEntries(d) = {}
  <2>1. \A d \in Days : DayEntries(d)' = DayEntries(d)
    BY <1>1 DEF DayEntries, Flushing, ToSet
  <2>2. \A d \in Days : X \cap DayEntries(d) = {}
    BY <1>4, HoldsFacts DEF ShipPlaces
  <2> QED
    BY <2>1, <2>2
<1>7. Holds(t)' \subseteq Holds(t) \cup X
  BY <1>1, HoldsFacts, HoldsFactsNext
<1>8. e \notin ToSet(shipBuffer)
  BY <1>4, HoldsFacts DEF ShipPlaces
<1>9. X \subseteq ToSet(offered') /\ ToSet(offered) \subseteq ToSet(offered')
  BY <1>1
<1>10. t = <<"list", 0>>
  OBVIOUS
<1>11. OnceThere'
  BY <1>1, <1>8 DEF Placed, OnceThere, Flushing, IsInjective
<1> HIDE DEF X, t
<1>12. InOnePlace'
  BY <1>3, <1>5, <1>6, <1>7, <1>9, <1>10, MoveToPlace DEF Placed
<1> QED
  BY <1>2, <1>11, <1>12 DEF Placed

(* A popped entry moves from the list to the batch.                        *)
LEMMA PopPlaced ==
    ASSUME ShippingAssumption, Placed, NEW s \in loops, ShipPop(s) PROVE Placed'
<1>1. /\ s \in Shippers /\ shipper[s] \in ShipperStates /\ shipper[s].batch \in Seq(Entries)
      /\ shipBuffer \in Seq(Entries) /\ shipMishaps' \in Nat /\ overlaps' \in Nat
      /\ UNCHANGED <<loops, offered, today, object, shipMishaps, overlaps>>
  BY LoopSteps DEF ShipPop, Placed, ShipTypeOK, Entries, ShipperStates
<1>2. CASE shipBuffer' = shipBuffer
           /\ Becomes(s, "decide", shipper[s].batch, shipper[s].day, shipper[s].copy)
  <2>1. IsInjective(shipBuffer)
    BY DEF Placed, OnceThere
  <2> QED
    BY <1>1, <1>2, <2>1, LoopMovesNothing
<1>3. CASE shipBuffer # <<>> /\ shipBuffer' = Tail(shipBuffer)
           /\ Becomes(s, "decide", Append(shipper[s].batch, Head(shipBuffer)),
                      shipper[s].day, shipper[s].copy)
  <2> DEFINE e == Head(shipBuffer)  X == {e}  t == <<"batch", s>>
             longer == Append(shipper[s].batch, e)
  <2>1. /\ shipBuffer' \in Seq(Entries) /\ e \in Entries /\ e \in ToSet(shipBuffer)
        /\ ToSet(shipBuffer) = ToSet(shipBuffer') \cup X
        /\ IsInjective(shipBuffer') /\ e \notin ToSet(shipBuffer')
    BY <1>1, <1>3, TailHolds DEF Placed, OnceThere
  <2>2. \A p \in ShipPlaces \ {<<"list", 0>>} : X \cap Holds(p) = {}
    <3>1. <<"list", 0>> \in ShipPlaces /\ e \in Holds(<<"list", 0>>)
      BY <2>1, HoldsFacts DEF ShipPlaces
    <3> QED
      BY <3>1 DEF Placed, InOnePlace
  <2>3. /\ \A o \in Shippers : X \cap ToSet(shipper[o].batch) = {}
        /\ \A d \in Days : X \cap DayEntries(d) = {}
    BY <2>2, HoldsFacts DEF ShipPlaces
  <2>4. X \subseteq ToSet(offered)
    BY <2>1, HoldsFacts DEF Placed, InOnePlace, ShipPlaces
  <2> HIDE DEF e
  <2>5. /\ longer \in Seq(Entries) /\ ToSet(longer) = ToSet(shipper[s].batch) \cup X
        /\ IsInjective(longer)
    BY <1>1, <2>1, <2>3, AppendHolds DEF Placed, OnceThere
  <2>6. /\ \A o \in Shippers \ {s} : shipper'[o] = shipper[o]
        /\ shipper' \in [Shippers -> ShipperStates]
        /\ shipper'[s].batch = longer /\ shipper'[s].at = "decide"
    BY <1>3 DEF Becomes, e
  <2>7. ShipTypeOK'
    BY <1>1, <2>1, <2>6 DEF Placed, ShipTypeOK, ShipperStates, Entries, Flushing
  <2>8. \A d \in Days : DayEntries(d)' \subseteq DayEntries(d) /\ X \cap DayEntries(d)' = {}
    <3>1. \A d \in Days : DayEntries(d)' \subseteq DayEntries(d)
      BY <1>1, <2>6, DaysKeep DEF Placed
    <3> QED
      BY <2>3, <3>1
  <2>9. OnceThere'
    <3>1. \A o \in Shippers : IsInjective(shipper'[o].batch)
      BY <2>5, <2>6 DEF Placed, OnceThere
    <3>2. \A o \in Shippers : shipper'[o].at = "put" => IsInjective(shipper'[o].copy)
      BY <2>6 DEF Placed, OnceThere, Flushing
    <3> QED
      BY <1>1, <2>1, <3>1, <3>2 DEF Placed, OnceThere, Flushing, IsInjective
  <2>10. t \in ShipPlaces /\ \A o \in Shippers : t # <<"batch", o>> => o # s
    BY <1>1 DEF ShipPlaces
  <2>11. Holds(t)' \subseteq Holds(t) \cup X
    BY <1>1, <2>5, <2>6, HoldsFacts, HoldsFactsNext
  <2>12. ToSet(shipBuffer') \subseteq ToSet(shipBuffer) /\ X \cap ToSet(shipBuffer') = {}
    BY <2>1
  <2>13. \A o \in Shippers : t # <<"batch", o>> =>
            ToSet(shipper'[o].batch) \subseteq ToSet(shipper[o].batch)
            /\ X \cap ToSet(shipper'[o].batch) = {}
    BY <2>3, <2>6, <2>10
  <2>14. X \subseteq ToSet(offered') /\ ToSet(offered) \subseteq ToSet(offered')
    BY <1>1, <2>4
  <2> HIDE DEF X, t
  <2>15. InOnePlace'
    BY <2>8, <2>10, <2>11, <2>12, <2>13, <2>14, MoveToPlace DEF Placed
  <2> QED
    BY <2>7, <2>9, <2>15 DEF Placed
<1> QED
  BY <1>2, <1>3, LoopSteps DEF Placed

(* An upload moves the batch to the day of its object.                     *)
LEMMA PutPlaced ==
    ASSUME ShippingAssumption, Placed, NEW s \in loops, ShipPut(s), NEW D, D = shipper[s].day
    PROVE  Placed'
<1> DEFINE X == ToSet(shipper[s].batch)  t == <<"day", D>>
           body == shipper[s].copy \o shipper[s].batch
<1>1. /\ s \in Shippers /\ shipper[s] \in ShipperStates /\ shipper[s].batch \in Seq(Entries)
      /\ shipper[s].copy \in Seq(Entries) /\ D \in Days /\ Flushing(s)
      /\ UNCHANGED <<loops, offered, shipBuffer, today, shipMishaps, overlaps>>
      /\ object \in [Days -> Seq(Entries)] /\ object' = [object EXCEPT ![D] = body]
      /\ Becomes(s, "pop", <<>>, D, <<>>)
  BY LoopSteps DEF ShipPut, BodyOf, Placed, ShipTypeOK, Entries, ShipperStates, Flushing
<1>2. /\ \A o \in Shippers \ {s} : shipper'[o] = shipper[o]
      /\ shipper' \in [Shippers -> ShipperStates]
      /\ shipper'[s].batch = <<>> /\ shipper'[s].at = "pop"
  BY <1>1 DEF Becomes
<1>3. t \in ShipPlaces /\ <<"batch", s>> \in ShipPlaces /\ t # <<"batch", s>>
  BY <1>1 DEF ShipPlaces
<1>4. /\ X = Holds(<<"batch", s>>) /\ Holds(t) = DayEntries(D)
      /\ ToSet(shipper[s].copy) \subseteq DayEntries(D)
  BY <1>1, HoldsFacts DEF DayEntries
<1>5. \A p \in ShipPlaces \ {<<"batch", s>>} : X \cap Holds(p) = {}
  BY <1>3, <1>4 DEF Placed, InOnePlace
<1>6. /\ X \cap ToSet(shipBuffer) = {}
      /\ \A o \in Shippers \ {s} : X \cap ToSet(shipper[o].batch) = {}
      /\ \A d \in Days : X \cap DayEntries(d) = {}
  BY <1>5, HoldsFacts DEF ShipPlaces
<1>7. /\ body \in Seq(Entries) /\ ToSet(body) = ToSet(shipper[s].copy) \cup X /\ IsInjective(body)
  <2>1. IsInjective(shipper[s].copy) /\ IsInjective(shipper[s].batch)
    BY <1>1 DEF Placed, OnceThere
  <2>2. ToSet(shipper[s].copy) \cap ToSet(shipper[s].batch) = {}
    BY <1>1, <1>4, <1>6
  <2> QED
    BY <1>1, <2>1, <2>2, ConcatHolds
<1> HIDE DEF body
<1>8. /\ object' \in [Days -> Seq(Entries)] /\ object'[D] = body
      /\ \A d \in Days \ {D} : object'[d] = object[d]
  BY <1>1, <1>7
<1>9. ShipTypeOK'
  BY <1>1, <1>2, <1>8 DEF Placed, ShipTypeOK, ShipperStates, Entries, Flushing
<1>10. \A d \in Days : \A e \in DayEntries(d)' : e \in DayEntries(d) \/ (d = D /\ e \in X)
  <2> SUFFICES ASSUME NEW d \in Days, NEW e \in DayEntries(d)'
               PROVE  e \in DayEntries(d) \/ (d = D /\ e \in X)
    OBVIOUS
  <2>1. CASE e \in ToSet(object'[d])
    <3>1. CASE d = D
      <4>1. e \in ToSet(shipper[s].copy) \cup X
        BY <1>7, <1>8, <2>1, <3>1
      <4> QED
        BY <1>4, <3>1, <4>1
    <3>2. CASE d # D
      BY <1>8, <2>1, <3>2 DEF DayEntries
    <3> QED
      BY <3>1, <3>2
  <2>2. CASE \E o \in Shippers : shipper'[o].at = "put" /\ shipper'[o].day = d /\ e \in ToSet(shipper'[o].copy)
    <3>1. PICK o \in Shippers : shipper'[o].at = "put" /\ shipper'[o].day = d /\ e \in ToSet(shipper'[o].copy)
      BY <2>2
    <3>2. o # s
      BY <1>2, <3>1
    <3> QED
      BY <1>2, <3>1, <3>2 DEF DayEntries, Flushing
  <2> QED
    BY <2>1, <2>2 DEF DayEntries, Flushing, ToSet
<1>11. \A d \in Days : t # <<"day", d>> => DayEntries(d)' \subseteq DayEntries(d)
                                        /\ X \cap DayEntries(d)' = {}
  BY <1>6, <1>10
<1>12. Holds(t)' \subseteq Holds(t) \cup X
  <2>1. D \in Days
    BY <1>1
  <2>2. DayEntries(D)' \subseteq DayEntries(D) \cup X
    BY <1>10, <2>1
  <2>3. \A d \in Days : Holds(<<"day", d>>)' = DayEntries(d)'
    BY HoldsFactsNext
  <2> QED
    BY <1>4, <2>1, <2>2, <2>3
<1>13. \A o \in Shippers : t # <<"batch", o>> =>
          ToSet(shipper'[o].batch) \subseteq ToSet(shipper[o].batch)
          /\ X \cap ToSet(shipper'[o].batch) = {}
  BY <1>2, <1>6, EmptyHolds
<1>14. /\ X \subseteq ToSet(offered') /\ ToSet(offered) \subseteq ToSet(offered')
       /\ ToSet(shipBuffer') \subseteq ToSet(shipBuffer) /\ X \cap ToSet(shipBuffer') = {}
  BY <1>1, <1>3, <1>4, <1>6 DEF Placed, InOnePlace
<1>15. OnceThere'
  <2>1. \A o \in Shippers : IsInjective(shipper'[o].batch)
    BY <1>2, EmptyHolds DEF Placed, OnceThere
  <2>2. \A o \in Shippers : shipper'[o].at = "put" => IsInjective(shipper'[o].copy)
    BY <1>2 DEF Placed, OnceThere, Flushing
  <2>3. \A d \in Days : IsInjective(object'[d])
    BY <1>7, <1>8 DEF Placed, OnceThere
  <2> QED
    BY <1>1, <2>1, <2>2, <2>3 DEF Placed, OnceThere, Flushing, IsInjective
<1> HIDE DEF X, t
<1>16. InOnePlace'
  BY <1>3, <1>11, <1>12, <1>13, <1>14, MoveToPlace DEF Placed
<1> QED
  BY <1>9, <1>15, <1>16 DEF Placed

(* Every step keeps each entry in one place, and once there.               *)
LEMMA StepPlaced == ASSUME ShippingAssumption, Placed, [ShipNext]_shipVars PROVE Placed'
<1>1. ASSUME NEW e \in 1 .. ShipEntries, Offer(e) PROVE Placed'
  BY <1>1, OfferPlaced DEF Entries
<1>2. ASSUME NEW s \in loops, ShipPop(s) PROVE Placed'
  BY <1>2, PopPlaced
<1>3. ASSUME NEW s \in loops, ShipPut(s) PROVE Placed'
  <2>1. ASSUME NEW D, D = shipper[s].day PROVE Placed'
    BY <1>3, <2>1, PutPlaced
  <2> QED
    BY <2>1
<1>4. ASSUME NEW s \in loops, ShipPopLost(s) PROVE Placed'
  <2>1. /\ shipBuffer' \in Seq(Entries) /\ IsInjective(shipBuffer')
        /\ ToSet(shipBuffer') \subseteq ToSet(shipBuffer)
    BY <1>4, TailHolds DEF ShipPopLost, Placed, ShipTypeOK, OnceThere, Entries
  <2>2. /\ UNCHANGED <<loops, offered, today, object, shipper, overlaps>> /\ shipMishaps' \in Nat
        /\ overlaps \in Nat
    BY <1>4 DEF ShipPopLost, ShipMishap, Placed, ShipTypeOK
  <2>3. Becomes(s, shipper[s].at, shipper[s].batch, shipper[s].day, shipper[s].copy)
    BY <2>2 DEF Becomes, Placed, ShipTypeOK, ShipperStates, Entries
  <2>4. ShipTypeOK'
    BY <2>1, <2>2 DEF Placed, ShipTypeOK, Entries, Flushing
  <2>5. InOnePlace'
    <3>1. \A d \in Days : DayEntries(d)' \subseteq DayEntries(d)
      BY <2>2 DEF DayEntries, Flushing, ToSet
    <3> QED
      BY <2>1, <2>2, <3>1, NothingMoves DEF Placed
  <2>6. OnceThere'
    BY <2>1, <2>2 DEF Placed, OnceThere, Flushing, IsInjective
  <2> QED
    BY <2>4, <2>5, <2>6 DEF Placed
<1>5. ASSUME NEW s \in loops, ShipGoOn(s) \/ ShipFlush(s) \/ ShipPutFails(s) \/ ShipRestart(s)
      PROVE  Placed'
  <2>1. /\ UNCHANGED <<loops, offered, today, object, shipBuffer>>
        /\ shipBuffer \in Seq(Entries) /\ IsInjective(shipBuffer)
    BY <1>5 DEF ShipGoOn, ShipFlush, ShipPutFails, ShipRestart, Placed, ShipTypeOK, OnceThere, Entries
  <2>2. shipMishaps' \in Nat /\ overlaps' \in Nat
    <3>1. Cardinality({o \in loops : shipper[o].at = "put"}) \in Nat
      <4>1. IsFiniteSet(loops)
        BY FS_Subset DEF ShippingAssumption, Placed, ShipTypeOK
      <4>2. IsFiniteSet({o \in loops : shipper[o].at = "put"})
        BY <4>1, FS_Subset
      <4> QED
        BY <4>2, FS_CardinalityType
    <3>2. shipMishaps \in Nat /\ overlaps \in Nat
      BY DEF Placed, ShipTypeOK
    <3>3. CASE ShipFlush(s)
      <4> DEFINE n == Cardinality({o \in loops : shipper[o].at = "put"})
      <4>1. overlaps' = overlaps + n /\ shipMishaps' = shipMishaps /\ n \in Nat
        BY <3>1, <3>3 DEF ShipFlush
      <4> HIDE DEF n
      <4> QED
        BY <3>2, <4>1
    <3>4. CASE ShipGoOn(s)
      BY <3>2, <3>4 DEF ShipGoOn
    <3>5. CASE ShipPutFails(s) \/ ShipRestart(s)
      BY <3>2, <3>5 DEF ShipPutFails, ShipRestart, ShipMishap
    <3> QED
      BY <1>5, <3>3, <3>4, <3>5
  <2>3. CASE ShipGoOn(s)
    <3>1. Becomes(s, "pop", shipper[s].batch, shipper[s].day, shipper[s].copy)
      BY <2>3, LoopSteps DEF Placed
    <3> QED
      BY <2>1, <2>2, <3>1, LoopMovesNothing
  <2>4. CASE ShipFlush(s)
    <3>1. Becomes(s, "put", shipper[s].batch, today, object[today])
      BY <2>4, LoopSteps DEF Placed
    <3> QED
      BY <2>1, <2>2, <3>1, LoopMovesNothing
  <2>5. CASE ShipPutFails(s) \/ ShipRestart(s)
    <3>1. Becomes(s, "pop", <<>>, shipper[s].day, <<>>)
      BY <2>5, LoopSteps DEF Placed
    <3> QED
      BY <2>1, <2>2, <3>1, LoopMovesNothing
  <2> QED
    BY <1>5, <2>3, <2>4, <2>5
<1>6. ASSUME ShipNextDay \/ UNCHANGED shipVars PROVE Placed'
  <2>1. /\ UNCHANGED <<loops, offered, shipBuffer, object, shipper, shipMishaps, overlaps>>
        /\ today' \in Days
    BY <1>6 DEF ShipNextDay, shipVars, Placed, ShipTypeOK, Days, ShippingAssumption
  <2>2. ShipTypeOK' /\ OnceThere'
    BY <2>1 DEF Placed, ShipTypeOK, OnceThere, Flushing, IsInjective
  <2>3. InOnePlace'
    <3>1. \A d \in Days : DayEntries(d)' \subseteq DayEntries(d)
      BY <2>1 DEF DayEntries, Flushing, ToSet
    <3> QED
      BY <2>1, <3>1, NothingMoves DEF Placed
  <2> QED
    BY <2>2, <2>3 DEF Placed
<1> QED
  BY <1>1, <1>2, <1>3, <1>4, <1>5, <1>6 DEF ShipNext

(* Who else flushes when one loop begins to: no other, or overlaps counts. *)
LEMMA FlushAlone ==
    ASSUME ShippingAssumption, ShipTypeOK, NEW s \in loops, ShipFlush(s), overlaps' = 0
    PROVE  overlaps = 0 /\ \A o \in Shippers : ~(shipper[o].at = "put")
<1> DEFINE flushing == {o \in loops : shipper[o].at = "put"}
<1>1. IsFiniteSet(flushing)
  <2>1. IsFiniteSet(loops)
    BY FS_Subset DEF ShippingAssumption, ShipTypeOK
  <2> QED
    BY <2>1, FS_Subset
<1>2. overlaps' = overlaps + Cardinality(flushing) /\ overlaps \in Nat
  BY DEF ShipFlush, ShipTypeOK
<1>3. Cardinality(flushing) \in Nat /\ (Cardinality(flushing) = 0 <=> flushing = {})
  BY <1>1, FS_CardinalityType, FS_EmptySet
<1>4. \A o \in Shippers \ loops : ~(shipper[o].at = "put")
  BY DEF ShipTypeOK, Flushing
<1>5. overlaps = 0 /\ Cardinality(flushing) = 0
  <2> HIDE DEF flushing
  <2> QED
    BY <1>2, <1>3
<1> QED
  BY <1>3, <1>4, <1>5

LEMMA StepCopies ==
    ASSUME ShippingAssumption, Placed, CopiesCurrent, [ShipNext]_shipVars PROVE CopiesCurrent'
<1> SUFFICES ASSUME overlaps' = 0, NEW s \in Shippers, shipper'[s].at = "put"
             PROVE  /\ shipper'[s].copy = object'[shipper'[s].day]
                    /\ \A o \in Shippers \ {s} : ~(shipper'[o].at = "put")
  BY DEF CopiesCurrent, Flushing
<1>1. overlaps = 0 => \A o \in Shippers : shipper[o].at = "put" =>
        /\ shipper[o].copy = object[shipper[o].day]
        /\ \A p \in Shippers \ {o} : ~(shipper[p].at = "put")
  BY DEF CopiesCurrent, Flushing
<1>2. CASE UNCHANGED <<object, shipper, overlaps>>
  BY <1>1, <1>2
<1>3. ASSUME NEW l \in loops, NEW stage, NEW batch, NEW day, NEW copy,
             Becomes(l, stage, batch, day, copy), stage # "put", UNCHANGED <<object, overlaps>>
      PROVE  /\ shipper'[s].copy = object'[shipper'[s].day]
             /\ \A o \in Shippers \ {s} : ~(shipper'[o].at = "put")
  BY <1>1, <1>3 DEF Becomes, Placed, ShipTypeOK
<1>4. ASSUME NEW l \in loops, ShipPut(l)
      PROVE  /\ shipper'[s].copy = object'[shipper'[s].day]
             /\ \A o \in Shippers \ {s} : ~(shipper'[o].at = "put")
  <2>1. l \in Shippers /\ shipper[l].at = "put" /\ overlaps = 0
    BY <1>4 DEF ShipPut, Placed, ShipTypeOK
  <2>2. Becomes(l, "pop", <<>>, shipper[l].day, <<>>)
    BY <1>4, LoopSteps DEF Placed
  <2> QED
    BY <1>1, <2>1, <2>2 DEF Becomes
<1>5. ASSUME NEW l \in loops, ShipFlush(l)
      PROVE  /\ shipper'[s].copy = object'[shipper'[s].day]
             /\ \A o \in Shippers \ {s} : ~(shipper'[o].at = "put")
  <2>1. overlaps = 0 /\ \A o \in Shippers : ~(shipper[o].at = "put")
    BY <1>5, FlushAlone DEF Placed
  <2>2. Becomes(l, "put", shipper[l].batch, today, object[today]) /\ object' = object
    BY <1>5, LoopSteps DEF ShipFlush, Placed
  <2> QED
    BY <2>1, <2>2 DEF Becomes
<1>6. ASSUME NEW l \in loops, ShipPop(l)
      PROVE  /\ shipper'[s].copy = object'[shipper'[s].day]
             /\ \A o \in Shippers \ {s} : ~(shipper'[o].at = "put")
  <2>1. UNCHANGED <<object, overlaps>>
    BY <1>6 DEF ShipPop
  <2> QED
    BY <1>3, <1>6, <2>1, LoopSteps DEF Placed
<1>7. ASSUME NEW l \in loops, ShipGoOn(l)
      PROVE  /\ shipper'[s].copy = object'[shipper'[s].day]
             /\ \A o \in Shippers \ {s} : ~(shipper'[o].at = "put")
  <2>1. UNCHANGED <<object, overlaps>>
    BY <1>7 DEF ShipGoOn
  <2> QED
    BY <1>3, <1>7, <2>1, LoopSteps DEF Placed
<1>8. ASSUME NEW l \in loops, ShipPutFails(l) \/ ShipRestart(l)
      PROVE  /\ shipper'[s].copy = object'[shipper'[s].day]
             /\ \A o \in Shippers \ {s} : ~(shipper'[o].at = "put")
  <2>1. UNCHANGED <<object, overlaps>>
    BY <1>8 DEF ShipPutFails, ShipRestart
  <2> QED
    BY <1>3, <1>8, <2>1, LoopSteps DEF Placed
<1> QED
  BY <1>2, <1>4, <1>5, <1>6, <1>7, <1>8 DEF ShipNext, Offer, ShipPopLost, ShipNextDay, shipVars

(* An entry that a fault or two flushes at once cannot have lost is in one *)
(* of the places; Stays and StaysNext say so of one entry.                 *)
Stays(e) == e \in ToSet(offered) <=> \/ \E d \in Days : e \in ToSet(object[d])
                                     \/ e \in ToSet(shipBuffer)
                                     \/ \E s \in loops : e \in ToSet(shipper[s].batch)
StaysNext(e) == e \in ToSet(offered') <=> \/ \E d \in Days : e \in ToSet(object'[d])
                                          \/ e \in ToSet(shipBuffer')
                                          \/ \E s \in loops' : e \in ToSet(shipper'[s].batch)

LEMMA StaysFacts ==
    /\ NothingLost /\ shipMishaps = 0 /\ overlaps = 0 => \A e : Stays(e)
    /\ (shipMishaps' = 0 /\ overlaps' = 0 => \A e : StaysNext(e)) => NothingLost'
<1>1. NothingLost /\ shipMishaps = 0 /\ overlaps = 0 => \A e : Stays(e)
  BY DEF NothingLost, Stays
<1>2. ASSUME shipMishaps' = 0 /\ overlaps' = 0 => \A e : StaysNext(e) PROVE NothingLost'
  <2> SUFFICES ASSUME shipMishaps' = 0, overlaps' = 0
               PROVE  ToSet(offered') = ToSet(shipBuffer') \cup (UNION {ToSet(object'[d]) : d \in Days})
                                          \cup (UNION {ToSet(shipper'[s].batch) : s \in loops'})
    BY DEF NothingLost, ToSet
  <2>1. \A e : StaysNext(e)
    BY <1>2
  <2> QED
    BY <2>1 DEF StaysNext
<1> QED
  BY <1>1, <1>2

LEMMA StepLost ==
    ASSUME ShippingAssumption, Placed, CopiesCurrent, NothingLost, [ShipNext]_shipVars
    PROVE  NothingLost'
<1> SUFFICES ASSUME shipMishaps' = 0, overlaps' = 0, NEW e PROVE StaysNext(e)
  BY StaysFacts
<1> USE DEF StaysNext
<1>1. shipMishaps = 0 /\ overlaps = 0 => Stays(e)
  BY StaysFacts
<1>2. CASE UNCHANGED <<offered, object, shipBuffer, loops, shipper, shipMishaps, overlaps>>
  BY <1>1, <1>2 DEF Stays
<1>3. ASSUME NEW n \in 1 .. ShipEntries, Offer(n) PROVE StaysNext(e)
  <2>1. /\ ToSet(shipBuffer') = ToSet(shipBuffer) \cup {n} /\ ToSet(offered') = ToSet(offered) \cup {n}
        /\ UNCHANGED <<loops, object, shipper, shipMishaps, overlaps>>
    <3>1. n \in Entries /\ offered \in Seq(Entries) /\ shipBuffer \in Seq(Entries)
      BY DEF Placed, ShipTypeOK, Entries
    <3>2. offered' = Append(offered, n) /\ shipBuffer' = Append(shipBuffer, n)
          /\ UNCHANGED <<loops, object, shipper, shipMishaps, overlaps>>
      BY <1>3 DEF Offer
    <3> QED
      BY <3>1, <3>2, AppendHolds
  <2> QED
    BY <1>1, <2>1 DEF Stays
<1>4. ASSUME NEW s \in loops, ShipPop(s) PROVE StaysNext(e)
  <2>1. UNCHANGED <<loops, offered, object, shipMishaps, overlaps>>
    BY <1>4 DEF ShipPop
  <2>2. loops \subseteq Shippers /\ shipBuffer \in Seq(Entries) /\ shipper[s].batch \in Seq(Entries)
    BY LoopSteps DEF Placed, ShipTypeOK, Entries, ShipperStates
  <2>3. CASE /\ shipBuffer # <<>> /\ shipBuffer' = Tail(shipBuffer)
             /\ Becomes(s, "decide", Append(shipper[s].batch, Head(shipBuffer)),
                        shipper[s].day, shipper[s].copy)
    <3> DEFINE longer == Append(shipper[s].batch, Head(shipBuffer))
    <3>1. /\ ToSet(shipBuffer) = ToSet(shipBuffer') \cup {Head(shipBuffer)}
          /\ ToSet(longer) = ToSet(shipper[s].batch) \cup {Head(shipBuffer)}
      BY <2>2, <2>3, TailHolds, AppendHolds
    <3>2. shipper'[s].batch = longer /\ \A o \in Shippers \ {s} : shipper'[o] = shipper[o]
      BY <2>3 DEF Becomes
    <3> HIDE DEF longer
    <3> QED
      BY <1>1, <2>1, <2>2, <3>1, <3>2 DEF Stays
  <2>4. CASE /\ shipBuffer' = shipBuffer
             /\ Becomes(s, "decide", shipper[s].batch, shipper[s].day, shipper[s].copy)
    <3>1. \A o \in loops : shipper'[o].batch = shipper[o].batch
      BY <2>2, <2>4 DEF Becomes
    <3> QED
      BY <1>1, <2>1, <2>4, <3>1 DEF Stays
  <2> QED
    BY <1>4, <2>3, <2>4, LoopSteps DEF Placed
<1>5. ASSUME NEW s \in loops, ShipGoOn(s) \/ ShipFlush(s) PROVE StaysNext(e)
  <2>1. UNCHANGED <<loops, offered, object, shipBuffer, shipMishaps>>
    BY <1>5 DEF ShipGoOn, ShipFlush
  <2>2. overlaps = 0
    BY <1>5, FlushAlone DEF ShipGoOn, Placed
  <2>3. \A o \in loops : shipper'[o].batch = shipper[o].batch
    BY <1>5, LoopSteps DEF Becomes, Placed, ShipTypeOK
  <2> QED
    BY <1>1, <2>1, <2>2, <2>3 DEF Stays
<1>6. ASSUME NEW s \in loops, ShipPut(s) PROVE StaysNext(e)
  <2>1. /\ UNCHANGED <<loops, offered, shipBuffer, shipMishaps, overlaps>>
        /\ shipper[s].at = "put" /\ s \in Shippers /\ loops \subseteq Shippers
        /\ object' = [object EXCEPT ![shipper[s].day] = BodyOf(s)]
    BY <1>6 DEF ShipPut, Placed, ShipTypeOK
  <2>2. PICK D \in Days : D = shipper[s].day
    BY <2>1, LoopSteps DEF Placed, ShipperStates
  <2>3. shipper[s].copy = object[D]
    BY <2>1, <2>2 DEF CopiesCurrent, Flushing
  <2>4. /\ object \in [Days -> Seq(Entries)] /\ shipper[s].batch \in Seq(Entries)
        /\ object[D] \in Seq(Entries)
    BY <2>2, LoopSteps DEF Placed, ShipTypeOK, Entries, ShipperStates
  <2>5. object'[D] = object[D] \o shipper[s].batch /\ \A d \in Days \ {D} : object'[d] = object[d]
    BY <2>1, <2>2, <2>3, <2>4 DEF BodyOf
  <2>6. ToSet(object'[D]) = ToSet(object[D]) \cup ToSet(shipper[s].batch)
    BY <2>4, <2>5, ConcatHolds
  <2>7. ToSet(shipper'[s].batch) = {} /\ \A o \in Shippers \ {s} : shipper'[o] = shipper[o]
    BY <1>6, LoopSteps, EmptyHolds DEF Placed, Becomes
  <2> QED
    BY <1>1, <2>1, <2>2, <2>5, <2>6, <2>7 DEF Stays
<1>7. ASSUME NEW s \in loops, ShipPopLost(s) \/ ShipPutFails(s) \/ ShipRestart(s) PROVE FALSE
  BY <1>7 DEF ShipPopLost, ShipPutFails, ShipRestart, ShipMishap, Placed, ShipTypeOK
<1> QED
  BY <1>2, <1>3, <1>4, <1>5, <1>6, <1>7 DEF ShipNext, ShipNextDay, shipVars

(* One loop alone: no flush overlaps, and later days are empty.            *)
LEMMA StepInOrder ==
    ASSUME ShippingAssumption, Placed, OneLoopInOrder, [ShipNext]_shipVars PROVE OneLoopInOrder'
<1> SUFFICES ASSUME NEW s \in loops', loops' = {s}
             PROVE  /\ overlaps' = 0 /\ shipper'[s].day <= today'
                    /\ \A d \in Days : d > (IF shipper'[s].at = "put" THEN shipper'[s].day ELSE today')
                                       => object'[d] = <<>>
  BY DEF OneLoopInOrder, Flushing
<1>1. loops' = loops /\ loops = {s} /\ s \in loops /\ s \in Shippers
  BY DEF ShipNext, Offer, ShipPop, ShipPopLost, ShipGoOn, ShipFlush, ShipPut, ShipPutFails,
         ShipRestart, ShipNextDay, shipVars, Placed, ShipTypeOK
<1>2. /\ overlaps = 0 /\ shipper[s].day <= today
      /\ \A d \in Days : d > (IF shipper[s].at = "put" THEN shipper[s].day ELSE today) => object[d] = <<>>
      /\ today \in Nat /\ shipper[s].day \in Nat /\ Days \subseteq Nat
  <2>1. today \in Nat /\ shipper[s].day \in Nat /\ Days \subseteq Nat
    <3>1. Days \subseteq Nat
      BY DEF Days
    <3>2. today \in Days
      BY DEF Placed, ShipTypeOK
    <3>3. shipper[s] \in ShipperStates
      BY <1>1, LoopSteps DEF Placed
    <3>4. shipper[s].day \in Days
      BY <3>3 DEF ShipperStates
    <3> QED
      BY <3>1, <3>2, <3>4
  <2>2. /\ overlaps = 0 /\ shipper[s].day <= today
        /\ \A d \in Days : d > (IF shipper[s].at = "put" THEN shipper[s].day ELSE today) => object[d] = <<>>
    BY <1>1, Zenon DEF OneLoopInOrder, Flushing
  <2> QED
    BY <2>1, <2>2
<1>3. ASSUME NEW d \in Days, d > today PROVE object[d] = <<>>
  <2>1. d > (IF shipper[s].at = "put" THEN shipper[s].day ELSE today)
    BY <1>2, <1>3
  <2> QED
    BY <1>2, <2>1
<1>4. CASE UNCHANGED <<overlaps, today, object, shipper>>
  BY <1>2, <1>4
<1>5. CASE ShipNextDay
  BY <1>2, <1>5 DEF ShipNextDay
<1>6. ASSUME NEW stage, NEW batch, NEW day, NEW copy, Becomes(s, stage, batch, day, copy), stage # "put",
             day = shipper[s].day, UNCHANGED <<overlaps, today, object>>
      PROVE  /\ overlaps' = 0 /\ shipper'[s].day <= today'
             /\ \A d \in Days : d > (IF shipper'[s].at = "put" THEN shipper'[s].day ELSE today')
                                => object'[d] = <<>>
  BY <1>2, <1>3, <1>6 DEF Becomes
<1>7. CASE ShipPop(s)
  <2>1. UNCHANGED <<overlaps, today, object>>
    BY <1>7 DEF ShipPop
  <2> QED
    BY <1>1, <1>6, <1>7, <2>1, LoopSteps DEF Placed
<1>8. CASE ShipGoOn(s)
  <2>1. UNCHANGED <<overlaps, today, object>>
    BY <1>8 DEF ShipGoOn
  <2> QED
    BY <1>1, <1>6, <1>8, <2>1, LoopSteps DEF Placed
<1>9. CASE ShipPutFails(s) \/ ShipRestart(s)
  <2>1. UNCHANGED <<overlaps, today, object>>
    BY <1>9 DEF ShipPutFails, ShipRestart
  <2> QED
    BY <1>1, <1>6, <1>9, <2>1, LoopSteps DEF Placed
<1>10. CASE ShipFlush(s)
  <2>1. /\ shipper[s].at = "decide" /\ UNCHANGED <<today, object>>
        /\ overlaps' = overlaps + Cardinality({o \in loops : shipper[o].at = "put"})
    BY <1>10 DEF ShipFlush
  <2>2. {o \in loops : shipper[o].at = "put"} = {}
    BY <1>1, <2>1
  <2>3. overlaps' = 0
    <3>1. overlaps' = 0 + Cardinality({})
      BY <1>2, <2>1, <2>2
    <3> QED
      BY <3>1, FS_EmptySet
  <2>4. Becomes(s, "put", shipper[s].batch, today, object[today])
    BY <1>1, <1>10, LoopSteps DEF Placed
  <2> QED
    BY <1>2, <1>3, <2>1, <2>3, <2>4 DEF Becomes
<1>11. CASE ShipPut(s)
  <2>1. /\ shipper[s].at = "put" /\ UNCHANGED <<today, overlaps>>
        /\ object' = [object EXCEPT ![shipper[s].day] = BodyOf(s)]
        /\ object \in [Days -> Seq(1 .. ShipEntries)]
    BY <1>11 DEF ShipPut, Placed, ShipTypeOK
  <2>2. Becomes(s, "pop", <<>>, shipper[s].day, <<>>)
    BY <1>1, <1>11, LoopSteps DEF Placed
  <2>3. \A d \in Days : d > today => object'[d] = <<>>
    BY <1>2, <1>3, <2>1
  <2> QED
    BY <1>2, <2>1, <2>2, <2>3 DEF Becomes
<1> QED
  BY <1>1, <1>4, <1>5, <1>7, <1>8, <1>9, <1>10, <1>11 DEF ShipNext, Offer, ShipPopLost, shipVars

-----------------------------------------------------------------------------
(* The check of the copy.  LastOf and Verify are LastBefore and S3Verifies *)
(* of any objects.                                                         *)
Objects == [Days -> Seq(Entries)]
LastEntry(obj, days) ==
    IF days = {} THEN 0
    ELSE LET d == CHOOSE d \in days : \A c \in days : c <= d IN obj[d][Len(obj[d])]
LastOf(obj, day) == LastEntry(obj, {d \in Days : d < day /\ obj[d] # <<>>})
Verify(obj) ==
    \A d \in Days : \A i \in DOMAIN obj[d] :
        obj[d][i] = 1 + (IF i = 1 THEN LastOf(obj, d) ELSE obj[d][i - 1])

LEMMA CheckFacts ==
    /\ S3Verifies <=> Verify(object)
    /\ S3Verifies' <=> Verify(object')
    /\ \A day : LastBefore(day) = LastOf(object, day) /\ LastBefore(day)' = LastOf(object', day)
BY DEF S3Verifies, Verify, LastBefore, LastOf, LastEntry

LEMMA LatestDay ==
    ASSUME ShippingAssumption, NEW full \in SUBSET Days, full # {}
    PROVE  (CHOOSE d \in full : \A c \in full : c <= d) \in full
<1> DEFINE back == {ShipDays - d : d \in full}
<1>1. back \subseteq Nat /\ back # {} /\ full \subseteq Nat /\ ShipDays \in Nat
  <2>1. ShipDays \in Nat /\ \A d \in full : d \in Nat /\ ShipDays - d \in Nat
    BY DEF Days, ShippingAssumption
  <2>2. PICK d \in full : TRUE
    OBVIOUS
  <2>3. ShipDays - d \in back
    OBVIOUS
  <2> QED
    BY <2>1, <2>3
<1>2. PICK n \in back : \A m \in back : n <= m
  <2> HIDE DEF back
  <2> QED
    BY <1>1, LeastNumber
<1>3. PICK d \in full : n = ShipDays - d
  BY <1>2
<1>4. ASSUME NEW c \in full PROVE c <= d
  <2>1. ShipDays - c \in back
    OBVIOUS
  <2>2. n <= ShipDays - c
    BY <1>2, <2>1
  <2> QED
    BY <1>1, <1>3, <2>2
<1>5. \E x \in full : \A c \in full : c <= x
  BY <1>4
<1> QED
  BY <1>5, Zenon

(* The last entry before a day is that of the latest day that has any.     *)
LEMMA LastIs ==
    ASSUME ShippingAssumption, NEW obj \in Objects, NEW day \in Nat, NEW D \in Days, D < day,
           obj[D] # <<>>, \A c \in Days : D < c /\ c < day => obj[c] = <<>>
    PROVE  LastOf(obj, day) = obj[D][Len(obj[D])]
<1> DEFINE full == {d \in Days : d < day /\ obj[d] # <<>>}
           last == CHOOSE d \in full : \A c \in full : c <= d
<1>1. D \in full /\ Days \subseteq Nat
  BY DEF Days
<1>2. \A c \in full : c <= D
  BY <1>1
<1>3. last \in full /\ \A c \in full : c <= last
  <2> HIDE DEF full
  <2> QED
    BY <1>1, <1>2
<1>4. last = D
  <2>1. last <= D /\ D <= last /\ last \in Nat /\ D \in Nat
    <3> HIDE DEF last
    <3> QED
      BY <1>1, <1>2, <1>3
  <2> HIDE DEF last
  <2> QED
    BY <2>1
<1>5. LastOf(obj, day) = obj[last][Len(obj[last])]
  <2>1. full # {}
    BY <1>1
  <2> QED
    BY <2>1 DEF LastOf, LastEntry
<1> QED
  BY <1>4, <1>5

LEMMA LastSkips ==
    ASSUME NEW obj \in Objects, NEW a \in Nat, NEW b \in Nat, a <= b,
           \A c \in Days : a <= c /\ c < b => obj[c] = <<>>
    PROVE  LastOf(obj, b) = LastOf(obj, a)
<1>1. {d \in Days : d < a /\ obj[d] # <<>>} = {d \in Days : d < b /\ obj[d] # <<>>}
  BY DEF Days
<1> QED
  BY <1>1 DEF LastOf

LEMMA LastSame ==
    ASSUME ShippingAssumption, NEW obj \in Objects, NEW new \in Objects, NEW day \in Nat,
           \A c \in Days : c < day => new[c] = obj[c]
    PROVE  LastOf(new, day) = LastOf(obj, day)
<1> DEFINE full == {d \in Days : d < day /\ obj[d] # <<>>}
           last == CHOOSE d \in full : \A c \in full : c <= d
<1>1. {d \in Days : d < day /\ new[d] # <<>>} = full
  OBVIOUS
<1>2. CASE full = {}
  BY <1>1, <1>2 DEF LastOf, LastEntry
<1>3. CASE full # {}
  <2>1. last \in full
    BY <1>3, LatestDay
  <2>2. new[last] = obj[last]
    BY <2>1
  <2>3. LastOf(new, day) = new[last][Len(new[last])] /\ LastOf(obj, day) = obj[last][Len(obj[last])]
    BY <1>1, <1>3 DEF LastOf, LastEntry
  <2> QED
    BY <2>2, <2>3
<1> QED
  BY <1>2, <1>3

LEMMA LastIsNat ==
    ASSUME ShippingAssumption, NEW obj \in Objects, NEW day \in Nat PROVE LastOf(obj, day) \in Nat
<1> DEFINE full == {d \in Days : d < day /\ obj[d] # <<>>}
           last == CHOOSE d \in full : \A c \in full : c <= d
<1>1. CASE full = {}
  BY <1>1 DEF LastOf, LastEntry
<1>2. CASE full # {}
  <2>1. last \in full
    BY <1>2, LatestDay
  <2>2. LastOf(obj, day) = obj[last][Len(obj[last])]
    BY <1>2 DEF LastOf, LastEntry
  <2>3. obj[last] \in Seq(Entries) /\ obj[last] # <<>>
    BY <2>1 DEF Objects
  <2> HIDE DEF last
  <2>4. Len(obj[last]) \in DOMAIN obj[last]
    BY <2>3
  <2> QED
    BY <2>2, <2>3, <2>4 DEF Entries
<1> QED
  BY <1>1, <1>2

(* A batch that goes on where the copy ends, written to the latest day:    *)
(* the copy still verifies, and ends where the batch ended.                *)
LEMMA VerifyLonger ==
    ASSUME ShippingAssumption, NEW obj \in Objects, NEW D \in Days, NEW batch \in Seq(Entries),
           \A d \in Days : d > D => obj[d] = <<>>, Verify(obj),
           Follow(batch, LastOf(obj, ShipDays + 1)), NEW new \in Objects,
           new[D] = obj[D] \o batch, \A d \in Days \ {D} : new[d] = obj[d]
    PROVE  Verify(new) /\ LastOf(new, ShipDays + 1) = LastOf(obj, ShipDays + 1) + Len(batch)
<1> DEFINE old == obj[D]  body == new[D]  L == LastOf(obj, ShipDays + 1)
           before == LastOf(obj, D)  after == LastOf(new, ShipDays + 1)
<1>1. /\ D \in Nat /\ ShipDays + 1 \in Nat /\ D <= ShipDays /\ old \in Seq(Entries) /\ Days \subseteq Nat
      /\ \A d \in Days : d < ShipDays + 1
  BY DEF Days, ShippingAssumption, Objects
<1>2. /\ Len(old) \in Nat /\ Len(batch) \in Nat /\ body \in Seq(Entries)
      /\ Len(body) = Len(old) + Len(batch) /\ DOMAIN body = 1 .. Len(old) + Len(batch)
      /\ \A i \in 1 .. Len(old) : body[i] = old[i]
      /\ \A i \in 1 .. Len(batch) : body[Len(old) + i] = batch[i]
  BY <1>1, ConcatHolds
<1>3. /\ L \in Nat /\ before \in Nat /\ \A d \in Days : LastOf(obj, d) \in Nat
  BY <1>1, LastIsNat
<1>4. old # <<>> => L = old[Len(old)]
  BY <1>1, LastIs
<1>5. old = <<>> => L = before
  BY <1>1, LastSkips
<1>6. \A i \in 1 .. Len(batch) : batch[i] = L + i
  BY <1>2 DEF Follow
<1>7. ASSUME NEW c \in Days, c > D PROVE new[c] = <<>>
  <2>1. obj[c] = <<>> /\ c # D
    BY <1>1, <1>7
  <2>2. c \in Days \ {D}
    BY <2>1
  <2> QED
    BY <2>1, <2>2
<1>8. body # <<>> => after = body[Len(body)]
  <2>1. \A c \in Days : D < c /\ c < ShipDays + 1 => new[c] = <<>>
    BY <1>1, <1>7
  <2> QED
    BY <1>1, <2>1, LastIs
<1>9. LastOf(new, D) = before
  BY <1>1, LastSame
<1>10. body = <<>> => after = before
  <2>1. body = <<>> => after = LastOf(new, D)
    BY <1>1, LastSkips
  <2> QED
    BY <1>9, <2>1
<1>11. \A d \in Days : d <= D => LastOf(new, d) = LastOf(obj, d)
  BY <1>1, LastSame
<1>12. after = L + Len(batch)
  <2>1. CASE batch # <<>>
    <3>1. Len(batch) \in 1 .. Len(batch) /\ body # <<>> /\ Len(body) = Len(old) + Len(batch)
      BY <1>1, <1>2, <2>1
    <3>2. after = batch[Len(batch)]
      BY <1>2, <1>8, <3>1
    <3> QED
      BY <1>6, <3>1, <3>2
  <2>2. CASE batch = <<>> /\ old # <<>>
    <3>1. Len(old) \in 1 .. Len(old) /\ Len(batch) = 0 /\ body # <<>> /\ Len(body) = Len(old)
      BY <1>1, <1>2, <2>2
    <3> QED
      BY <1>2, <1>3, <1>4, <1>8, <2>2, <3>1
  <2>3. CASE batch = <<>> /\ old = <<>>
    <3>1. Len(batch) = 0 /\ body = <<>>
      BY <1>1, <1>2, <2>3
    <3> QED
      BY <1>3, <1>5, <1>10, <2>3, <3>1
  <2> QED
    BY <2>1, <2>2, <2>3
<1>13. ASSUME NEW i \in DOMAIN body PROVE body[i] = 1 + (IF i = 1 THEN before ELSE body[i - 1])
  <2>1. CASE i <= Len(old)
    <3>1. i \in DOMAIN old /\ i \in 1 .. Len(old) /\ (i # 1 => i - 1 \in 1 .. Len(old))
      BY <1>1, <1>2, <2>1
    <3>2. old[i] = 1 + (IF i = 1 THEN before ELSE old[i - 1])
      BY <3>1 DEF Verify
    <3> QED
      BY <1>2, <3>1, <3>2
  <2>2. CASE i = Len(old) + 1
    <3>1. 1 \in 1 .. Len(batch) /\ body[i] = L + 1
      BY <1>2, <1>6, <2>2
    <3>2. CASE old = <<>>
      BY <1>2, <1>3, <1>5, <2>2, <3>1, <3>2
    <3>3. CASE old # <<>>
      <4>1. Len(old) \in 1 .. Len(old) /\ i - 1 = Len(old) /\ i # 1
        BY <1>1, <1>2, <2>2, <3>3
      <4>2. body[i - 1] = L
        BY <1>2, <1>4, <3>3, <4>1
      <4> QED
        BY <1>3, <3>1, <4>1, <4>2
    <3> QED
      BY <3>2, <3>3
  <2>3. CASE i > Len(old) + 1
    <3>1. PICK k \in 1 .. Len(batch) : i = Len(old) + k
      <4>1. i - Len(old) \in 1 .. Len(batch) /\ i = Len(old) + (i - Len(old))
        BY <1>2, <2>3
      <4> QED
        BY <4>1
    <3>2. k - 1 \in 1 .. Len(batch) /\ i - 1 = Len(old) + (k - 1) /\ i # 1 /\ k \in Nat
      BY <1>2, <2>3, <3>1
    <3>3. body[i] = L + k
      BY <1>2, <1>6, <3>1
    <3>4. body[i - 1] = L + (k - 1)
      BY <1>2, <1>6, <3>2
    <3>5. L \in Nat /\ k \in Nat
      BY <1>1, <1>3, <3>2
    <3>6. L + k = 1 + (L + (k - 1))
      BY <3>5
    <3>7. body[i] = 1 + body[i - 1]
      BY <3>3, <3>4, <3>6
    <3>8. i # 1
      BY <3>2
    <3> QED
      BY <3>7, <3>8
  <2>4. i \in Nat /\ Len(old) \in Nat
    BY <1>2
  <2>5. i <= Len(old) \/ i = Len(old) + 1 \/ i > Len(old) + 1
    BY <2>4
  <2> QED
    BY <2>1, <2>2, <2>3, <2>5
<1>14. Verify(new)
  <2> SUFFICES ASSUME NEW d \in Days, NEW i \in DOMAIN new[d]
               PROVE  new[d][i] = 1 + (IF i = 1 THEN LastOf(new, d) ELSE new[d][i - 1])
    BY DEF Verify
  <2>1. CASE d = D
    BY <1>9, <1>13, <2>1
  <2>2. CASE d < D
    <3>1. d \in Days \ {D} /\ d <= D
      <4>1. d \in Nat /\ D \in Nat
        BY <1>1
      <4>2. d # D /\ d <= D
        BY <2>2, <4>1
      <4> QED
        BY <4>2
    <3>2. new[d] = obj[d]
      BY <3>1
    <3>3. LastOf(new, d) = LastOf(obj, d)
      BY <1>11, <3>1
    <3>4. i \in DOMAIN obj[d]
      BY <3>2
    <3>5. obj[d][i] = 1 + (IF i = 1 THEN LastOf(obj, d) ELSE obj[d][i - 1])
      BY <3>4 DEF Verify
    <3> QED
      BY <3>2, <3>3, <3>5
  <2>3. CASE d > D
    <3>1. new[d] = <<>>
      BY <1>7, <2>3
    <3>2. i \in DOMAIN <<>>
      BY <3>1
    <3> QED
      BY <3>2
  <2> QED
    BY <1>1, <2>1, <2>2, <2>3
<1> QED
  BY <1>12, <1>14

(* What ChainShipped says when s is the only loop.                         *)
InChain(obj, batch, list, n) ==
    /\ Verify(obj) /\ Follow(batch, LastOf(obj, ShipDays + 1))
    /\ Follow(list, LastOf(obj, ShipDays + 1) + Len(batch))
    /\ n = LastOf(obj, ShipDays + 1) + Len(batch) + Len(list)

LEMMA ChainFacts ==
    ASSUME ShippingAssumption, IsFiniteSet(loops')
    PROVE  /\ \A s : ChainShipped /\ shipMishaps = 0 /\ loops = {s} /\ Follow(offered, 0) =>
                     InChain(object, shipper[s].batch, shipBuffer, Len(offered))
           /\ (\A s : shipMishaps' = 0 /\ loops' = {s} /\ Follow(offered', 0) =>
                      InChain(object', shipper'[s].batch, shipBuffer', Len(offered')))
              => ChainShipped'
<1>1. ASSUME NEW s, ChainShipped, shipMishaps = 0, loops = {s}, Follow(offered, 0)
      PROVE  InChain(object, shipper[s].batch, shipBuffer, Len(offered))
  <2>1. Cardinality(loops) = 1 /\ s \in loops
    BY <1>1, FS_Singleton
  <2> QED
    BY <1>1, <2>1, CheckFacts DEF ChainShipped, InChain
<1>2. ASSUME \A s : shipMishaps' = 0 /\ loops' = {s} /\ Follow(offered', 0) =>
                    InChain(object', shipper'[s].batch, shipBuffer', Len(offered'))
      PROVE  ChainShipped'
  <2> SUFFICES ASSUME shipMishaps' = 0, Cardinality(loops') = 1, Follow(offered', 0)
               PROVE  /\ Verify(object')
                      /\ \A s \in loops' :
                           /\ Follow(shipper'[s].batch, LastOf(object', ShipDays + 1))
                           /\ Follow(shipBuffer', LastOf(object', ShipDays + 1) + Len(shipper'[s].batch))
                           /\ Len(offered') = LastOf(object', ShipDays + 1) + Len(shipper'[s].batch)
                                                + Len(shipBuffer')
    BY CheckFacts DEF ChainShipped, Follow
  <2>1. PICK o : loops' = {o}
    BY FS_Singleton
  <2> QED
    BY <1>2, <2>1 DEF InChain
<1> QED
  BY <1>1, <1>2

(* The next entry signed is the next of the chain.                         *)
LEMMA ChainLonger ==
    ASSUME NEW seq \in Seq(Entries), NEW e \in Entries, NEW n \in Nat
    PROVE  /\ Follow(Append(seq, e), n) => Follow(seq, n) /\ e = n + Len(seq) + 1
           /\ Follow(seq, n) /\ e = n + Len(seq) + 1 => Follow(Append(seq, e), n)
<1>1. /\ Len(seq) \in Nat /\ DOMAIN seq = 1 .. Len(seq) /\ DOMAIN Append(seq, e) = 1 .. Len(seq) + 1
      /\ Append(seq, e)[Len(seq) + 1] = e /\ \A i \in 1 .. Len(seq) : Append(seq, e)[i] = seq[i]
  BY AppendHolds
<1>2. ASSUME Follow(Append(seq, e), n) PROVE Follow(seq, n) /\ e = n + Len(seq) + 1
  BY <1>1, <1>2 DEF Follow, Entries
<1>3. ASSUME Follow(seq, n), e = n + Len(seq) + 1 PROVE Follow(Append(seq, e), n)
  <2> SUFFICES ASSUME NEW i \in 1 .. Len(seq) + 1 PROVE Append(seq, e)[i] = n + i
    BY <1>1 DEF Follow
  <2>1. CASE i = Len(seq) + 1
    BY <1>1, <1>3, <2>1
  <2>2. CASE i # Len(seq) + 1
    <3>1. i \in 1 .. Len(seq)
      BY <1>1, <2>2
    <3> QED
      BY <1>1, <1>3, <3>1 DEF Follow
  <2> QED
    BY <2>1, <2>2
<1> QED
  BY <1>2, <1>3

LEMMA ChainShorter ==
    ASSUME NEW seq \in Seq(Entries), seq # <<>>, NEW n \in Nat, Follow(seq, n)
    PROVE  Head(seq) = n + 1 /\ Follow(Tail(seq), n + 1)
<1>1. /\ Len(seq) \in Nat \ {0} /\ DOMAIN seq = 1 .. Len(seq) /\ DOMAIN Tail(seq) = 1 .. Len(seq) - 1
      /\ Head(seq) = seq[1] /\ \A i \in 1 .. Len(seq) - 1 : Tail(seq)[i] = seq[i + 1]
  BY TailHolds
<1>2. Head(seq) = n + 1
  BY <1>1 DEF Follow
<1>3. ASSUME NEW i \in 1 .. Len(seq) - 1 PROVE Tail(seq)[i] = (n + 1) + i
  <2>1. i + 1 \in 1 .. Len(seq) /\ Tail(seq)[i] = seq[i + 1]
    BY <1>1
  <2>2. seq[i + 1] = n + (i + 1)
    BY <1>1, <2>1 DEF Follow
  <2> QED
    BY <2>1, <2>2
<1> QED
  BY <1>1, <1>2, <1>3 DEF Follow

LEMMA StepChain ==
    ASSUME ShippingAssumption, Placed, CopiesCurrent, OneLoopInOrder, ChainShipped, [ShipNext]_shipVars
    PROVE  ChainShipped'
<1>1. loops' = loops /\ loops \subseteq Shippers /\ IsFiniteSet(loops')
  <2>1. loops' = loops
    BY DEF ShipNext, Offer, ShipPop, ShipPopLost, ShipGoOn, ShipFlush, ShipPut, ShipPutFails,
           ShipRestart, ShipNextDay, shipVars
  <2>2. loops \subseteq Shippers
    BY DEF Placed, ShipTypeOK
  <2> QED
    BY <2>1, <2>2, FS_Subset DEF ShippingAssumption
<1> SUFFICES ASSUME NEW s, shipMishaps' = 0, loops' = {s}, Follow(offered', 0)
             PROVE  InChain(object', shipper'[s].batch, shipBuffer', Len(offered'))
  BY <1>1, ChainFacts
<1>2. /\ s \in loops /\ s \in Shippers /\ loops = {s} /\ shipMishaps \in Nat
      /\ offered \in Seq(Entries) /\ shipBuffer \in Seq(Entries) /\ object \in Objects
      /\ shipper[s] \in ShipperStates /\ shipper[s].batch \in Seq(Entries)
  BY <1>1, LoopSteps DEF Placed, ShipTypeOK, Entries, Objects, ShipperStates
<1> DEFINE L == LastOf(object, ShipDays + 1)  batch == shipper[s].batch
<1>3. L \in Nat /\ Len(batch) \in Nat /\ Len(shipBuffer) \in Nat /\ L + Len(batch) \in Nat
  <2>1. ShipDays + 1 \in Nat
    BY DEF ShippingAssumption
  <2>2. L \in Nat
    BY <1>2, <2>1, LastIsNat
  <2>3. Len(batch) \in Nat /\ Len(shipBuffer) \in Nat
    BY <1>2
  <2> QED
    BY <2>2, <2>3
<1>4. shipMishaps = 0 /\ Follow(offered, 0) => InChain(object, batch, shipBuffer, Len(offered))
  BY <1>1, <1>2, ChainFacts
<1> HIDE DEF L, batch
<1>5. CASE UNCHANGED <<offered, object, shipBuffer, shipMishaps>> /\ shipper'[s].batch = batch
  BY <1>4, <1>5
<1>6. ASSUME NEW e \in 1 .. ShipEntries, Offer(e)
      PROVE  InChain(object', shipper'[s].batch, shipBuffer', Len(offered'))
  <2>1. /\ offered' = Append(offered, e) /\ shipBuffer' = Append(shipBuffer, e) /\ e \in Entries
        /\ UNCHANGED <<object, shipper, shipMishaps>>
    BY <1>6 DEF Offer, Entries
  <2>2. Follow(offered, 0) /\ e = 0 + Len(offered) + 1
    BY <1>2, <2>1, ChainLonger
  <2>3. InChain(object, batch, shipBuffer, Len(offered))
    BY <1>4, <2>1, <2>2
  <2>4. Follow(shipBuffer, L + Len(batch)) /\ Len(offered) = L + Len(batch) + Len(shipBuffer)
    BY <2>3 DEF InChain, L
  <2>5. e = (L + Len(batch)) + Len(shipBuffer) + 1
    BY <1>3, <2>2, <2>4
  <2>6. Follow(shipBuffer', L + Len(batch))
    <3>1. ASSUME NEW n \in Nat, Follow(shipBuffer, n), e = n + Len(shipBuffer) + 1
          PROVE  Follow(Append(shipBuffer, e), n)
      BY <1>2, <2>1, <3>1, ChainLonger
    <3> QED
      BY <1>3, <2>1, <2>4, <2>5, <3>1
  <2>7. Len(offered') = L + Len(batch) + Len(shipBuffer')
    <3>1. Len(offered') = Len(offered) + 1 /\ Len(shipBuffer') = Len(shipBuffer) + 1
      BY <1>2, <2>1, AppendHolds
    <3> QED
      BY <1>3, <2>4, <3>1
  <2>8. shipper'[s].batch = batch /\ object' = object
    BY <2>1 DEF batch
  <2> QED
    BY <2>3, <2>6, <2>7, <2>8 DEF InChain, L
<1>7. CASE ShipPop(s)
  <2>1. UNCHANGED <<offered, object, shipMishaps>>
    BY <1>7 DEF ShipPop
  <2>2. CASE /\ shipBuffer' = shipBuffer
             /\ Becomes(s, "decide", shipper[s].batch, shipper[s].day, shipper[s].copy)
    BY <1>5, <2>1, <2>2 DEF Becomes, batch
  <2>3. CASE /\ shipBuffer # <<>> /\ shipBuffer' = Tail(shipBuffer)
             /\ Becomes(s, "decide", Append(shipper[s].batch, Head(shipBuffer)),
                        shipper[s].day, shipper[s].copy)
    <3> DEFINE e == Head(shipBuffer)  longer == Append(batch, e)
    <3>1. e \in Entries /\ Len(shipBuffer') = Len(shipBuffer) - 1
      BY <1>2, <2>3, TailHolds
    <3>2. /\ Verify(object) /\ Follow(batch, L) /\ Follow(shipBuffer, L + Len(batch))
          /\ Len(offered) = L + Len(batch) + Len(shipBuffer)
      BY <1>4, <2>1 DEF InChain, L
    <3>3. e = (L + Len(batch)) + 1 /\ Follow(shipBuffer', (L + Len(batch)) + 1)
      BY <1>2, <1>3, <2>3, <3>2, ChainShorter
    <3>4. shipper'[s].batch = longer
      BY <2>3 DEF Becomes, batch
    <3>5. batch \in Seq(Entries)
      BY <1>2 DEF batch
    <3> HIDE DEF e
    <3>6. Len(longer) = Len(batch) + 1 /\ Follow(longer, L)
      <4>1. e = L + Len(batch) + 1
        BY <1>3, <3>3
      <4> QED
        BY <1>3, <3>1, <3>2, <3>5, <4>1, AppendHolds, ChainLonger
    <3> HIDE DEF longer
    <3>7. (L + Len(batch)) + 1 = L + Len(longer)
          /\ Len(offered) = L + Len(longer) + Len(shipBuffer')
      BY <1>3, <3>1, <3>2, <3>6
    <3>8. Follow(shipBuffer', L + Len(longer))
      BY <3>3, <3>7
    <3> QED
      BY <2>1, <3>2, <3>4, <3>6, <3>7, <3>8 DEF InChain, L
  <2> QED
    BY <1>2, <1>7, <2>2, <2>3, LoopSteps DEF Placed
<1>8. CASE ShipPut(s)
  <2>1. /\ UNCHANGED <<offered, shipBuffer, shipMishaps>> /\ shipper[s].at = "put"
        /\ object' = [object EXCEPT ![shipper[s].day] = BodyOf(s)]
    BY <1>8 DEF ShipPut
  <2>2. PICK D \in Days : D = shipper[s].day
    BY <1>2 DEF ShipperStates
  <2>3. overlaps = 0 /\ \A d \in Days : d > D => object[d] = <<>>
    BY <1>2, <2>1, <2>2 DEF OneLoopInOrder, Flushing
  <2>4. shipper[s].copy = object[D]
    BY <1>2, <2>1, <2>2, <2>3 DEF CopiesCurrent, Flushing
  <2>5. batch \in Seq(Entries) /\ object[D] \in Seq(Entries)
    BY <1>2, <2>2 DEF batch, Objects
  <2>6. object[D] \o batch \in Seq(Entries)
    BY <2>5, ConcatHolds
  <2>7. object' = [object EXCEPT ![D] = object[D] \o batch]
    BY <2>1, <2>2, <2>4 DEF BodyOf, batch
  <2>8. /\ object' \in Objects /\ object'[D] = object[D] \o batch
        /\ \A d \in Days \ {D} : object'[d] = object[d]
    BY <1>2, <2>6, <2>7 DEF Objects
  <2>9. /\ Verify(object) /\ Follow(batch, L) /\ Follow(shipBuffer, L + Len(batch))
        /\ Len(offered) = L + Len(batch) + Len(shipBuffer)
    BY <1>4, <2>1 DEF InChain, L
  <2>10. ASSUME NEW new, new = object' PROVE Verify(new) /\ LastOf(new, ShipDays + 1) = L + Len(batch)
    <3>1. /\ new \in Objects /\ new[D] = object[D] \o batch
          /\ \A d \in Days \ {D} : new[d] = object[d]
      BY <2>8, <2>10
    <3> QED
      <4>1. Follow(batch, LastOf(object, ShipDays + 1))
        BY <2>9 DEF L
      <4>2. Verify(new) /\ LastOf(new, ShipDays + 1) = LastOf(object, ShipDays + 1) + Len(batch)
        <5>1. /\ object \in Objects /\ batch \in Seq(Entries) /\ Verify(object)
              /\ \A d \in Days : d > D => object[d] = <<>>
          BY <1>2, <2>3, <2>5, <2>9
        <5> QED
          BY <3>1, <4>1, <5>1, VerifyLonger, ZenonT(30)
      <4> QED
        BY <4>2 DEF L
  <2>11. shipper'[s].batch = <<>>
    BY <1>2, <1>8, LoopSteps DEF Becomes, Placed
  <2>12. /\ Follow(<<>>, L + Len(batch)) /\ Len(<<>>) = 0
         /\ (L + Len(batch)) + Len(<<>>) = L + Len(batch)
    BY <1>3 DEF Follow
  <2> QED
    BY <2>1, <2>9, <2>10, <2>11, <2>12 DEF InChain
<1>9. CASE ShipGoOn(s) \/ ShipFlush(s)
  <2>1. UNCHANGED <<offered, object, shipBuffer, shipMishaps>> 
    BY <1>9 DEF ShipGoOn, ShipFlush
  <2>2. shipper'[s].batch = batch
    BY <1>2, <1>9, LoopSteps DEF Becomes, Placed, batch
  <2> QED
    BY <1>5, <2>1, <2>2
<1>10. CASE ShipPopLost(s) \/ ShipPutFails(s) \/ ShipRestart(s)
  BY <1>2, <1>10 DEF ShipPopLost, ShipPutFails, ShipRestart, ShipMishap
<1>11. CASE ShipNextDay \/ UNCHANGED shipVars
  BY <1>5, <1>11 DEF ShipNextDay, shipVars, batch
<1> QED
  BY <1>2, <1>6, <1>7, <1>8, <1>9, <1>10, <1>11 DEF ShipNext

LEMMA ShipStarts == ASSUME ShippingAssumption, ShipInit PROVE ShipInv
<1>1. /\ offered = <<>> /\ shipBuffer = <<>> /\ today = 1 /\ shipMishaps = 0 /\ overlaps = 0
      /\ \A d \in Days : object[d] = <<>>
      /\ \A s \in Shippers : /\ shipper[s].batch = <<>> /\ shipper[s].copy = <<>>
                             /\ shipper[s].day = 1 /\ shipper[s].at = "pop"
      /\ loops \subseteq Shippers /\ 1 \in Days /\ ShipDays + 1 \in Nat /\ Days \subseteq Nat
  BY DEF ShipInit, ShippingAssumption, Days
<1>2. ShipTypeOK
  <2>1. object \in [Days -> Seq(1 .. ShipEntries)]
    BY EmptyHolds DEF ShipInit
  <2>2. shipper \in [Shippers -> [at : {"pop", "decide", "put"}, batch : Seq(1 .. ShipEntries),
                                  day : Days, copy : Seq(1 .. ShipEntries)]]
    BY <1>1, EmptyHolds DEF ShipInit
  <2> QED
    BY <1>1, <2>1, <2>2, EmptyHolds DEF ShipTypeOK, Flushing
<1>3. InOnePlace
  <2>1. \A d \in Days : DayEntries(d) = {}
    BY <1>1, EmptyHolds DEF DayEntries, Flushing
  <2>2. \A p \in ShipPlaces : Holds(p) = {}
    BY <1>1, <2>1, EmptyHolds, HoldsFacts DEF ShipPlaces
  <2> QED
    BY <2>2 DEF InOnePlace
<1>4. OnceThere /\ CopiesCurrent
  BY <1>1, EmptyHolds DEF OnceThere, CopiesCurrent, Flushing
<1>5. OneLoopInOrder
  BY <1>1 DEF OneLoopInOrder, Flushing
<1>6. NothingLost
  <2>1. \A s \in loops : shipper[s].batch = <<>>
    BY <1>1
  <2> QED
    BY <1>1, <2>1, EmptyHolds DEF NothingLost
<1>7. ChainShipped
  <2>1. \A c \in Days : object[c] = <<>>
    BY <1>1
  <2>2. {d \in Days : d < ShipDays + 1 /\ object[d] # <<>>} = {}
    BY <2>1
  <2>3. LastBefore(ShipDays + 1) = 0
    BY <2>2 DEF LastBefore
  <2>4. S3Verifies
    BY <2>1 DEF S3Verifies
  <2>5. Follow(<<>>, 0) /\ Len(<<>>) = 0 /\ 0 + 0 = 0 /\ \A s \in loops : shipper[s].batch = <<>>
    BY <1>1 DEF Follow
  <2> QED
    BY <1>1, <2>3, <2>4, <2>5 DEF ChainShipped
<1> QED
  BY <1>2, <1>3, <1>4, <1>5, <1>6, <1>7 DEF ShipInv

(* An entry in one place, and once there, is on S3 once.                   *)
LEMMA OnceOnS3 == ASSUME Placed PROVE ShippedOnce
<1> SUFFICES ASSUME NEW c \in Days, NEW d \in Days, NEW i \in DOMAIN object[c], NEW j \in DOMAIN object[d],
                    object[c][i] = object[d][j]
             PROVE  c = d /\ i = j
  BY DEF ShippedOnce
<1>1. object[c][i] \in DayEntries(c) /\ object[c][i] \in DayEntries(d)
  BY DEF DayEntries, ToSet
<1>2. c = d
  <2> SUFFICES ASSUME c # d PROVE FALSE
    OBVIOUS
  <2>1. /\ <<"day", c>> \in ShipPlaces /\ <<"day", d>> \in ShipPlaces /\ <<"day", c>> # <<"day", d>>
    BY DEF ShipPlaces
  <2>2. Holds(<<"day", c>>) \cap Holds(<<"day", d>>) = {}
    BY <2>1 DEF Placed, InOnePlace
  <2> QED
    BY <1>1, <2>2, HoldsFacts
<1>3. i = j
  BY <1>2 DEF Placed, OnceThere, IsInjective
<1> QED
  BY <1>2, <1>3

(* The copy on S3 tells the truth about the ledger: ReplicaFaithful, for   *)
(* any number of loops and entries and whatever fails (LedgerShipping).    *)
THEOREM CopyFaithful == ShipSpec => []ReplicaFaithful
<1>1. ShipInit => ShipInv
  BY ShippingAssumption, ShipStarts
<1>2. ShipInv /\ [ShipNext]_shipVars => ShipInv'
  <2> SUFFICES ASSUME ShipInv, [ShipNext]_shipVars PROVE ShipInv'
    OBVIOUS
  <2>1. Placed /\ CopiesCurrent /\ OneLoopInOrder /\ NothingLost /\ ChainShipped
    BY DEF ShipInv, Placed
  <2>2. Placed'
    BY <2>1, ShippingAssumption, StepPlaced
  <2>3. CopiesCurrent'
    BY <2>1, ShippingAssumption, StepCopies
  <2>4. OneLoopInOrder'
    BY <2>1, ShippingAssumption, StepInOrder
  <2>5. NothingLost'
    BY <2>1, ShippingAssumption, StepLost
  <2>6. ChainShipped'
    BY <2>1, ShippingAssumption, StepChain
  <2> QED
    BY <2>2, <2>3, <2>4, <2>5, <2>6 DEF ShipInv, Placed
<1>3. ShipInv => ReplicaFaithful
  BY OnceOnS3 DEF ShipInv, Placed, ReplicaFaithful
<1> QED
  BY <1>1, <1>2, <1>3, PTL DEF ShipSpec

-----------------------------------------------------------------------------
(* The proofs of inclusion.  First the tree: a leaf is a hash and has no   *)
(* type, so the lemmas are about sequences of any values.                  *)

(* A function on 1 .. n is a sequence of length n. *)
LEMMA SeqFromFunction ==
    ASSUME NEW n \in Nat, NEW f, f = [i \in 1 .. n |-> f[i]]
    PROVE  IsSeq(f) /\ Len(f) = n
<1>1. f \in [1 .. n -> Elems(f)]
  BY DEF Elems
<1>2. f \in Seq(Elems(f))
  BY <1>1
<1> QED
  BY <1>1, <1>2 DEF IsSeq

(* The last node of an odd number is repeated, once.                       *)
LEMMA EvenFacts ==
    ASSUME NEW l, IsSeq(l), Len(l) >= 1
    PROVE  /\ Len(l) \in Nat
           /\ Len(Even(l)) \div 2 = (Len(l) + 1) \div 2
           /\ (Len(l) + 1) \div 2 \in Nat /\ (Len(l) + 1) \div 2 >= 1
           /\ \A i \in 1 .. Len(l) : Even(l)[i] = l[i]
           /\ \A i \in 1 .. 2 * ((Len(l) + 1) \div 2) : \E k \in 1 .. Len(l) : Even(l)[i] = l[k]
<1>1. l \in Seq(Elems(l)) /\ Len(l) \in Nat
  BY DEF IsSeq
<1>2. CASE Len(l) % 2 = 0
  BY <1>1, <1>2 DEF Even
<1>3. CASE Len(l) % 2 # 0
  <2> DEFINE t == Append(l, l[Len(l)])
  <2>1. Even(l) = t
    BY <1>3 DEF Even
  <2>2. l[Len(l)] \in Elems(l)
    BY <1>1 DEF Elems
  <2>3. /\ Len(t) = Len(l) + 1 /\ t[Len(l) + 1] = l[Len(l)]
        /\ \A i \in 1 .. Len(l) : t[i] = l[i]
    BY <1>1, <2>2
  <2> HIDE DEF t
  <2>4. 2 * ((Len(l) + 1) \div 2) = Len(l) + 1
    BY <1>1, <1>3
  <2>5. \A i \in 1 .. Len(l) + 1 : \E k \in 1 .. Len(l) : t[i] = l[k]
    BY <1>1, <2>3
  <2> QED
    BY <1>1, <2>1, <2>3, <2>4, <2>5
<1> QED
  BY <1>2, <1>3

(* A level has half the nodes of the one below it, rounded up, and its     *)
(* nodes are made of two of them.                                          *)
LEMMA UpperFacts ==
    ASSUME NEW l, IsSeq(l), Len(l) >= 1
    PROVE  /\ IsSeq(UpperLevel(l))
           /\ Len(UpperLevel(l)) = (Len(l) + 1) \div 2
           /\ Len(UpperLevel(l)) \in Nat /\ Len(UpperLevel(l)) >= 1
           /\ \A i \in 1 .. Len(UpperLevel(l)) :
                UpperLevel(l)[i] = Node(Even(l)[2 * i - 1], Even(l)[2 * i])
<1> DEFINE n == (Len(l) + 1) \div 2
           u == UpperLevel(l)
<1>1. n \in Nat /\ n >= 1 /\ Len(Even(l)) \div 2 = n
  BY EvenFacts
<1>2. u = [i \in 1 .. n |-> Node(Even(l)[2 * i - 1], Even(l)[2 * i])]
  BY <1>1, Zenon DEF UpperLevel
<1>3. u = [i \in 1 .. n |-> u[i]] /\ \A i \in 1 .. n : u[i] = Node(Even(l)[2 * i - 1], Even(l)[2 * i])
  BY <1>2
<1> HIDE DEF n, u
<1>4. IsSeq(u) /\ Len(u) = n
  BY <1>1, <1>3, SeqFromFunction
<1> QED
  BY <1>1, <1>3, <1>4 DEF u, n

(* The node above a node of an index is made of it and its sibling, in     *)
(* their order.                                                            *)
LEMMA PairFacts ==
    ASSUME NEW l, IsSeq(l), NEW index \in Nat, index + 1 <= Len(l)
    PROVE  /\ index \div 2 \in Nat /\ index \div 2 + 1 <= Len(UpperLevel(l))
           /\ index % 2 = 1 =>
                UpperLevel(l)[index \div 2 + 1] = Node(Even(l)[Sibling(index) + 1], l[index + 1])
           /\ index % 2 # 1 =>
                UpperLevel(l)[index \div 2 + 1] = Node(l[index + 1], Even(l)[Sibling(index) + 1])
<1> DEFINE i == index \div 2 + 1
<1>1. Len(l) \in Nat /\ Len(l) >= 1
  BY DEF IsSeq
<1>2. /\ i \in 1 .. Len(UpperLevel(l)) /\ i - 1 \in Nat
      /\ index % 2 = 1 => 2 * i = index + 1 /\ 2 * i - 1 = index
      /\ index % 2 # 1 => 2 * i = index + 2 /\ 2 * i - 1 = index + 1
      /\ index % 2 = 1 => Sibling(index) + 1 = index
      /\ index % 2 # 1 => Sibling(index) + 1 = index + 2
  <2>1. Len(UpperLevel(l)) = (Len(l) + 1) \div 2
    BY <1>1, UpperFacts
  <2> QED
    BY <1>1, <2>1 DEF Sibling
<1>3. UpperLevel(l)[i] = Node(Even(l)[2 * i - 1], Even(l)[2 * i])
  BY <1>1, <1>2, UpperFacts
<1>4. Even(l)[index + 1] = l[index + 1]
  BY <1>1, EvenFacts
<1> HIDE DEF i
<1> QED
  BY <1>2, <1>3, <1>4 DEF i

(* Two nodes are equal only if both halves are, two hashes of entries only *)
(* if the payloads and the links are, and a node is no hash of an entry.   *)
LEMMA SameNode ==
    ASSUME NEW a, NEW b, NEW c, NEW d, Node(a, b) = Node(c, d) PROVE a = c /\ b = d
BY DEF Node

LEMMA SameHash ==
    ASSUME NEW a, NEW b, NEW c, NEW d, Hash(a, b) = Hash(c, d) PROVE a = c /\ b = d
BY DEF Hash

LEMMA HashIsNoNode ==
    ASSUME NEW a, NEW b, NEW c, NEW d PROVE Hash(a, b) # Node(c, d)
BY DEF Hash, Node

LEMMA HashIsThere ==
    ASSUME NEW a, NEW b PROVE Hash(a, b) # Missing
BY DEF Hash, Missing

(* Induction along the levels, upwards and downwards.                      *)
LEMMA Ascent ==
    ASSUME NEW n \in Nat, NEW S, 0 \in S, \A k \in 1 .. n : k - 1 \in S => k \in S
    PROVE  \A k \in 0 .. n : k \in S
<1> DEFINE D == {k \in 0 .. n : k \notin S}
<1>1. ASSUME D # {} PROVE FALSE
  <2>1. D \subseteq Nat
    OBVIOUS
  <2>2. PICK d \in D : \A e \in D : d <= e
    BY <1>1, <2>1, LeastNumber
  <2>3. d \in 1 .. n /\ d - 1 \in 0 .. n /\ d - 1 \notin D
    BY <2>2
  <2> QED
    BY <2>2, <2>3
<1> QED
  BY <1>1

LEMMA Descent ==
    ASSUME NEW n \in Nat, NEW S, n \in S, \A k \in 1 .. n : k \in S => k - 1 \in S
    PROVE  \A k \in 0 .. n : k \in S
<1> DEFINE T == {k \in Nat : n - k \in S}
<1>1. 0 \in T
  OBVIOUS
<1>2. ASSUME NEW k \in 1 .. n, k - 1 \in T PROVE k \in T
  <2>1. n - (k - 1) \in 1 .. n /\ n - (k - 1) \in S /\ n - (k - 1) - 1 = n - k
    BY <1>2
  <2>2. n - (k - 1) - 1 \in S
    BY <2>1
  <2> QED
    BY <2>1, <2>2
<1> HIDE DEF T
<1>3. \A k \in 0 .. n : k \in T
  BY <1>1, <1>2, Ascent
<1>4. ASSUME NEW k \in 0 .. n PROVE k \in S
  <2>1. n - k \in 0 .. n /\ n - (n - k) = k
    OBVIOUS
  <2>2. n - k \in T
    BY <1>3, <2>1
  <2> QED
    BY <2>1, <2>2 DEF T
<1> QED
  BY <1>4

(* Each recursion of the model has a solution, whatever its length, so its *)
(* CHOOSE is one: the levels, the index of a leaf on them, the hashes on   *)
(* the way from a leaf to the root.                                        *)
LevelsUpTo(leaves, n, f) ==
    f = [h \in 0 .. n |-> IF h = 0 THEN leaves ELSE UpperLevel(f[h - 1])]
IndexUpTo(pos, n, f) ==
    f = [h \in 0 .. n |-> IF h = 0 THEN pos - 1 ELSE f[h - 1] \div 2]
HashesUpTo(leaf, proof, n, f) ==
    f = [h \in 0 .. n |-> IF h = 0 THEN leaf
                          ELSE IF proof[h].left THEN Node(proof[h].node, f[h - 1])
                          ELSE Node(f[h - 1], proof[h].node)]

LEMMA LevelsExist ==
    ASSUME NEW leaves, NEW n \in Nat PROVE \E f : LevelsUpTo(leaves, n, f)
<1> DEFINE S == {k \in Nat : \E f : LevelsUpTo(leaves, k, f)}
<1>1. 0 \in S
  <2> DEFINE f == [h \in 0 .. 0 |-> leaves]
  <2>1. LevelsUpTo(leaves, 0, f)
    BY DEF LevelsUpTo
  <2> QED
    BY <2>1
<1>2. ASSUME NEW k \in 1 .. n, k - 1 \in S PROVE k \in S
  <2>1. PICK g : LevelsUpTo(leaves, k - 1, g)
    BY <1>2
  <2> DEFINE f == [h \in 0 .. k |-> IF h = k THEN UpperLevel(g[k - 1]) ELSE g[h]]
  <2>2. \A h \in 0 .. k - 1 : g[h] = IF h = 0 THEN leaves ELSE UpperLevel(g[h - 1])
    BY <2>1, Zenon DEF LevelsUpTo
  <2>3. \A h \in 0 .. k : f[h] = IF h = 0 THEN leaves ELSE UpperLevel(f[h - 1])
    BY <2>2
  <2>4. LevelsUpTo(leaves, k, f)
    BY <2>3 DEF LevelsUpTo
  <2> QED
    BY <2>4
<1> HIDE DEF S
<1>3. n \in S
  BY <1>1, <1>2, Ascent
<1> QED
  BY <1>3 DEF S

LEMMA LevelsFacts ==
    ASSUME NEW leaves, Len(leaves) \in Nat
    PROVE  /\ LevelsOf(leaves)[0] = leaves
           /\ \A h \in 1 .. Len(leaves) : LevelsOf(leaves)[h] = UpperLevel(LevelsOf(leaves)[h - 1])
<1> DEFINE n == Len(leaves)
<1>1. \E f : LevelsUpTo(leaves, n, f)
  BY LevelsExist
<1>2. LevelsUpTo(leaves, n, LevelsOf(leaves))
  BY <1>1, Zenon DEF LevelsOf, LevelsUpTo
<1>3. \A h \in 0 .. n :
        LevelsOf(leaves)[h] = IF h = 0 THEN leaves ELSE UpperLevel(LevelsOf(leaves)[h - 1])
  BY <1>2, Zenon DEF LevelsUpTo
<1> HIDE DEF n
<1> QED
  BY <1>3 DEF n

LEMMA IndexExists ==
    ASSUME NEW pos, NEW n \in Nat PROVE \E f : IndexUpTo(pos, n, f)
<1> DEFINE S == {k \in Nat : \E f : IndexUpTo(pos, k, f)}
<1>1. 0 \in S
  <2> DEFINE f == [h \in 0 .. 0 |-> pos - 1]
  <2>1. IndexUpTo(pos, 0, f)
    BY DEF IndexUpTo
  <2> QED
    BY <2>1
<1>2. ASSUME NEW k \in 1 .. n, k - 1 \in S PROVE k \in S
  <2>1. PICK g : IndexUpTo(pos, k - 1, g)
    BY <1>2
  <2> DEFINE f == [h \in 0 .. k |-> IF h = k THEN g[k - 1] \div 2 ELSE g[h]]
  <2>2. \A h \in 0 .. k - 1 : g[h] = IF h = 0 THEN pos - 1 ELSE g[h - 1] \div 2
    BY <2>1, Zenon DEF IndexUpTo
  <2>3. \A h \in 0 .. k : f[h] = IF h = 0 THEN pos - 1 ELSE f[h - 1] \div 2
    BY <2>2
  <2>4. IndexUpTo(pos, k, f)
    BY <2>3 DEF IndexUpTo
  <2> QED
    BY <2>4
<1> HIDE DEF S
<1>3. n \in S
  BY <1>1, <1>2, Ascent
<1> QED
  BY <1>3 DEF S

LEMMA IndexFacts ==
    ASSUME NEW pos \in Nat \ {0}, NEW n \in Nat
    PROVE  /\ IndexOn(pos, n)[0] = pos - 1
           /\ \A h \in 0 .. n : IndexOn(pos, n)[h] \in Nat
           /\ \A h \in 1 .. n : IndexOn(pos, n)[h] = IndexOn(pos, n)[h - 1] \div 2
<1> DEFINE index == IndexOn(pos, n)
<1>1. \E f : IndexUpTo(pos, n, f)
  BY IndexExists
<1>2. IndexUpTo(pos, n, index)
  BY <1>1, Zenon DEF IndexOn, IndexUpTo
<1>3. \A h \in 0 .. n : index[h] = IF h = 0 THEN pos - 1 ELSE index[h - 1] \div 2
  BY <1>2, Zenon DEF IndexUpTo
<1> HIDE DEF index
<1> DEFINE S == {h \in Nat : index[h] \in Nat}
<1>4. 0 \in S
  BY <1>3
<1>5. ASSUME NEW h \in 1 .. n, h - 1 \in S PROVE h \in S
  BY <1>3, <1>5
<1> HIDE DEF S
<1>6. \A h \in 0 .. n : h \in S
  BY <1>4, <1>5, Ascent
<1>7. \A h \in 0 .. n : index[h] \in Nat
  BY <1>6 DEF S
<1> QED
  BY <1>3, <1>7 DEF index

LEMMA HashesExist ==
    ASSUME NEW leaf, NEW proof, NEW n \in Nat PROVE \E f : HashesUpTo(leaf, proof, n, f)
<1> DEFINE S == {k \in Nat : \E f : HashesUpTo(leaf, proof, k, f)}
<1>1. 0 \in S
  <2> DEFINE f == [h \in 0 .. 0 |-> leaf]
  <2>1. HashesUpTo(leaf, proof, 0, f)
    BY DEF HashesUpTo
  <2> QED
    BY <2>1
<1>2. ASSUME NEW k \in 1 .. n, k - 1 \in S PROVE k \in S
  <2>1. PICK g : HashesUpTo(leaf, proof, k - 1, g)
    BY <1>2
  <2> DEFINE f == [h \in 0 .. k |-> IF h = k THEN IF proof[k].left THEN Node(proof[k].node, g[k - 1])
                                                  ELSE Node(g[k - 1], proof[k].node)
                                    ELSE g[h]]
  <2>2. \A h \in 0 .. k - 1 : g[h] = IF h = 0 THEN leaf
                                     ELSE IF proof[h].left THEN Node(proof[h].node, g[h - 1])
                                     ELSE Node(g[h - 1], proof[h].node)
    BY <2>1, Zenon DEF HashesUpTo
  <2>3. \A h \in 0 .. k : f[h] = IF h = 0 THEN leaf
                                 ELSE IF proof[h].left THEN Node(proof[h].node, f[h - 1])
                                 ELSE Node(f[h - 1], proof[h].node)
    BY <2>2
  <2>4. HashesUpTo(leaf, proof, k, f)
    BY <2>3 DEF HashesUpTo
  <2> QED
    BY <2>4
<1> HIDE DEF S
<1>3. n \in S
  BY <1>1, <1>2, Ascent
<1> QED
  BY <1>3 DEF S

LEMMA HashesFacts ==
    ASSUME NEW leaf, NEW proof, Len(proof) \in Nat
    PROVE  /\ HashesOf(leaf, proof)[0] = leaf
           /\ \A h \in 1 .. Len(proof) :
                /\ proof[h].left => HashesOf(leaf, proof)[h] = Node(proof[h].node, HashesOf(leaf, proof)[h - 1])
                /\ ~proof[h].left => HashesOf(leaf, proof)[h] = Node(HashesOf(leaf, proof)[h - 1], proof[h].node)
<1> DEFINE n == Len(proof)
           hash == HashesOf(leaf, proof)
<1>1. \E f : HashesUpTo(leaf, proof, n, f)
  BY HashesExist
<1>2. HashesUpTo(leaf, proof, n, hash)
  BY <1>1, Zenon DEF HashesOf, HashesUpTo
<1>3. \A h \in 0 .. n : hash[h] = IF h = 0 THEN leaf
                                  ELSE IF proof[h].left THEN Node(proof[h].node, hash[h - 1])
                                  ELSE Node(hash[h - 1], proof[h].node)
  BY <1>2, Zenon DEF HashesUpTo
<1> HIDE DEF n, hash
<1> QED
  BY <1>3 DEF n, hash

(* What halving does to the number of nodes of a level, and to an index.   *)
LEMMA HalvingFacts ==
    /\ \A x, y \in Nat : x <= y => (x + 1) \div 2 <= (y + 1) \div 2
    /\ \A x, y \in Nat : x + 1 <= y => x \div 2 + 1 <= (y + 1) \div 2
    /\ \A x \in Nat : x >= 1 => (x + 1) \div 2 = 1 \/ (x + 1) \div 2 + 1 <= x
    /\ \A x \in Nat : x = 1 => (x + 1) \div 2 = 1
OBVIOUS

Width(leaves, h) == Len(LevelsOf(leaves)[h])

(* Every level of a tree with a leaf has a node, and above the leaves each *)
(* level with more than one is shorter than the one below it; so the loop  *)
(* that builds them ends, on the first level of one node.                  *)
LEMMA LevelWidths ==
    ASSUME NEW leaves, IsSeq(leaves), Len(leaves) >= 1
    PROVE  /\ Len(leaves) \in Nat /\ Width(leaves, 0) = Len(leaves)
           /\ \A h \in 0 .. Len(leaves) :
                IsSeq(LevelsOf(leaves)[h]) /\ Width(leaves, h) \in Nat /\ Width(leaves, h) >= 1
           /\ \A h \in 1 .. Len(leaves) : Width(leaves, h) = (Width(leaves, h - 1) + 1) \div 2
           /\ Width(leaves, Len(leaves)) = 1
<1> DEFINE level == LevelsOf(leaves)
<1>0. PICK n \in Nat : n = Len(leaves) /\ n >= 1
  BY DEF IsSeq
<1>1. \A h : Width(leaves, h) = Len(level[h])
  BY DEF Width
<1>2. level[0] = leaves /\ \A h \in 1 .. n : level[h] = UpperLevel(level[h - 1])
  BY <1>0, LevelsFacts
<1> HIDE DEF level
<1> DEFINE S == {h \in Nat : IsSeq(level[h]) /\ Width(leaves, h) \in Nat /\ Width(leaves, h) >= 1}
<1>3. 0 \in S /\ Width(leaves, 0) = n
  BY <1>0, <1>1, <1>2
<1>4. ASSUME NEW h \in 1 .. n, h - 1 \in S PROVE h \in S /\ Width(leaves, h) = (Width(leaves, h - 1) + 1) \div 2
  <2>1. IsSeq(level[h - 1]) /\ Len(level[h - 1]) >= 1 /\ level[h] = UpperLevel(level[h - 1])
    BY <1>0, <1>1, <1>2, <1>4
  <2>2. /\ IsSeq(level[h]) /\ Len(level[h]) = (Len(level[h - 1]) + 1) \div 2
        /\ Len(level[h]) \in Nat /\ Len(level[h]) >= 1
    BY <2>1, UpperFacts
  <2>3. Width(leaves, h) = Len(level[h]) /\ Width(leaves, h - 1) = Len(level[h - 1])
    BY <1>1, Zenon
  <2>4. Width(leaves, h) \in Nat /\ Width(leaves, h) >= 1
    BY <2>2, <2>3
  <2>5. Width(leaves, h) = (Width(leaves, h - 1) + 1) \div 2
    BY <2>2, <2>3, Zenon
  <2>6. h \in S
    BY <2>2, <2>4
  <2> QED
    BY <2>5, <2>6
<1> HIDE DEF S
<1>5. \A h \in 0 .. n : h \in S
  BY <1>0, <1>3, <1>4, Ascent
<1>6. \A h \in 0 .. n : IsSeq(level[h]) /\ Width(leaves, h) \in Nat /\ Width(leaves, h) >= 1
  BY <1>5 DEF S
<1>7. ASSUME NEW h \in 1 .. n PROVE Width(leaves, h) = (Width(leaves, h - 1) + 1) \div 2
  <2>1. h - 1 \in S
    BY <1>5
  <2> QED
    BY <1>4, <2>1
<1> DEFINE T == {h \in Nat : Width(leaves, h) = 1 \/ Width(leaves, h) + h <= n}
<1>8. 0 \in T
  BY <1>3
<1>9. ASSUME NEW h \in 1 .. n, h - 1 \in T PROVE h \in T
  <2>1. PICK x \in Nat, y \in Nat : x = Width(leaves, h - 1) /\ y = Width(leaves, h) /\ x >= 1
    BY <1>6
  <2>2. y = (x + 1) \div 2 /\ (x = 1 \/ x + (h - 1) <= n)
    BY <1>7, <1>9, <2>1
  <2>3. (x = 1 => y = 1) /\ (y = 1 \/ y + 1 <= x)
    BY <2>1, <2>2, HalvingFacts
  <2>4. y = 1 \/ y + h <= n
    BY <2>2, <2>3
  <2> QED
    BY <2>1, <2>4
<1> HIDE DEF T
<1>10. n \in T
  <2>1. \A h \in 0 .. n : h \in T
    BY <1>8, <1>9, Ascent
  <2> QED
    BY <2>1
<1>11. Width(leaves, n) = 1
  BY <1>6, <1>10 DEF T
<1> QED
  BY <1>0, <1>3, <1>6, <1>7, <1>11 DEF level

LEMMA TreeFacts ==
    ASSUME NEW leaves, IsSeq(leaves), Len(leaves) >= 1
    PROVE  /\ Height(leaves) \in 0 .. Len(leaves) /\ Height(leaves) \in Nat
           /\ Width(leaves, Height(leaves)) = 1
           /\ \A h \in 0 .. Height(leaves) - 1 : Width(leaves, h) > 1
<1>0. PICK n \in Nat : n = Len(leaves)
  BY DEF IsSeq
<1>1. \A h \in 0 .. n : Width(leaves, h) \in Nat /\ Width(leaves, h) >= 1
  BY <1>0, LevelWidths
<1>2. Width(leaves, n) = 1
  BY <1>0, LevelWidths
<1> DEFINE D == {h \in 0 .. n : Width(leaves, h) <= 1}
<1>3. n \in D /\ D \subseteq Nat
  BY <1>2
<1>4. PICK d \in D : \A e \in D : d <= e
  <2> HIDE DEF D
  <2> QED
    BY <1>3, LeastNumber
<1>5. d \in 0 .. n /\ Width(leaves, d) <= 1 /\ \A k \in 0 .. d - 1 : Width(leaves, k) > 1
  BY <1>1, <1>4
<1>6. Height(leaves) = CHOOSE h \in 0 .. n :
         Width(leaves, h) <= 1 /\ \A k \in 0 .. h - 1 : Width(leaves, k) > 1
  BY <1>0, Zenon DEF Height, Width
<1>7. /\ Height(leaves) \in 0 .. n /\ Width(leaves, Height(leaves)) <= 1
      /\ \A k \in 0 .. Height(leaves) - 1 : Width(leaves, k) > 1
  BY <1>5, <1>6, Zenon
<1>8. Width(leaves, Height(leaves)) = 1
  BY <1>1, <1>7
<1> HIDE DEF D
<1> QED
  BY <1>0, <1>7, <1>8

(* A tree over more leaves has wider levels and is not lower.              *)
LEMMA HeightMonotone ==
    ASSUME NEW a, IsSeq(a), Len(a) >= 1, NEW b, IsSeq(b), Len(a) <= Len(b)
    PROVE  Height(a) <= Height(b)
<1> PICK n \in Nat, m \in Nat : n = Len(a) /\ m = Len(b) /\ m >= 1 /\ n >= 1 /\ n <= m
  BY DEF IsSeq
<1>1. /\ Width(a, 0) = n
      /\ \A h \in 0 .. n : Width(a, h) \in Nat
      /\ \A h \in 1 .. n : Width(a, h) = (Width(a, h - 1) + 1) \div 2
  BY LevelWidths
<1>2. /\ Width(b, 0) = m
      /\ \A h \in 0 .. m : Width(b, h) \in Nat
      /\ \A h \in 1 .. m : Width(b, h) = (Width(b, h - 1) + 1) \div 2
  BY LevelWidths
<1> DEFINE S == {h \in Nat : Width(a, h) <= Width(b, h)}
<1>3. 0 \in S
  BY <1>1, <1>2
<1>4. ASSUME NEW h \in 1 .. n, h - 1 \in S PROVE h \in S
  <2>1. /\ Width(a, h - 1) \in Nat /\ Width(b, h - 1) \in Nat /\ Width(a, h - 1) <= Width(b, h - 1)
        /\ Width(a, h) = (Width(a, h - 1) + 1) \div 2 /\ Width(b, h) = (Width(b, h - 1) + 1) \div 2
    <3>1. h - 1 \in 0 .. n /\ h - 1 \in 0 .. m /\ h \in 1 .. m
      OBVIOUS
    <3>2. Width(a, h - 1) \in Nat /\ Width(b, h - 1) \in Nat
      BY <1>1, <1>2, <3>1, Zenon
    <3>3. Width(a, h - 1) <= Width(b, h - 1)
      BY <1>4
    <3>4. Width(a, h) = (Width(a, h - 1) + 1) \div 2 /\ Width(b, h) = (Width(b, h - 1) + 1) \div 2
      BY <1>1, <1>2, <3>1, Zenon
    <3> QED
      BY <3>2, <3>3, <3>4
  <2>2. Width(a, h) <= Width(b, h)
    BY <2>1, HalvingFacts
  <2> QED
    BY <2>2
<1> HIDE DEF S
<1>5. \A h \in 0 .. n : h \in S
  BY <1>3, <1>4, Ascent
<1>6. \A h \in 0 .. n : Width(a, h) <= Width(b, h)
  BY <1>5 DEF S
<1>7. Height(a) \in 0 .. n /\ \A h \in 0 .. Height(a) - 1 : Width(a, h) > 1
  BY TreeFacts
<1>8. Height(b) \in 0 .. m /\ Width(b, Height(b)) = 1
  BY TreeFacts
<1>9. ASSUME Height(b) < Height(a) PROVE FALSE
  <2>1. Height(b) \in 0 .. n /\ Height(b) \in 0 .. Height(a) - 1
    BY <1>7, <1>8, <1>9
  <2>2. Width(a, Height(b)) \in Nat /\ Width(a, Height(b)) > 1 /\ Width(a, Height(b)) <= 1
    BY <1>1, <1>6, <1>7, <1>8, <2>1
  <2> QED
    BY <2>2
<1> QED
  BY <1>7, <1>8, <1>9

(* The index of a leaf stays on its level.                                 *)
LEMMA IndexInLevel ==
    ASSUME NEW leaves, IsSeq(leaves), NEW pos \in 1 .. Len(leaves), NEW n \in Nat
    PROVE  \A h \in 0 .. n : h <= Len(leaves) => IndexOn(pos, n)[h] + 1 <= Width(leaves, h)
<1> DEFINE index == IndexOn(pos, n)
<1> PICK m \in Nat : m = Len(leaves) /\ m >= 1 /\ pos \in 1 .. m
  BY DEF IsSeq
<1>1. /\ index[0] = pos - 1
      /\ \A h \in 0 .. n : index[h] \in Nat
      /\ \A h \in 1 .. n : index[h] = index[h - 1] \div 2
  <2>1. pos \in Nat \ {0}
    OBVIOUS
  <2> QED
    BY <2>1, IndexFacts
<1>2. /\ Width(leaves, 0) = m
      /\ \A h \in 0 .. m : Width(leaves, h) \in Nat
      /\ \A h \in 1 .. m : Width(leaves, h) = (Width(leaves, h - 1) + 1) \div 2
  BY LevelWidths
<1> HIDE DEF index
<1> DEFINE S == {h \in Nat : h <= m => index[h] + 1 <= Width(leaves, h)}
<1>3. 0 \in S
  BY <1>1, <1>2
<1>4. ASSUME NEW h \in 1 .. n, h - 1 \in S PROVE h \in S
  <2>1. SUFFICES ASSUME h <= m PROVE index[h] + 1 <= Width(leaves, h)
    OBVIOUS
  <2>2. index[h - 1] + 1 <= Width(leaves, h - 1) /\ index[h - 1] \in Nat /\ Width(leaves, h - 1) \in Nat
    BY <1>1, <1>2, <1>4, <2>1
  <2>3. index[h] = index[h - 1] \div 2 /\ Width(leaves, h) = (Width(leaves, h - 1) + 1) \div 2
    BY <1>1, <1>2, <2>1
  <2> QED
    BY <2>2, <2>3, HalvingFacts
<1> HIDE DEF S
<1>5. \A h \in 0 .. n : h \in S
  BY <1>3, <1>4, Ascent
<1> QED
  BY <1>5 DEF S, index

(* The proof of a leaf has a step for each level below the root.           *)
LEMMA ProofFacts ==
    ASSUME NEW leaves, IsSeq(leaves), NEW pos \in 1 .. Len(leaves)
    PROVE  /\ Len(MerkleProof(leaves, pos)) = Height(leaves)
           /\ \A h \in 1 .. Height(leaves) :
                /\ MerkleProof(leaves, pos)[h].node =
                     Even(LevelsOf(leaves)[h - 1])[Sibling(IndexOn(pos, Len(leaves))[h - 1]) + 1]
                /\ MerkleProof(leaves, pos)[h].left <=> IndexOn(pos, Len(leaves))[h - 1] % 2 = 1
<1> DEFINE p == MerkleProof(leaves, pos)
           index == IndexOn(pos, Len(leaves))
<1>1. Height(leaves) \in Nat
  <2>1. Len(leaves) >= 1 /\ Len(leaves) \in Nat
    BY DEF IsSeq
  <2> QED
    BY <2>1, TreeFacts
<1>2. p = [h \in 1 .. Height(leaves) |->
              [node |-> Even(LevelsOf(leaves)[h - 1])[Sibling(index[h - 1]) + 1],
               left |-> index[h - 1] % 2 = 1]]
  BY Zenon DEF MerkleProof
<1> HIDE DEF p, index
<1>3. p = [h \in 1 .. Height(leaves) |-> p[h]]
  BY <1>2
<1>4. Len(p) = Height(leaves)
  BY <1>1, <1>3, SeqFromFunction
<1>5. ASSUME NEW h \in 1 .. Height(leaves)
      PROVE  /\ p[h].node = Even(LevelsOf(leaves)[h - 1])[Sibling(index[h - 1]) + 1]
             /\ p[h].left <=> index[h - 1] % 2 = 1
  <2> DEFINE odd == index[h - 1] % 2 = 1
             node == Even(LevelsOf(leaves)[h - 1])[Sibling(index[h - 1]) + 1]
  <2>1. p[h] = [node |-> node, left |-> odd]
    BY <1>2
  <2> HIDE DEF odd, node
  <2>2. p[h].node = node
    BY <2>1
  <2>3. p[h].left = odd
    BY <2>1
  <2> QED
    BY <2>2, <2>3, Zenon DEF odd, node
<1> QED
  BY <1>4, <1>5 DEF p, index

(* One step of a proof, upwards: the hash of a node and its sibling make   *)
(* the node above it.                                                      *)
LEMMA StepUp ==
    ASSUME NEW leaves, IsSeq(leaves), NEW pos \in 1 .. Len(leaves), NEW h \in 1 .. Height(leaves)
    PROVE  LET index == IndexOn(pos, Len(leaves))
               l     == LevelsOf(leaves)[h - 1]
               p     == MerkleProof(leaves, pos)[h]
               above == LevelsOf(leaves)[h][index[h] + 1]
           IN  /\ index[h - 1] \in Nat /\ index[h - 1] + 1 <= Len(l)
               /\ p.left => above = Node(p.node, l[index[h - 1] + 1])
               /\ ~p.left => above = Node(l[index[h - 1] + 1], p.node)
<1> DEFINE index == IndexOn(pos, Len(leaves))
           l     == LevelsOf(leaves)[h - 1]
           p     == MerkleProof(leaves, pos)[h]
           i     == index[h - 1]
<1>1. Len(leaves) \in Nat /\ Len(leaves) >= 1 /\ pos \in Nat \ {0}
  BY DEF IsSeq
<1>2. h \in 1 .. Len(leaves) /\ h - 1 \in 0 .. Len(leaves)
  BY <1>1, TreeFacts
<1>3. i \in Nat /\ index[h] = i \div 2
  BY <1>1, <1>2, IndexFacts, Zenon
<1>4. i + 1 <= Width(leaves, h - 1)
  <2>1. \A k \in 0 .. Len(leaves) : k <= Len(leaves) => index[k] + 1 <= Width(leaves, k)
    BY <1>1, IndexInLevel
  <2>2. h - 1 <= Len(leaves)
    BY <1>1, <1>2
  <2> QED
    BY <1>2, <2>1, <2>2, Zenon
<1>5. IsSeq(l) /\ LevelsOf(leaves)[h] = UpperLevel(l)
  BY <1>1, <1>2, LevelWidths, LevelsFacts, Zenon
<1>6. (p.left <=> i % 2 = 1) /\ p.node = Even(l)[Sibling(i) + 1]
  BY ProofFacts, Zenon
<1>7. i + 1 <= Len(l)
  BY <1>4 DEF Width
<1> HIDE DEF i, l, p
<1>8. /\ i % 2 = 1 => UpperLevel(l)[i \div 2 + 1] = Node(Even(l)[Sibling(i) + 1], l[i + 1])
      /\ i % 2 # 1 => UpperLevel(l)[i \div 2 + 1] = Node(l[i + 1], Even(l)[Sibling(i) + 1])
  BY <1>3, <1>5, <1>7, PairFacts
<1>9. /\ p.left => LevelsOf(leaves)[h][index[h] + 1] = Node(p.node, l[i + 1])
      /\ ~p.left => LevelsOf(leaves)[h][index[h] + 1] = Node(l[i + 1], p.node)
  BY <1>3, <1>5, <1>6, <1>8, Zenon
<1> QED
  BY <1>3, <1>7, <1>9, Zenon DEF i, l, p

(* The proof of a leaf leads from it to the root of its tree, whatever the *)
(* number of leaves.                                                       *)
LEMMA ProofLeadsToRoot ==
    ASSUME NEW leaves, IsSeq(leaves), NEW pos \in 1 .. Len(leaves)
    PROVE  RootFrom(leaves[pos], MerkleProof(leaves, pos)) = MerkleRoot(leaves)
<1> DEFINE index == IndexOn(pos, Len(leaves))
           level == LevelsOf(leaves)
           proof == MerkleProof(leaves, pos)
           hash  == HashesOf(leaves[pos], proof)
           n     == Height(leaves)
<1>1. Len(leaves) \in Nat /\ Len(leaves) >= 1 /\ pos \in Nat \ {0}
  BY DEF IsSeq
<1>2. n \in Nat /\ n \in 0 .. Len(leaves) /\ Width(leaves, n) = 1
  BY <1>1, TreeFacts
<1>3. Len(proof) = n
  BY ProofFacts
<1>4. /\ hash[0] = leaves[pos]
      /\ \A h \in 1 .. n : /\ proof[h].left => hash[h] = Node(proof[h].node, hash[h - 1])
                           /\ ~proof[h].left => hash[h] = Node(hash[h - 1], proof[h].node)
  <2>1. Len(proof) \in Nat
    BY <1>2, <1>3, Zenon
  <2>2. /\ hash[0] = leaves[pos]
        /\ \A h \in 1 .. Len(proof) :
              /\ proof[h].left => hash[h] = Node(proof[h].node, hash[h - 1])
              /\ ~proof[h].left => hash[h] = Node(hash[h - 1], proof[h].node)
    BY <2>1, HashesFacts
  <2> HIDE DEF hash, proof, n
  <2> QED
    BY <1>3, <2>2, Zenon
<1>5. level[0] = leaves /\ index[0] = pos - 1
  BY <1>1, LevelsFacts, IndexFacts
<1>6. \A h \in 1 .. n :
         /\ proof[h].left => level[h][index[h] + 1] = Node(proof[h].node, level[h - 1][index[h - 1] + 1])
         /\ ~proof[h].left => level[h][index[h] + 1] = Node(level[h - 1][index[h - 1] + 1], proof[h].node)
  BY StepUp, Zenon
<1> DEFINE S == {h \in Nat : hash[h] = level[h][index[h] + 1]}
<1>7. index[n] = 0
  <2>1. index[n] \in Nat
    BY <1>1, <1>2, IndexFacts, Zenon
  <2>2. \A k \in 0 .. Len(leaves) : k <= Len(leaves) => index[k] + 1 <= Width(leaves, k)
    BY <1>1, IndexInLevel
  <2>3. n <= Len(leaves)
    BY <1>1, <1>2
  <2>4. index[n] + 1 <= Width(leaves, n)
    BY <1>2, <2>2, <2>3, Zenon
  <2> QED
    BY <1>2, <2>1, <2>4
<1> HIDE DEF index, level, proof, hash
<1>8. 0 \in S
  <2>1. index[0] + 1 = pos
    BY <1>1, <1>5
  <2> QED
    BY <1>4, <1>5, <2>1
<1>9. ASSUME NEW h \in 1 .. n, h - 1 \in S PROVE h \in S
  <2>1. hash[h - 1] = level[h - 1][index[h - 1] + 1] /\ h \in Nat
    BY <1>2, <1>9
  <2>2. hash[h] = level[h][index[h] + 1]
    BY <1>4, <1>6, <2>1, Zenon
  <2> QED
    BY <2>1, <2>2
<1> HIDE DEF n, S
<1>10. n \in S
  <2>1. \A h \in 0 .. n : h \in S
    BY <1>2, <1>8, <1>9, Ascent
  <2> QED
    BY <1>2, <2>1
<1>11. hash[n] = level[n][index[n] + 1]
  BY <1>10 DEF S
<1>12. index[n] + 1 = 1
  BY <1>7
<1>13. hash[n] = level[n][1]
  BY <1>11, <1>12, Zenon
<1> QED
  BY <1>3, <1>13 DEF RootFrom, MerkleRoot, hash, level, proof, n

(* A node of a tree above its leaves is made of two nodes below it.        *)
LEMMA BelowFacts ==
    ASSUME NEW l, IsSeq(l), Len(l) >= 1, NEW i \in 1 .. Len(UpperLevel(l))
    PROVE  \E j, k \in 1 .. Len(l) : UpperLevel(l)[i] = Node(l[j], l[k])
<1>1. Len(UpperLevel(l)) = (Len(l) + 1) \div 2 /\ (Len(l) + 1) \div 2 \in Nat
  BY UpperFacts, EvenFacts
<1>2. UpperLevel(l)[i] = Node(Even(l)[2 * i - 1], Even(l)[2 * i])
  BY UpperFacts
<1>3. 2 * i - 1 \in 1 .. 2 * ((Len(l) + 1) \div 2) /\ 2 * i \in 1 .. 2 * ((Len(l) + 1) \div 2)
  <2>1. PICK m \in Nat : m = (Len(l) + 1) \div 2
    BY <1>1
  <2>2. i \in 1 .. m
    BY <1>1, <2>1
  <2>3. 2 * i - 1 \in 1 .. 2 * m /\ 2 * i \in 1 .. 2 * m
    BY <2>2
  <2> QED
    BY <2>1, <2>3
<1>4. \A q \in 1 .. 2 * ((Len(l) + 1) \div 2) : \E k \in 1 .. Len(l) : Even(l)[q] = l[k]
  BY EvenFacts
<1>5. PICK j \in 1 .. Len(l) : Even(l)[2 * i - 1] = l[j]
  BY <1>3, <1>4, Zenon
<1>6. PICK k \in 1 .. Len(l) : Even(l)[2 * i] = l[k]
  BY <1>3, <1>4, Zenon
<1> QED
  BY <1>2, <1>5, <1>6, Zenon

(* The index of a leaf on a level is the same in a taller tree.            *)
LEMMA IndexAgrees ==
    ASSUME NEW pos \in Nat \ {0}, NEW n \in Nat, NEW m \in Nat, n <= m
    PROVE  \A h \in 0 .. n : IndexOn(pos, n)[h] = IndexOn(pos, m)[h]
<1> DEFINE a == IndexOn(pos, n)
           b == IndexOn(pos, m)
<1>1. a[0] = b[0]
  BY IndexFacts
<1>2. \A h \in 1 .. n : a[h] = a[h - 1] \div 2
  BY IndexFacts
<1>3. \A h \in 1 .. n : b[h] = b[h - 1] \div 2
  <2>1. \A h \in 1 .. m : b[h] = b[h - 1] \div 2
    BY IndexFacts
  <2>2. \A h \in 1 .. n : h \in 1 .. m
    OBVIOUS
  <2> QED
    BY <2>1, <2>2, Zenon
<1> HIDE DEF a, b
<1> DEFINE S == {h \in Nat : a[h] = b[h]}
<1>4. 0 \in S
  BY <1>1
<1>5. ASSUME NEW h \in 1 .. n, h - 1 \in S PROVE h \in S
  <2>1. a[h - 1] = b[h - 1] /\ h \in Nat
    BY <1>5
  <2>2. a[h] = b[h]
    BY <1>2, <1>3, <2>1, Zenon
  <2> QED
    BY <2>1, <2>2
<1> HIDE DEF S
<1>6. \A h \in 0 .. n : h \in S
  BY <1>4, <1>5, Ascent
<1> QED
  BY <1>6 DEF S, a, b

(* The hashes on the way from any leaf along the proof of a position.      *)
LEMMA WayUp ==
    ASSUME NEW a, IsSeq(a), NEW pos \in 1 .. Len(a), NEW leaf
    PROVE  LET proof == MerkleProof(a, pos)
               hash  == HashesOf(leaf, proof)
           IN  /\ hash[0] = leaf /\ hash[Height(a)] = RootFrom(leaf, proof)
               /\ \A h \in 1 .. Height(a) :
                    /\ proof[h].left => hash[h] = Node(proof[h].node, hash[h - 1])
                    /\ ~proof[h].left => hash[h] = Node(hash[h - 1], proof[h].node)
               /\ \A h \in 1 .. Height(a) : proof[h].left <=> IndexOn(pos, Len(a))[h - 1] % 2 = 1
<1> DEFINE proof == MerkleProof(a, pos)
           hash  == HashesOf(leaf, proof)
           n     == Height(a)
<1>1. Len(a) \in Nat /\ Len(a) >= 1
  BY DEF IsSeq
<1>2. n \in Nat
  BY <1>1, TreeFacts
<1>3. Len(proof) = n
  BY ProofFacts
<1>4. \A h \in 1 .. n : proof[h].left <=> IndexOn(pos, Len(a))[h - 1] % 2 = 1
  BY ProofFacts, Zenon
<1>5. Len(proof) \in Nat
  BY <1>2, <1>3, Zenon
<1>6. /\ hash[0] = leaf
      /\ \A h \in 1 .. Len(proof) :
            /\ proof[h].left => hash[h] = Node(proof[h].node, hash[h - 1])
            /\ ~proof[h].left => hash[h] = Node(hash[h - 1], proof[h].node)
  BY <1>5, HashesFacts
<1>7. RootFrom(leaf, proof) = hash[Len(proof)]
  BY Zenon DEF RootFrom
<1> HIDE DEF hash, proof, n
<1> QED
  BY <1>3, <1>4, <1>6, <1>7, Zenon DEF hash, proof, n

(* A proof made in a tree of the same height leads only its own leaf to    *)
(* the root.                                                               *)
LEMMA SameHeight ==
    ASSUME NEW a, IsSeq(a), NEW b, IsSeq(b), NEW pos \in 1 .. Len(a), Len(a) <= Len(b),
           NEW leaf, RootFrom(leaf, MerkleProof(a, pos)) = MerkleRoot(b), Height(a) = Height(b)
    PROVE  leaf = b[pos]
<1> DEFINE proof == MerkleProof(a, pos)
           hash  == HashesOf(leaf, proof)
           index == IndexOn(pos, Len(b))
           level == LevelsOf(b)
           other == MerkleProof(b, pos)
           n     == Height(b)
<1>1. Len(a) \in Nat /\ Len(a) >= 1 /\ Len(b) \in Nat /\ Len(b) >= 1 /\ pos \in Nat \ {0} /\ pos \in 1 .. Len(b)
  BY DEF IsSeq
<1>2. /\ n \in Nat /\ n \in 0 .. Len(b) /\ Width(b, n) = 1 /\ n \in 0 .. Len(a) /\ n <= Len(b)
  <2>1. Height(a) \in 0 .. Len(a) /\ n \in 0 .. Len(b) /\ n \in Nat /\ Width(b, n) = 1
    BY <1>1, TreeFacts
  <2> QED
    BY <1>1, <2>1
<1>3. /\ hash[0] = leaf /\ hash[n] = level[n][1]
      /\ \A h \in 1 .. n : /\ proof[h].left => hash[h] = Node(proof[h].node, hash[h - 1])
                           /\ ~proof[h].left => hash[h] = Node(hash[h - 1], proof[h].node)
  <2>1. /\ hash[0] = leaf /\ hash[Height(a)] = RootFrom(leaf, proof)
        /\ \A h \in 1 .. Height(a) :
              /\ proof[h].left => hash[h] = Node(proof[h].node, hash[h - 1])
              /\ ~proof[h].left => hash[h] = Node(hash[h - 1], proof[h].node)
    BY WayUp
  <2>2. RootFrom(leaf, proof) = level[n][1]
    BY Zenon DEF MerkleRoot
  <2> HIDE DEF hash, proof, level
  <2> QED
    BY <2>1, <2>2, Zenon
<1>4. \A h \in 1 .. n : proof[h].left <=> other[h].left
  <2>1. SUFFICES ASSUME NEW h \in 1 .. n PROVE proof[h].left <=> other[h].left
    OBVIOUS
  <2>2. h - 1 \in 0 .. Len(a)
    BY <1>1, <1>2
  <2>3. IndexOn(pos, Len(a))[h - 1] = index[h - 1]
    BY <1>1, <2>2, IndexAgrees
  <2>4. proof[h].left <=> IndexOn(pos, Len(a))[h - 1] % 2 = 1
    BY WayUp
  <2>5. other[h].left <=> index[h - 1] % 2 = 1
    BY <1>1, ProofFacts, Zenon
  <2> QED
    BY <2>3, <2>4, <2>5, Zenon
<1>5. \A h \in 1 .. n :
         /\ other[h].left => level[h][index[h] + 1] = Node(other[h].node, level[h - 1][index[h - 1] + 1])
         /\ ~other[h].left => level[h][index[h] + 1] = Node(level[h - 1][index[h - 1] + 1], other[h].node)
  BY <1>1, StepUp, Zenon
<1>6. level[0] = b /\ index[0] = pos - 1
  BY <1>1, LevelsFacts, IndexFacts
<1>7. index[n] = 0
  <2>1. index[n] \in Nat
    BY <1>1, <1>2, IndexFacts, Zenon
  <2>2. \A k \in 0 .. Len(b) : k <= Len(b) => index[k] + 1 <= Width(b, k)
    BY <1>1, IndexInLevel
  <2>3. index[n] + 1 <= Width(b, n)
    BY <1>2, <2>2, Zenon
  <2> QED
    BY <1>2, <2>1, <2>3
<1> DEFINE S == {h \in Nat : hash[h] = level[h][index[h] + 1]}
<1> HIDE DEF index, level, proof, hash, other, n
<1>8. n \in S
  <2>1. index[n] + 1 = 1
    BY <1>7
  <2>2. hash[n] = level[n][index[n] + 1]
    BY <1>3, <2>1, Zenon
  <2> QED
    BY <1>2, <2>2
<1>9. ASSUME NEW h \in 1 .. n, h \in S PROVE h - 1 \in S
  <2>1. hash[h] = level[h][index[h] + 1] /\ h - 1 \in Nat
    BY <1>2, <1>9
  <2>2. hash[h - 1] = level[h - 1][index[h - 1] + 1]
    <3>1. CASE proof[h].left
      <4>1. Node(proof[h].node, hash[h - 1]) = Node(other[h].node, level[h - 1][index[h - 1] + 1])
        BY <1>3, <1>4, <1>5, <2>1, <3>1, Zenon
      <4> QED
        BY <4>1, SameNode
    <3>2. CASE ~proof[h].left
      <4>1. Node(hash[h - 1], proof[h].node) = Node(level[h - 1][index[h - 1] + 1], other[h].node)
        <5>1. hash[h] = Node(hash[h - 1], proof[h].node)
          BY <1>3, <3>2, Zenon
        <5>2. level[h][index[h] + 1] = Node(level[h - 1][index[h - 1] + 1], other[h].node)
          BY <1>4, <1>5, <3>2, Zenon
        <5> QED
          BY <2>1, <5>1, <5>2, Zenon
      <4> QED
        BY <4>1, SameNode
    <3> QED
      BY <3>1, <3>2, Zenon
  <2> QED
    BY <2>1, <2>2
<1> HIDE DEF S
<1>10. 0 \in S
  <2>1. \A h \in 0 .. n : h \in S
    BY <1>2, <1>8, <1>9, Descent
  <2> QED
    BY <1>2, <2>1
<1>11. hash[0] = level[0][index[0] + 1]
  BY <1>10 DEF S
<1>12. index[0] + 1 = pos
  BY <1>1, <1>6
<1> QED
  BY <1>3, <1>6, <1>11, <1>12, Zenon

(* A proof made in a lower tree leads no hash of an entry to the root: it  *)
(* would be a node of a level above the leaves.                            *)
LEMMA LowerTree ==
    ASSUME NEW a, IsSeq(a), NEW b, IsSeq(b), NEW pos \in 1 .. Len(a), Len(a) <= Len(b),
           NEW leaf, RootFrom(leaf, MerkleProof(a, pos)) = MerkleRoot(b), Height(a) < Height(b)
    PROVE  \E x, y : leaf = Node(x, y)
<1> DEFINE proof == MerkleProof(a, pos)
           hash  == HashesOf(leaf, proof)
           level == LevelsOf(b)
           n     == Height(a)
           d     == Height(b) - Height(a)
<1>1. Len(a) \in Nat /\ Len(a) >= 1 /\ Len(b) \in Nat /\ Len(b) >= 1
  BY DEF IsSeq
<1>2. /\ n \in Nat /\ d \in Nat /\ d >= 1 /\ n + d = Height(b) /\ n + d <= Len(b)
  <2>1. Height(a) \in Nat /\ Height(b) \in 0 .. Len(b) /\ Height(b) \in Nat
    BY <1>1, TreeFacts
  <2> QED
    BY <1>1, <2>1
<1>3. /\ hash[0] = leaf /\ hash[n] = level[n + d][1]
      /\ \A h \in 1 .. n : /\ proof[h].left => hash[h] = Node(proof[h].node, hash[h - 1])
                           /\ ~proof[h].left => hash[h] = Node(hash[h - 1], proof[h].node)
  <2>1. /\ hash[0] = leaf /\ hash[n] = RootFrom(leaf, proof)
        /\ \A h \in 1 .. n : /\ proof[h].left => hash[h] = Node(proof[h].node, hash[h - 1])
                             /\ ~proof[h].left => hash[h] = Node(hash[h - 1], proof[h].node)
    BY WayUp
  <2>2. RootFrom(leaf, proof) = level[Height(b)][1]
    BY Zenon DEF MerkleRoot
  <2> HIDE DEF hash, proof, level, n, d
  <2> QED
    BY <1>2, <2>1, <2>2, Zenon
<1>4. Len(level[n + d]) = 1
  BY <1>1, <1>2, TreeFacts DEF Width
<1>5. ASSUME NEW h \in 0 .. n, NEW i \in 1 .. Len(level[h + d])
      PROVE  \E j, k \in 1 .. Len(level[h + d - 1]) :
                level[h + d][i] = Node(level[h + d - 1][j], level[h + d - 1][k])
  <2>1. h + d \in 1 .. Len(b) /\ h + d - 1 \in 0 .. Len(b)
    BY <1>1, <1>2
  <2>2. level[h + d] = UpperLevel(level[h + d - 1])
    <3>1. \A k \in 1 .. Len(b) : level[k] = UpperLevel(level[k - 1])
      BY <1>1, LevelsFacts
    <3>2. PICK m \in 1 .. Len(b) : m = h + d
      BY <2>1
    <3>3. level[m] = UpperLevel(level[m - 1])
      BY <3>1, Zenon
    <3> HIDE DEF level, d
    <3>4. level[h + d] = level[m] /\ level[h + d - 1] = level[m - 1]
      <4>1. h \in Int /\ d \in Int /\ m \in Int /\ m - 1 = h + d - 1
        BY <1>1, <1>2, <3>2
      <4> QED
        BY <3>2, <4>1
    <3> QED
      BY <3>3, <3>4, Zenon
  <2>3. IsSeq(level[h + d - 1]) /\ Len(level[h + d - 1]) >= 1
    BY <1>1, <2>1, LevelWidths, Zenon DEF Width
  <2> DEFINE l == level[h + d - 1]
  <2>4. i \in 1 .. Len(UpperLevel(l))
    BY <2>2, Zenon
  <2>5. IsSeq(l) /\ Len(l) >= 1
    BY <2>3
  <2> HIDE DEF l
  <2>6. \E j, k \in 1 .. Len(l) : UpperLevel(l)[i] = Node(l[j], l[k])
    BY <2>4, <2>5, BelowFacts
  <2> QED
    BY <2>2, <2>6, Zenon DEF l
<1> DEFINE S == {h \in Nat : \E i \in 1 .. Len(level[h + d]) : hash[h] = level[h + d][i]}
<1> HIDE DEF level, proof, hash, n, d
<1>6. n \in S
  <2>1. 1 \in 1 .. Len(level[n + d])
    BY <1>4
  <2> QED
    BY <1>2, <1>3, <2>1
<1>7. ASSUME NEW h \in 1 .. n, h \in S PROVE h - 1 \in S
  <2>1. PICK i \in 1 .. Len(level[h + d]) : hash[h] = level[h + d][i]
    BY <1>7
  <2>2. h \in 0 .. n /\ h - 1 \in Nat /\ h - 1 + d = h + d - 1
    BY <1>2
  <2>3. PICK j \in 1 .. Len(level[h + d - 1]), k \in 1 .. Len(level[h + d - 1]) :
          level[h + d][i] = Node(level[h + d - 1][j], level[h + d - 1][k])
    BY <1>5, <2>1, <2>2, Zenon
  <2>4. \E q \in 1 .. Len(level[h + d - 1]) : hash[h - 1] = level[h + d - 1][q]
    <3>1. CASE proof[h].left
      <4>1. Node(proof[h].node, hash[h - 1]) = Node(level[h + d - 1][j], level[h + d - 1][k])
        BY <1>3, <2>1, <2>3, <3>1, Zenon
      <4> QED
        BY <4>1, SameNode
    <3>2. CASE ~proof[h].left
      <4>1. Node(hash[h - 1], proof[h].node) = Node(level[h + d - 1][j], level[h + d - 1][k])
        BY <1>3, <2>1, <2>3, <3>2, Zenon
      <4> QED
        BY <4>1, SameNode
    <3> QED
      BY <3>1, <3>2, Zenon
  <2>5. \E q \in 1 .. Len(level[h - 1 + d]) : hash[h - 1] = level[h - 1 + d][q]
    BY <2>2, <2>4, Zenon
  <2> QED
    BY <2>2, <2>5
<1> HIDE DEF S
<1>8. 0 \in S
  <2>1. \A h \in 0 .. n : h \in S
    BY <1>2, <1>6, <1>7, Descent
  <2> QED
    BY <1>2, <2>1
<1>9. PICK i \in 1 .. Len(level[0 + d]) : hash[0] = level[0 + d][i]
  BY <1>8, Zenon DEF S
<1>10. 0 \in 0 .. n
  BY <1>2
<1>11. \E j, k \in 1 .. Len(level[0 + d - 1]) :
          level[0 + d][i] = Node(level[0 + d - 1][j], level[0 + d - 1][k])
  BY <1>5, <1>10
<1> QED
  BY <1>3, <1>9, <1>11, Zenon

(* Who leads to the root of a tree by a proof made in one that is not      *)
(* larger is its leaf of that position, if it is the hash of an entry.     *)
LEMMA OnlyTheLeaf ==
    ASSUME NEW a, IsSeq(a), NEW b, IsSeq(b), NEW pos \in 1 .. Len(a), Len(a) <= Len(b),
           NEW p, NEW q, RootFrom(Hash(p, q), MerkleProof(a, pos)) = MerkleRoot(b)
    PROVE  Hash(p, q) = b[pos]
<1>1. Len(a) \in Nat /\ Len(a) >= 1 /\ Len(b) \in Nat /\ Len(b) >= 1
  BY DEF IsSeq
<1>2. Height(a) \in Nat /\ Height(b) \in Nat /\ Height(a) <= Height(b)
  BY <1>1, TreeFacts, HeightMonotone
<1>3. CASE Height(a) = Height(b)
  BY <1>3, SameHeight
<1>4. CASE Height(a) < Height(b)
  <2>1. \E x, y : Hash(p, q) = Node(x, y)
    BY <1>4, LowerTree
  <2> QED
    BY <2>1, HashIsNoNode
<1> QED
  BY <1>2, <1>3, <1>4

-----------------------------------------------------------------------------
(* The ledger the proofs are of.  Original entries hash, and the window of *)
(* an anchor lies before it, under the root of the leaves it was made of;  *)
(* without damage entries link, and those leaves are the hashes appended.  *)
(* A stored entry differs from the original only by damage, which leaves   *)
(* its signature alone: whatever is signed is what was appended.           *)
EntryFields == {"payload", "prev", "hash", "signature"}
Forged      == Hash(Plain(0), NoHash)

WindowLeaves(log, w) == [i \in 1 .. w.last - w.first + 1 |-> log[w.first + i - 1].hash]

GoodWindow(n, w, log, leaves, d) ==
    /\ w.first \in Nat /\ w.last \in Nat /\ 1 <= w.first /\ w.first <= w.last /\ w.last < n
    /\ IsSeq(leaves) /\ w.root = MerkleRoot(leaves)
    /\ Len(leaves) \in Nat /\ Len(leaves) <= w.last - w.first + 1
    /\ d = 0 => leaves = WindowLeaves(log, w)
GoodOriginal(n, log, leavesOf, d) ==
    /\ log[n].hash = Hash(log[n].payload, log[n].prev)
    /\ n > 1 /\ d = 0 => log[n].prev = log[n - 1].hash
    /\ IsAnchor(log[n]) => GoodWindow(n, log[n].payload.window, log, leavesOf[n], d)
GoodStored(e, o, d) ==
    /\ DOMAIN e = EntryFields
    /\ e.hash \in {o.hash, Forged, Missing}
    /\ e.signature # Unsigned => e.signature = Message(o)
    /\ d = 0 => e.payload = o.payload /\ e.prev = o.prev /\ e.hash = o.hash

BookInv ==
    /\ bookInterval \in Nat \ {0} /\ damage \in Nat
    /\ IsSeq(book) /\ IsSeq(original) /\ Len(book) = Len(original)
    /\ IsSeq(anchored) /\ Len(anchored) = Len(original)
    /\ \A n \in 1 .. Len(original) : GoodOriginal(n, original, anchored, damage)
    /\ \A n \in 1 .. Len(book) : GoodStored(book[n], original[n], damage)

(* Nothing has no length.                                                  *)
LEMMA BookLength ==
    ASSUME NEW s, IsSeq(s) PROVE Len(s) \in Nat /\ DOMAIN s = 1 .. Len(s) /\ (s = <<>> => Len(s) = 0)
BY DEF IsSeq

(* Appending keeps the entries before.                                     *)
LEMMA BookAppend ==
    ASSUME NEW s, IsSeq(s), NEW e
    PROVE  /\ IsSeq(Append(s, e))
           /\ Len(s) \in Nat /\ Len(Append(s, e)) = Len(s) + 1
           /\ Append(s, e)[Len(s) + 1] = e
           /\ \A i \in 1 .. Len(s) : Append(s, e)[i] = s[i]
<1> DEFINE S == Elems(s) \cup {e}
           t == Append(s, e)
<1>1. s \in Seq(S) /\ Len(s) \in Nat /\ DOMAIN s = 1 .. Len(s)
  BY DEF IsSeq
<1>2. /\ t \in Seq(S) /\ Len(t) = Len(s) + 1 /\ t[Len(s) + 1] = e
      /\ \A i \in 1 .. Len(s) : t[i] = s[i]
  BY <1>1
<1>3. DOMAIN t = 1 .. Len(s) + 1
  BY <1>1, <1>2
<1>4. Elems(t) = S
  <2>1. ASSUME NEW x \in Elems(t) PROVE x \in S
    BY <1>1, <1>2, <1>3, <2>1 DEF Elems
  <2>2. ASSUME NEW i \in DOMAIN s PROVE s[i] \in Elems(t)
    BY <1>1, <1>2, <1>3 DEF Elems
  <2>3. e \in Elems(t)
    BY <1>1, <1>2, <1>3 DEF Elems
  <2> QED
    BY <2>1, <2>2, <2>3 DEF Elems
<1>5. IsSeq(t)
  BY <1>2, <1>4 DEF IsSeq
<1> QED
  BY <1>1, <1>2, <1>5

(* A stored entry is replaced where it is.                                 *)
LEMMA BookSet ==
    ASSUME NEW s, IsSeq(s), NEW n \in DOMAIN s, NEW e
    PROVE  /\ IsSeq([s EXCEPT ![n] = e]) /\ Len([s EXCEPT ![n] = e]) = Len(s)
           /\ n \in 1 .. Len(s) /\ [s EXCEPT ![n] = e][n] = e
           /\ \A i \in 1 .. Len(s) : i # n => [s EXCEPT ![n] = e][i] = s[i]
<1> DEFINE t == [s EXCEPT ![n] = e]
<1>1. Len(s) \in Nat /\ DOMAIN s = 1 .. Len(s)
  BY DEF IsSeq
<1>2. t = [i \in 1 .. Len(s) |-> t[i]]
  BY <1>1
<1>3. /\ n \in 1 .. Len(s) /\ t[n] = e
      /\ \A i \in 1 .. Len(s) : i # n => t[i] = s[i]
  BY <1>1
<1> HIDE DEF t
<1>4. IsSeq(t) /\ Len(t) = Len(s)
  BY <1>1, <1>2, SeqFromFunction
<1> QED
  BY <1>3, <1>4 DEF t

(* Entries that keep their place keep the windows over them.               *)
LEMMA GoodStays ==
    ASSUME NEW s, NEW t, NEW u, NEW v, NEW d, NEW n \in Nat, n >= 1,
           \A i \in 1 .. n : t[i] = s[i] /\ v[i] = u[i], GoodOriginal(n, s, u, d)
    PROVE  GoodOriginal(n, t, v, d)
<1>1. t[n] = s[n] /\ (n > 1 => t[n - 1] = s[n - 1]) /\ v[n] = u[n]
  OBVIOUS
<1>2. ASSUME IsAnchor(s[n]) PROVE GoodWindow(n, s[n].payload.window, t, u[n], d)
  <2> DEFINE w == s[n].payload.window
  <2>1. GoodWindow(n, w, s, u[n], d)
    BY <1>2 DEF GoodOriginal
  <2> HIDE DEF w
  <2>2. w.first \in Nat /\ w.last \in Nat /\ 1 <= w.first /\ w.last < n
    BY <2>1 DEF GoodWindow
  <2>3. \A i \in 1 .. w.last - w.first + 1 : t[w.first + i - 1].hash = s[w.first + i - 1].hash
    <3>1. SUFFICES ASSUME NEW i \in 1 .. w.last - w.first + 1
                   PROVE  t[w.first + i - 1].hash = s[w.first + i - 1].hash
      OBVIOUS
    <3>2. w.first + i - 1 \in 1 .. n
      BY <2>2
    <3>3. t[w.first + i - 1] = s[w.first + i - 1]
      BY <3>2
    <3> QED
      BY <3>3
  <2>4. WindowLeaves(t, w) = WindowLeaves(s, w)
    BY <2>3, Zenon DEF WindowLeaves
  <2>5. GoodWindow(n, w, t, u[n], d)
    BY <2>1, <2>4, Zenon DEF GoodWindow
  <2> QED
    BY <2>5 DEF w
<1> QED
  BY <1>1, <1>2, Zenon DEF GoodOriginal

(* An entry that is written as it should be joins the ledger and the       *)
(* record of the originals.                                                *)
LEMMA AppendKeeps ==
    ASSUME BookInv, NEW payload, NEW leaves, Append1(payload, leaves),
           payload.window # NoWindow =>
             GoodWindow(Len(book) + 1, payload.window, original, leaves, damage)
    PROVE  BookInv'
<1>0. /\ Len(book) \in Nat /\ Len(original) = Len(book) /\ IsSeq(book) /\ IsSeq(original)
      /\ IsSeq(anchored) /\ Len(anchored) = Len(book)
  BY BookLength DEF BookInv
<1> DEFINE n == Len(book)
<1> DEFINE prev == IF book = <<>> \/ book[Len(book)].hash = Missing THEN NoHash
                   ELSE book[Len(book)].hash
           e    == [payload |-> payload, prev |-> prev, hash |-> Hash(payload, prev),
                    signature |-> Unsigned]
<1>1. /\ damage' = damage /\ bookInterval' = bookInterval
      /\ book' = Append(book, e) /\ original' = Append(original, e)
      /\ anchored' = Append(anchored, leaves)
  BY Zenon DEF Append1
<1>2. /\ e.payload = payload /\ e.prev = prev /\ e.hash = Hash(payload, prev)
      /\ e.signature = Unsigned /\ DOMAIN e = EntryFields
  BY DEF EntryFields
<1>3. n >= 1 /\ damage = 0 => prev = original[n].hash
  <2>1. SUFFICES ASSUME n >= 1, damage = 0 PROVE prev = original[n].hash
    OBVIOUS
  <2>2. book # <<>>
    <3>1. book = <<>> => Len(book) = 0
      BY <1>0, BookLength
    <3> QED
      BY <2>1, <3>1
  <2>3. GoodStored(book[n], original[n], damage) /\ GoodOriginal(n, original, anchored, damage)
    BY <1>0, <2>1 DEF BookInv
  <2>4. book[n].hash = original[n].hash
    BY <2>1, <2>3, Zenon DEF GoodStored
  <2>5. original[n].hash # Missing
    BY <2>3, HashIsThere DEF GoodOriginal
  <2> QED
    BY <2>2, <2>4, <2>5, Zenon
<1> HIDE DEF e, prev, n
<1>4. /\ IsSeq(book') /\ Len(book') = n + 1 /\ book'[n + 1] = e
      /\ \A i \in 1 .. n : book'[i] = book[i]
  <2>1. /\ IsSeq(Append(book, e)) /\ Len(Append(book, e)) = Len(book) + 1
        /\ Append(book, e)[Len(book) + 1] = e
        /\ \A i \in 1 .. Len(book) : Append(book, e)[i] = book[i]
    BY <1>0, BookAppend
  <2> QED
    BY <1>1, <2>1, Zenon DEF n
<1>5. /\ IsSeq(original') /\ Len(original') = n + 1 /\ original'[n + 1] = e
      /\ \A i \in 1 .. n : original'[i] = original[i]
  <2>1. /\ IsSeq(Append(original, e)) /\ Len(Append(original, e)) = Len(original) + 1
        /\ Append(original, e)[Len(original) + 1] = e
        /\ \A i \in 1 .. Len(original) : Append(original, e)[i] = original[i]
    BY <1>0, BookAppend
  <2> QED
    BY <1>0, <1>1, <2>1, Zenon DEF n
<1>6. n \in Nat
  BY <1>0 DEF n
<1>10. /\ IsSeq(anchored') /\ Len(anchored') = n + 1 /\ anchored'[n + 1] = leaves
       /\ \A i \in 1 .. n : anchored'[i] = anchored[i]
  <2>1. /\ IsSeq(Append(anchored, leaves)) /\ Len(Append(anchored, leaves)) = Len(anchored) + 1
        /\ Append(anchored, leaves)[Len(anchored) + 1] = leaves
        /\ \A i \in 1 .. Len(anchored) : Append(anchored, leaves)[i] = anchored[i]
    BY <1>0, BookAppend
  <2> QED
    BY <1>0, <1>1, <2>1, Zenon DEF n
<1>7. ASSUME NEW i \in 1 .. n + 1 PROVE GoodOriginal(i, original', anchored', damage)
  <2>1. CASE i <= n
    <3>1. GoodOriginal(i, original, anchored, damage) /\ i \in Nat /\ i >= 1
      BY <1>0, <1>6, <2>1 DEF BookInv, n
    <3>2. \A k \in 1 .. i : original'[k] = original[k] /\ anchored'[k] = anchored[k]
      BY <1>6, <1>5, <1>10, <2>1
    <3> QED
      BY <3>1, <3>2, GoodStays
  <2>2. CASE i = n + 1
    <3>1. GoodWindow(n + 1, payload.window, original, leaves, damage) =>
            GoodWindow(n + 1, payload.window, original', leaves, damage)
      <4> DEFINE w == payload.window
      <4>1. SUFFICES ASSUME GoodWindow(n + 1, w, original, leaves, damage)
                     PROVE  GoodWindow(n + 1, w, original', leaves, damage)
        OBVIOUS
      <4> HIDE DEF w
      <4>2. w.first \in Nat /\ w.last \in Nat /\ 1 <= w.first /\ w.last <= n
        BY <1>6, <4>1 DEF GoodWindow
      <4>3. \A k \in 1 .. w.last - w.first + 1 :
                original'[w.first + k - 1].hash = original[w.first + k - 1].hash
        <5>1. SUFFICES ASSUME NEW k \in 1 .. w.last - w.first + 1
                       PROVE  original'[w.first + k - 1].hash = original[w.first + k - 1].hash
          OBVIOUS
        <5>2. w.first + k - 1 \in 1 .. n
          BY <1>6, <4>2
        <5>3. original'[w.first + k - 1] = original[w.first + k - 1]
          BY <1>5, <5>2
        <5> QED
          BY <5>3
      <4>4. WindowLeaves(original', w) = WindowLeaves(original, w)
        BY <4>3, Zenon DEF WindowLeaves
      <4> QED
        BY <4>1, <4>4, Zenon DEF GoodWindow
    <3>2. IsAnchor(e) => GoodWindow(n + 1, e.payload.window, original', leaves, damage)
      BY <1>2, <3>1, Zenon DEF IsAnchor, n
    <3>3. n + 1 > 1 /\ damage = 0 => e.prev = original'[n].hash
      BY <1>6, <1>2, <1>3, <1>5
    <3>4. e.hash = Hash(e.payload, e.prev)
      BY <1>2, Zenon
    <3>5. original'[i] = e /\ anchored'[i] = leaves /\ i - 1 = n
      BY <1>6, <1>5, <1>10, <2>2
    <3> QED
      BY <2>2, <3>2, <3>3, <3>4, <3>5 DEF GoodOriginal
  <2> QED
    BY <1>6, <2>1, <2>2
<1>8. ASSUME NEW i \in 1 .. n + 1 PROVE GoodStored(book'[i], original'[i], damage')
  <2>1. CASE i <= n
    <3>1. GoodStored(book[i], original[i], damage) /\ i \in 1 .. n
      BY <1>0, <1>6, <2>1 DEF BookInv, n
    <3> QED
      BY <1>1, <1>4, <1>5, <3>1, Zenon
  <2>2. CASE i = n + 1
    <3>1. GoodStored(e, e, damage')
      BY <1>2, Zenon DEF GoodStored
    <3> QED
      BY <1>4, <1>5, <2>2, <3>1, Zenon
  <2> QED
    BY <1>6, <2>1, <2>2
<1>9. bookInterval' \in Nat \ {0} /\ damage' \in Nat
  BY <1>1 DEF BookInv
<1>11. damage' = damage
  BY <1>1
<1> QED
  BY <1>4, <1>5, <1>7, <1>8, <1>9, <1>10, <1>11 DEF BookInv

(* What a stored entry may become: it keeps its fields and its signature,  *)
(* and its hash is the one it had, a forged one, or missing.               *)
LEMMA SpoiltFacts ==
    ASSUME NEW e, DOMAIN e = EntryFields,
           NEW field \in {"payload", "hash", "no_hash", "prev", "root", "bounds"}
    PROVE  /\ DOMAIN Spoilt(e, field) = EntryFields
           /\ Spoilt(e, field).signature = e.signature
           /\ Spoilt(e, field).hash \in {e.hash, Forged, Missing}
<1>1. CASE field = "payload"
  <2> PICK p : p = [e.payload EXCEPT !.id = 0]
    OBVIOUS
  <2>1. Spoilt(e, field) = [e EXCEPT !.payload = p]
    BY <1>1 DEF Spoilt
  <2> QED
    BY <2>1 DEF EntryFields
<1>2. CASE field = "hash"
  BY <1>2 DEF Spoilt, EntryFields, Forged
<1>3. CASE field = "no_hash"
  BY <1>3 DEF Spoilt, EntryFields
<1>4. CASE field = "prev"
  BY <1>4 DEF Spoilt, EntryFields
<1>5. CASE field = "root"
  <2> PICK p : p = [e.payload EXCEPT !.window.root = Hash(Plain(0), NoHash)]
    OBVIOUS
  <2>1. Spoilt(e, field) = [e EXCEPT !.payload = p]
    BY <1>5 DEF Spoilt
  <2> QED
    BY <2>1 DEF EntryFields
<1>6. CASE field = "bounds"
  <2> PICK p : p = [e.payload EXCEPT !.window.first = e.payload.window.first + 1]
    OBVIOUS
  <2>1. Spoilt(e, field) = [e EXCEPT !.payload = p]
    BY <1>6 DEF Spoilt
  <2> QED
    BY <2>1 DEF EntryFields
<1> QED
  BY <1>1, <1>2, <1>3, <1>4, <1>5, <1>6

(* Another entry in a place, while the originals stay.                     *)
LEMMA PlaceKeeps ==
    ASSUME BookInv, NEW n \in DOMAIN book, NEW e, book' = [book EXCEPT ![n] = e],
           UNCHANGED <<bookInterval, original, anchored>>, damage' \in Nat, damage' = 0 => damage = 0,
           GoodStored(e, original[n], damage')
    PROVE  BookInv'
<1>1. IsSeq(book) /\ Len(book) = Len(original)
  BY DEF BookInv
<1>2. /\ IsSeq(book') /\ Len(book') = Len(book) /\ n \in 1 .. Len(book) /\ book'[n] = e
      /\ \A i \in 1 .. Len(book) : i # n => book'[i] = book[i]
  <2>1. /\ IsSeq([book EXCEPT ![n] = e]) /\ Len([book EXCEPT ![n] = e]) = Len(book)
        /\ n \in 1 .. Len(book) /\ [book EXCEPT ![n] = e][n] = e
        /\ \A i \in 1 .. Len(book) : i # n => [book EXCEPT ![n] = e][i] = book[i]
    BY <1>1, BookSet, Zenon
  <2> QED
    BY <2>1, Zenon
<1>3. ASSUME NEW i \in 1 .. Len(book) PROVE GoodStored(book'[i], original'[i], damage')
  <2>1. CASE i = n
    BY <1>2, <2>1
  <2>2. CASE i # n
    <3>1. GoodStored(book[i], original[i], damage)
      BY DEF BookInv
    <3>2. GoodStored(book[i], original[i], damage')
      BY <3>1, Zenon DEF GoodStored
    <3> QED
      BY <1>2, <2>2, <3>2
  <2> QED
    BY <2>1, <2>2
<1>4. ASSUME NEW i \in 1 .. Len(original') PROVE GoodOriginal(i, original', anchored', damage')
  <2>1. GoodOriginal(i, original, anchored, damage)
    BY DEF BookInv
  <2>2. \A w, leaves : GoodWindow(i, w, original, leaves, damage) => GoodWindow(i, w, original, leaves, damage')
    BY Zenon DEF GoodWindow
  <2>3. GoodOriginal(i, original, anchored, damage')
    BY <2>1, <2>2, Zenon DEF GoodOriginal
  <2> QED
    BY <2>3
<1>5. /\ bookInterval' \in Nat \ {0} /\ IsSeq(original') /\ Len(book') = Len(original')
      /\ IsSeq(anchored') /\ Len(anchored') = Len(original')
  BY <1>1, <1>2 DEF BookInv
<1>6. \A i \in 1 .. Len(book') : GoodStored(book'[i], original'[i], damage')
  BY <1>2, <1>3
<1> QED
  BY <1>2, <1>4, <1>5, <1>6 DEF BookInv

(* The worker signs what was appended: the hash of an anchor recomputes    *)
(* only if nothing of it changed.                                          *)
LEMMA SignKeeps ==
    ASSUME BookInv, NEW n, SignEntry(n) PROVE BookInv'
<1> DEFINE b == book[n]
           o == original[n]
           e == [b EXCEPT !.signature = Message(b)]
<1>1. /\ n \in DOMAIN book /\ IsAnchor(b) /\ b.hash = Hash(b.payload, b.prev)
      /\ book' = [book EXCEPT ![n] = e]
      /\ UNCHANGED <<bookInterval, original, anchored>> /\ damage' = damage
  BY DEF SignEntry
<1>2. n \in 1 .. Len(book) /\ n \in 1 .. Len(original)
  <2>1. IsSeq(book) /\ Len(book) = Len(original)
    BY DEF BookInv
  <2>2. n \in 1 .. Len(book)
    BY <1>1, <2>1, BookLength
  <2> QED
    BY <2>1, <2>2
<1>3. GoodStored(b, o, damage) /\ o.hash = Hash(o.payload, o.prev)
  BY <1>2 DEF BookInv, GoodOriginal
<1> HIDE DEF b, o
<1>4. b.hash = o.hash
  <2>1. b.hash # Missing
    BY <1>1, HashIsThere
  <2>2. ASSUME b.hash = Forged PROVE FALSE
    <3>1. Hash(b.payload, b.prev) = Hash(Plain(0), NoHash)
      BY <1>1, <2>2 DEF Forged
    <3>2. b.payload = Plain(0)
      BY <3>1, SameHash
    <3>3. Plain(0).window = NoWindow
      BY DEF Plain
    <3> QED
      BY <1>1, <3>2, <3>3, Zenon DEF IsAnchor
  <2>3. b.hash \in {o.hash, Forged, Missing}
    BY <1>3, Zenon DEF GoodStored
  <2> QED
    BY <2>1, <2>2, <2>3, Zenon
<1>5. b.payload = o.payload /\ b.prev = o.prev
  <2>1. Hash(b.payload, b.prev) = Hash(o.payload, o.prev)
    BY <1>1, <1>3, <1>4, Zenon
  <2> QED
    BY <2>1, SameHash
<1>6. /\ DOMAIN e = EntryFields /\ e.signature = Message(b)
      /\ e.payload = b.payload /\ e.prev = b.prev /\ e.hash = b.hash
  <2>1. DOMAIN b = EntryFields
    BY <1>3 DEF GoodStored
  <2> QED
    BY <2>1 DEF EntryFields
<1>7. Message(b) = Message(o)
  BY <1>4, <1>5 DEF Message
<1> HIDE DEF e
<1>8. GoodStored(e, o, damage)
  BY <1>4, <1>5, <1>6, <1>7, Zenon DEF GoodStored
<1>9. damage \in Nat
  BY DEF BookInv
<1> QED
  BY <1>1, <1>8, <1>9, PlaceKeeps DEF o

LEMMA DamageKeeps ==
    ASSUME BookInv, NEW n, NEW field \in {"payload", "hash", "no_hash", "prev", "root", "bounds"},
           Damage(n, field)
    PROVE  BookInv'
<1> DEFINE e == Spoilt(book[n], field)
<1>1. /\ n \in DOMAIN book /\ damage' = damage + 1 /\ book' = [book EXCEPT ![n] = e]
      /\ UNCHANGED <<bookInterval, original, anchored>>
  BY DEF Damage
<1>2. damage \in Nat /\ damage' \in Nat /\ damage' # 0
  <2>1. damage \in Nat
    BY DEF BookInv
  <2> QED
    BY <1>1, <2>1
<1>3. GoodStored(book[n], original[n], damage)
  <2>1. IsSeq(book)
    BY DEF BookInv
  <2>2. n \in 1 .. Len(book)
    BY <1>1, <2>1, BookLength
  <2> QED
    BY <2>2 DEF BookInv
<1>4. /\ DOMAIN e = EntryFields /\ e.signature = book[n].signature
      /\ e.hash \in {book[n].hash, Forged, Missing}
  <2>1. DOMAIN book[n] = EntryFields
    BY <1>3 DEF GoodStored
  <2> QED
    BY <2>1, SpoiltFacts
<1>5. e.hash \in {original[n].hash, Forged, Missing}
  <2>1. book[n].hash \in {original[n].hash, Forged, Missing}
    BY <1>3, Zenon DEF GoodStored
  <2> HIDE DEF e
  <2> QED
    BY <1>4, <2>1
<1> HIDE DEF e
<1>6. GoodStored(e, original[n], damage')
  BY <1>2, <1>3, <1>4, <1>5, Zenon DEF GoodStored
<1> QED
  BY <1>1, <1>2, <1>6, PlaceKeeps

-----------------------------------------------------------------------------
(* The leaves of a window.  First the hashes recomputed along its chain.   *)
ChainUpTo(first, n, f) ==
    f = [k \in first .. first + n |->
            Hash(book[k].payload, IF k = first THEN book[k].prev ELSE f[k - 1])]

LEMMA ChainExists ==
    ASSUME NEW first \in Nat, NEW n \in Nat PROVE \E f : ChainUpTo(first, n, f)
<1> DEFINE S == {i \in Nat : \E f : ChainUpTo(first, i, f)}
<1>1. 0 \in S
  <2> DEFINE f == [k \in first .. first + 0 |-> Hash(book[k].payload, book[k].prev)]
  <2>1. ChainUpTo(first, 0, f)
    BY DEF ChainUpTo
  <2> QED
    BY <2>1
<1>2. ASSUME NEW i \in 1 .. n, i - 1 \in S PROVE i \in S
  <2>1. PICK g : ChainUpTo(first, i - 1, g)
    BY <1>2
  <2> DEFINE f == [k \in first .. first + i |->
                     IF k = first + i THEN Hash(book[k].payload, g[first + i - 1]) ELSE g[k]]
  <2>2. \A k \in first .. first + (i - 1) :
           g[k] = Hash(book[k].payload, IF k = first THEN book[k].prev ELSE g[k - 1])
    BY <2>1, Zenon DEF ChainUpTo
  <2>3. \A k \in first .. first + i :
           f[k] = Hash(book[k].payload, IF k = first THEN book[k].prev ELSE f[k - 1])
    <3>1. SUFFICES ASSUME NEW k \in first .. first + i
                   PROVE  f[k] = Hash(book[k].payload, IF k = first THEN book[k].prev ELSE f[k - 1])
      OBVIOUS
    <3>2. CASE k = first + i
      <4>1. k # first /\ k - 1 = first + i - 1 /\ k - 1 \in first .. first + i /\ k - 1 # first + i
        BY <3>2
      <4>2. f[k - 1] = g[k - 1] /\ f[k] = Hash(book[k].payload, g[first + i - 1])
        BY <3>2, <4>1
      <4> QED
        BY <4>1, <4>2
    <3>3. CASE k # first + i
      <4>1. k \in first .. first + (i - 1) /\ f[k] = g[k]
        BY <3>3
      <4>2. k # first => k - 1 \in first .. first + i /\ k - 1 # first + i
        BY <3>3
      <4>3. k # first => f[k - 1] = g[k - 1]
        BY <4>2
      <4> QED
        BY <2>2, <4>1, <4>3
    <3> QED
      BY <3>2, <3>3
  <2>4. ChainUpTo(first, i, f)
    BY <2>3 DEF ChainUpTo
  <2> QED
    BY <2>4
<1> HIDE DEF S
<1>3. \A i \in 0 .. n : i \in S
  BY <1>1, <1>2, Ascent
<1>4. n \in S
  BY <1>3
<1> QED
  BY <1>4 DEF S

Bounds(w) == w.first \in Nat /\ w.last \in Nat /\ w.first <= w.last

LEMMA RecomputedFacts ==
    ASSUME NEW w, Bounds(w)
    PROVE  \A k \in w.first .. w.last :
             Recomputed(w)[k] = Hash(book[k].payload, IF k = w.first THEN book[k].prev
                                                      ELSE Recomputed(w)[k - 1])
<1> PICK first \in Nat, n \in Nat : w.first = first /\ w.last = first + n
  <2>1. w.last - w.first \in Nat /\ w.last = w.first + (w.last - w.first)
    BY DEF Bounds
  <2> QED
    BY <2>1 DEF Bounds
<1>1. \E f : ChainUpTo(first, n, f)
  BY ChainExists
<1>2. Recomputed(w) = CHOOSE f : ChainUpTo(first, n, f)
  BY Zenon DEF Recomputed, ChainUpTo
<1>3. ChainUpTo(first, n, Recomputed(w))
  BY <1>1, <1>2, Zenon
<1>4. \A k \in first .. first + n :
        Recomputed(w)[k] = Hash(book[k].payload, IF k = first THEN book[k].prev ELSE Recomputed(w)[k - 1])
  BY <1>3, Zenon DEF ChainUpTo
<1> QED
  BY <1>4, Zenon

(* Then those that are stored, which are all of them if none is missing.   *)
LEMMA KeptFacts ==
    ASSUME NEW w, Bounds(w)
    PROVE  /\ IsFiniteSet(KeptIn(w)) /\ Cardinality(KeptIn(w)) \in Nat
           /\ Cardinality(KeptIn(w)) <= w.last - w.first + 1
<1>1. w.first \in Int /\ w.last \in Int /\ ~(w.first > w.last)
  BY DEF Bounds
<1>2. IsFiniteSet(w.first .. w.last) /\ Cardinality(w.first .. w.last) = w.last - w.first + 1
  BY <1>1, FS_Interval
<1>3. KeptIn(w) \in SUBSET (w.first .. w.last)
  BY DEF KeptIn
<1>4. IsFiniteSet(KeptIn(w)) /\ Cardinality(KeptIn(w)) <= Cardinality(w.first .. w.last)
  BY <1>2, <1>3, FS_Subset
<1> QED
  BY <1>2, <1>4, FS_CardinalityType

LEMMA AllKept ==
    ASSUME NEW w, Bounds(w), \A k \in w.first .. w.last : book[k].hash # Missing
    PROVE  /\ Cardinality(KeptIn(w)) = w.last - w.first + 1
           /\ \A i \in 1 .. w.last - w.first + 1 : Ith(KeptIn(w), i) = w.first + i - 1
<1> PICK first \in Nat, last \in Nat : w.first = first /\ w.last = last /\ first <= last
  BY DEF Bounds
<1>1. KeptIn(w) = first .. last
  BY DEF KeptIn
<1>2. \A a, b \in Int : a <= b => Cardinality(a .. b) = b - a + 1
  <2>1. SUFFICES ASSUME NEW a \in Int, NEW b \in Int, a <= b PROVE Cardinality(a .. b) = b - a + 1
    OBVIOUS
  <2>2. Cardinality(a .. b) = IF a > b THEN 0 ELSE b - a + 1
    BY FS_Interval
  <2> QED
    BY <2>1, <2>2
<1>3. Cardinality(KeptIn(w)) = last - first + 1
  BY <1>1, <1>2
<1>4. ASSUME NEW i \in 1 .. last - first + 1 PROVE Ith(first .. last, i) = first + i - 1
  <2>1. \A k \in first .. last : Cardinality({l \in first .. last : l <= k}) = k - first + 1
    <3>1. SUFFICES ASSUME NEW k \in first .. last
                   PROVE  Cardinality({l \in first .. last : l <= k}) = k - first + 1
      OBVIOUS
    <3>2. {l \in first .. last : l <= k} = first .. k
      OBVIOUS
    <3>3. Cardinality(first .. k) = k - first + 1
      BY <1>2
    <3> QED
      BY <3>2, <3>3, Zenon
  <2>2. Ith(first .. last, i) = CHOOSE k \in first .. last : Cardinality({l \in first .. last : l <= k}) = i
    BY Zenon DEF Ith
  <2> DEFINE count(k) == Cardinality({l \in first .. last : l <= k})
             j == CHOOSE k \in first .. last : count(k) = i
  <2>3. first + i - 1 \in first .. last /\ (first + i - 1) - first + 1 = i
    OBVIOUS
  <2>4. count(first + i - 1) = i
    BY <2>1, <2>3
  <2> HIDE DEF count
  <2>5. j \in first .. last /\ count(j) = i
    BY <2>3, <2>4, Zenon
  <2>6. count(j) = j - first + 1
    BY <2>1, <2>5, Zenon DEF count
  <2> HIDE DEF j
  <2>7. j = first + i - 1
    BY <2>5, <2>6
  <2> QED
    BY <2>2, <2>7, Zenon DEF j, count
<1> QED
  BY <1>1, <1>3, <1>4, Zenon

(* The leaves the service takes, the position of the entry among them, and *)
(* the leaf it answers.                                                    *)
LeavesFor(w, zero) == IF zero THEN ChainLeaves(w).leaves ELSE StoredLeaves(w)
LeafFor(n, w, zero) ==
    IF zero THEN ChainLeaves(w).leaves[n - w.first + 1]
    ELSE IF book[n].hash = Missing THEN Hash(book[n].payload, book[n].prev)
    ELSE book[n].hash

LEMMA LeavesFacts ==
    ASSUME NEW w, Bounds(w), NEW n \in w.first .. w.last, NEW zero \in BOOLEAN
    PROVE  /\ IsSeq(LeavesFor(w, zero)) /\ Len(LeavesFor(w, zero)) \in Nat
           /\ Len(LeavesFor(w, zero)) <= w.last - w.first + 1
           /\ zero => /\ Len(LeavesFor(w, zero)) = w.last - w.first + 1
                      /\ \A i \in 1 .. w.last - w.first + 1 :
                           LeavesFor(w, zero)[i] = Recomputed(w)[w.first + i - 1]
                      /\ LeafFor(n, w, zero) = LeavesFor(w, zero)[n - w.first + 1]
                      /\ LeafFor(n, w, zero) = Recomputed(w)[n]
           /\ ~zero => /\ Len(LeavesFor(w, zero)) = Cardinality(KeptIn(w))
                       /\ \A i \in 1 .. Cardinality(KeptIn(w)) :
                            LeavesFor(w, zero)[i] = book[Ith(KeptIn(w), i)].hash
<1> PICK first \in Nat, last \in Nat : w.first = first /\ w.last = last /\ first <= last
  BY DEF Bounds
<1> DEFINE s == LeavesFor(w, zero)
<1>1. CASE zero
  <2> DEFINE m == last - first + 1
  <2>1. s = [i \in 1 .. m |-> Recomputed(w)[first + i - 1]]
    BY <1>1 DEF LeavesFor, ChainLeaves
  <2>2. s = [i \in 1 .. m |-> s[i]] /\ \A i \in 1 .. m : s[i] = Recomputed(w)[first + i - 1]
    BY <2>1
  <2>3. LeafFor(n, w, zero) = s[n - first + 1]
    BY <1>1 DEF LeafFor, LeavesFor
  <2>4. n - first + 1 \in 1 .. m /\ first + (n - first + 1) - 1 = n
    OBVIOUS
  <2>5. s[n - first + 1] = Recomputed(w)[n]
    BY <2>2, <2>4
  <2>6. m \in Nat
    OBVIOUS
  <2> HIDE DEF s
  <2>7. IsSeq(s) /\ Len(s) = m
    <3> HIDE DEF m
    <3> QED
      BY <2>2, <2>6, SeqFromFunction
  <2>8. Len(s) \in Nat /\ Len(s) <= w.last - w.first + 1 /\ Len(s) = w.last - w.first + 1
    BY <2>6, <2>7
  <2>9. \A i \in 1 .. w.last - w.first + 1 : s[i] = Recomputed(w)[w.first + i - 1]
    BY <2>2
  <2>10. LeafFor(n, w, zero) = s[n - w.first + 1] /\ LeafFor(n, w, zero) = Recomputed(w)[n]
    BY <2>3, <2>5
  <2> QED
    BY <1>1, <2>7, <2>8, <2>9, <2>10, Zenon DEF s
<1>2. CASE ~zero
  <2> DEFINE m == Cardinality(KeptIn(w))
  <2>1. s = [i \in 1 .. m |-> book[Ith(KeptIn(w), i)].hash]
    BY <1>2 DEF LeavesFor, StoredLeaves
  <2>2. s = [i \in 1 .. m |-> s[i]] /\ \A i \in 1 .. m : s[i] = book[Ith(KeptIn(w), i)].hash
    BY <2>1
  <2>3. m \in Nat /\ m <= last - first + 1
    BY KeptFacts
  <2> HIDE DEF s, m
  <2>4. IsSeq(s) /\ Len(s) = m
    BY <2>2, <2>3, SeqFromFunction
  <2> QED
    BY <1>2, <2>2, <2>3, <2>4 DEF s, m
<1> QED
  BY <1>1, <1>2

(* Without damage the leaves are those of the window, both ways.           *)
LEMMA Undamaged ==
    ASSUME BookInv, damage = 0, NEW w, Bounds(w), w.first >= 1, w.last \in 1 .. Len(book),
           NEW zero \in BOOLEAN
    PROVE  /\ LeavesFor(w, zero) = WindowLeaves(original, w)
           /\ zero => ChainLeaves(w).sound
           /\ \A n \in w.first .. w.last : LeafFor(n, w, zero) = original[n].hash
<1> PICK first \in Nat, last \in Nat : w.first = first /\ w.last = last /\ first <= last
  BY DEF Bounds
<1> DEFINE m == last - first + 1
           leaf == Recomputed(w)
<1>1. IsSeq(book) /\ Len(book) = Len(original) /\ Len(book) \in Nat
  BY BookLength DEF BookInv
<1>2. \A k \in first .. last : k \in 1 .. Len(book) /\ k \in 1 .. Len(original)
  BY <1>1
<1>3. ASSUME NEW k \in first .. last
      PROVE  /\ book[k].payload = original[k].payload /\ book[k].prev = original[k].prev
             /\ book[k].hash = original[k].hash
             /\ original[k].hash = Hash(original[k].payload, original[k].prev)
             /\ k > 1 => original[k].prev = original[k - 1].hash
             /\ book[k].hash # Missing
  <2>1. GoodStored(book[k], original[k], damage) /\ GoodOriginal(k, original, anchored, damage)
    BY <1>2 DEF BookInv
  <2>2. original[k].hash # Missing
    BY <2>1, HashIsThere DEF GoodOriginal
  <2> QED
    BY <2>1, <2>2, Zenon DEF GoodStored, GoodOriginal
<1>4. \A k \in first .. last :
        leaf[k] = Hash(book[k].payload, IF k = first THEN book[k].prev ELSE leaf[k - 1])
  BY RecomputedFacts
<1> DEFINE S == {i \in Nat : first + i <= last => leaf[first + i] = original[first + i].hash}
<1> HIDE DEF leaf
<1>5. 0 \in S
  <2>1. first \in first .. last
    OBVIOUS
  <2>2. leaf[first] = Hash(book[first].payload, book[first].prev)
    BY <1>4, <2>1, Zenon
  <2>3. leaf[first] = original[first].hash
    BY <1>3, <2>1, <2>2
  <2>4. first + 0 = first
    OBVIOUS
  <2> QED
    BY <2>3, <2>4
<1>6. ASSUME NEW i \in 1 .. last, i - 1 \in S PROVE i \in S
  <2>1. SUFFICES ASSUME first + i <= last PROVE leaf[first + i] = original[first + i].hash
    OBVIOUS
  <2>2. PICK k \in first .. last : k = first + i /\ k # first /\ k - 1 = first + (i - 1) /\ k > 1
    <3>1. first >= 1
      OBVIOUS
    <3> QED
      BY <2>1, <3>1
  <2>3. leaf[k - 1] = original[k - 1].hash
    <3>1. first + (i - 1) <= last
      BY <2>1
    <3>2. leaf[first + (i - 1)] = original[first + (i - 1)].hash
      BY <1>6, <3>1
    <3> QED
      BY <2>2, <3>2
  <2>4. leaf[k] = Hash(book[k].payload, leaf[k - 1])
    BY <1>4, <2>2, Zenon
  <2>5. leaf[k] = original[k].hash
    BY <1>3, <2>2, <2>3, <2>4
  <2> QED
    BY <2>2, <2>5
<1> HIDE DEF S
<1>7. \A i \in 0 .. last : i \in S
  BY <1>5, <1>6, Ascent
<1>8. ASSUME NEW k \in first .. last PROVE leaf[k] = original[k].hash
  <2>1. PICK i \in 0 .. last : k = first + i
    <3>1. k - first \in 0 .. last /\ k = first + (k - first)
      OBVIOUS
    <3> QED
      BY <3>1
  <2>2. i \in S
    BY <1>7
  <2>3. first + i <= last
    BY <2>1
  <2> QED
    BY <2>1, <2>2, <2>3 DEF S
<1>9. \A i \in 1 .. m : first + i - 1 \in first .. last
  OBVIOUS
<1>10. WindowLeaves(original, w) = [i \in 1 .. m |-> original[first + i - 1].hash]
  BY Zenon DEF WindowLeaves
<1>11. CASE zero
  <2>1. LeavesFor(w, zero) = [i \in 1 .. m |-> leaf[first + i - 1]]
    BY <1>11 DEF LeavesFor, ChainLeaves, leaf
  <2>2. \A i \in 1 .. m : leaf[first + i - 1] = original[first + i - 1].hash
    BY <1>8, <1>9
  <2>3. LeavesFor(w, zero) = WindowLeaves(original, w)
    BY <1>10, <2>1, <2>2, Zenon
  <2>4. \A k \in first .. last : book[k].hash \in {leaf[k], Missing}
    BY <1>3, <1>8
  <2>5. \A k \in first + 1 .. last : book[k].prev = leaf[k - 1]
    <3>1. SUFFICES ASSUME NEW k \in first + 1 .. last PROVE book[k].prev = leaf[k - 1]
      OBVIOUS
    <3>2. k \in first .. last /\ k - 1 \in first .. last /\ k > 1
      OBVIOUS
    <3>3. book[k].prev = original[k].prev /\ original[k].prev = original[k - 1].hash
      BY <1>3, <3>2
    <3>4. leaf[k - 1] = original[k - 1].hash
      BY <1>8, <3>2
    <3> QED
      BY <3>3, <3>4, Zenon
  <2>6. ChainLeaves(w).sound = (/\ \A k \in first .. last : book[k].hash \in {leaf[k], Missing}
                                /\ \A k \in first + 1 .. last : book[k].prev = leaf[k - 1])
    BY DEF ChainLeaves, leaf
  <2>7. \A n \in first .. last : LeafFor(n, w, zero) = leaf[n]
    BY <1>11, LeavesFacts DEF leaf
  <2> QED
    BY <1>8, <2>3, <2>4, <2>5, <2>6, <2>7, Zenon
<1>12. CASE ~zero
  <2>1. Cardinality(KeptIn(w)) = m /\ \A i \in 1 .. m : Ith(KeptIn(w), i) = first + i - 1
    BY <1>3, AllKept
  <2>2. LeavesFor(w, zero) = [i \in 1 .. m |-> book[Ith(KeptIn(w), i)].hash]
    BY <1>12, <2>1, Zenon DEF LeavesFor, StoredLeaves
  <2>3. \A i \in 1 .. m : book[Ith(KeptIn(w), i)].hash = original[first + i - 1].hash
    BY <1>3, <1>9, <2>1
  <2>4. LeavesFor(w, zero) = WindowLeaves(original, w)
    BY <1>10, <2>2, <2>3, Zenon
  <2>5. \A n \in first .. last : LeafFor(n, w, zero) = original[n].hash
    BY <1>3, <1>12, Zenon DEF LeafFor
  <2> QED
    BY <1>12, <2>4, <2>5, Zenon
<1> QED
  BY <1>11, <1>12

(* A window is closed over entries that are there, with the hashes they    *)
(* store by then, which without damage are those they were appended with.  *)
LEMMA AnchorKeeps ==
    ASSUME BookInv, NEW n, AppendAnchor(n) PROVE BookInv'
<1> DEFINE first  == IF n < bookInterval THEN 1 ELSE n - bookInterval + 1
           bounds == [first |-> first, last |-> n]
           leaves == StoredLeaves(bounds)
           w      == [first |-> first, last |-> n, root |-> MerkleRoot(leaves)]
           payload == [id |-> Len(book) + 1, window |-> w]
<1>1. n \in DOMAIN book /\ Append1(payload, leaves)
  BY Zenon DEF AppendAnchor
<1>2. /\ IsSeq(book) /\ Len(book) = Len(original) /\ bookInterval \in Nat \ {0}
  BY DEF BookInv
<1>3. Len(book) \in Nat /\ n \in 1 .. Len(book)
  BY <1>1, <1>2, BookLength
<1>4. first \in Nat /\ 1 <= first /\ first <= n
  BY <1>2, <1>3
<1>5. /\ w.first = first /\ w.last = n /\ w.root = MerkleRoot(leaves) /\ payload.window = w
      /\ bounds.first = first /\ bounds.last = n
  OBVIOUS
<1> HIDE DEF first, bounds, w, payload
<1>6. Bounds(bounds) /\ n \in bounds.first .. bounds.last
  BY <1>3, <1>4, <1>5 DEF Bounds
<1>7. /\ IsSeq(leaves) /\ Len(leaves) \in Nat /\ Len(leaves) <= n - first + 1
      /\ leaves = LeavesFor(bounds, FALSE)
  <2>1. leaves = LeavesFor(bounds, FALSE)
    BY DEF LeavesFor
  <2> QED
    BY <1>5, <1>6, <2>1, LeavesFacts
<1>8. ASSUME damage = 0 PROVE leaves = WindowLeaves(original, w)
  <2>1. bounds.first >= 1 /\ bounds.last \in 1 .. Len(book)
    BY <1>3, <1>4, <1>5
  <2>2. LeavesFor(bounds, FALSE) = WindowLeaves(original, bounds)
    BY <1>6, <1>8, <2>1, Undamaged
  <2>3. WindowLeaves(original, bounds) = WindowLeaves(original, w)
    BY <1>5, Zenon DEF WindowLeaves
  <2> QED
    BY <1>7, <2>2, <2>3, Zenon
<1> HIDE DEF leaves
<1>9. GoodWindow(Len(book) + 1, w, original, leaves, damage)
  <2>1. /\ w.first \in Nat /\ w.last \in Nat /\ 1 <= w.first /\ w.first <= w.last
        /\ w.last < Len(book) + 1 /\ w.last - w.first + 1 = n - first + 1
    BY <1>3, <1>4, <1>5
  <2>2. IsSeq(leaves) /\ w.root = MerkleRoot(leaves) /\ Len(leaves) \in Nat
    BY <1>5, <1>7
  <2>3. Len(leaves) <= w.last - w.first + 1
    <3> DEFINE k == Len(leaves)
    <3>1. k <= n - first + 1
      BY <1>7
    <3> HIDE DEF k
    <3>2. k <= w.last - w.first + 1
      BY <3>1, <2>1
    <3> QED
      BY <3>2 DEF k
  <2> QED
    BY <1>8, <2>1, <2>2, <2>3, Zenon DEF GoodWindow
<1> QED
  BY <1>1, <1>5, <1>9, AppendKeeps

(* An anchor that is appended again has the window it had.                 *)
LEMMA AnchorRepeats ==
    ASSUME BookInv, NEW n, AppendAnchorAgain(n) PROVE BookInv'
<1> DEFINE w == original[n].payload.window
           payload == [id |-> Len(book) + 1, window |-> w]
<1>1. n \in DOMAIN original /\ IsAnchor(original[n]) /\ Append1(payload, anchored[n])
  BY Zenon DEF AppendAnchorAgain
<1>2. /\ Len(book) \in Nat /\ Len(book) = Len(original) /\ n \in 1 .. Len(original)
  <2>1. IsSeq(original) /\ Len(book) = Len(original)
    BY DEF BookInv
  <2> QED
    BY <1>1, <2>1, BookLength
<1>3. GoodOriginal(n, original, anchored, damage)
  BY <1>2 DEF BookInv
<1>4. GoodWindow(n, w, original, anchored[n], damage)
  BY <1>1, <1>3 DEF GoodOriginal
<1>5. payload.window = w
  OBVIOUS
<1> HIDE DEF w, payload
<1>6. GoodWindow(Len(book) + 1, w, original, anchored[n], damage)
  BY <1>2, <1>4 DEF GoodWindow
<1> QED
  BY <1>1, <1>5, <1>6, AppendKeeps

LEMMA BookStarts == ASSUME ProofsAssumption PROVE BookInit => BookInv
<1> SUFFICES ASSUME BookInit PROVE BookInv
  OBVIOUS
<1>1. /\ book = <<>> /\ original = <<>> /\ anchored = <<>> /\ damage = 0
      /\ bookInterval \in Nat \ {0}
  BY DEF BookInit, ProofsAssumption
<1>2. IsSeq(<<>>) /\ Len(<<>>) = 0
  <2>1. <<>> \in Seq(Elems(<<>>))
    OBVIOUS
  <2> QED
    BY <2>1 DEF IsSeq
<1> QED
  BY <1>1, <1>2 DEF BookInv

LEMMA BookStays == BookInv /\ [BookNext]_bookVars => BookInv'
<1> SUFFICES ASSUME BookInv, [BookNext]_bookVars PROVE BookInv'
  OBVIOUS
<1>1. CASE AppendPlain
  <2> PICK payload : payload = Plain(Len(book) + 1)
    OBVIOUS
  <2>1. Append1(payload, <<>>) /\ payload.window = NoWindow
    BY <1>1 DEF AppendPlain, Plain
  <2> QED
    BY <2>1, AppendKeeps
<1>2. ASSUME NEW n \in DOMAIN book, AppendAnchor(n) PROVE BookInv'
  BY <1>2, AnchorKeeps
<1>3. ASSUME NEW n \in DOMAIN book, SignEntry(n) PROVE BookInv'
  BY <1>3, SignKeeps
<1>6. ASSUME NEW n \in DOMAIN book, AppendAnchorAgain(n) PROVE BookInv'
  BY <1>6, AnchorRepeats
<1>4. ASSUME NEW n \in DOMAIN book, NEW f \in {"payload", "hash", "no_hash", "prev", "root", "bounds"},
             Damage(n, f)
      PROVE  BookInv'
  BY <1>4, DamageKeeps
<1>5. CASE UNCHANGED bookVars
  <2>1. /\ bookInterval' = bookInterval /\ book' = book /\ original' = original
        /\ anchored' = anchored /\ damage' = damage
    BY <1>5 DEF bookVars
  <2> QED
    BY <2>1, Zenon DEF BookInv
<1> QED
  BY <1>1, <1>2, <1>3, <1>4, <1>5, <1>6 DEF BookNext

-----------------------------------------------------------------------------
(* The answer of the service.                                              *)
LEMMA FirstAnchor ==
    ASSUME ProofsAssumption, BookInv, NEW n \in DOMAIN book, AnchorsOf(n) # {}
    PROVE  LET j == FirstOf(AnchorsOf(n))
           IN  /\ j \in DOMAIN book /\ IsAnchor(book[j])
               /\ book[j].payload.window.first <= n /\ n <= book[j].payload.window.last
<1> DEFINE D == AnchorsOf(n)
<1>1. n \in Nat
  <2>1. IsSeq(book)
    BY DEF BookInv
  <2>2. DOMAIN book = 1 .. Len(book) /\ Len(book) \in Nat
    BY <2>1, BookLength
  <2> QED
    BY <2>2
<1>2. D \subseteq Nat
  BY <1>1 DEF AnchorsOf, ProofsAssumption
<1>3. \A j \in D : /\ j \in DOMAIN book /\ IsAnchor(book[j])
                   /\ book[j].payload.window.first <= n /\ n <= book[j].payload.window.last
  BY DEF AnchorsOf
<1> HIDE DEF D
<1>4. \E j \in D : \A k \in D : j <= k
  BY <1>2, LeastNumber DEF D
<1>5. FirstOf(D) \in D
  BY <1>4, Zenon DEF FirstOf
<1> QED
  BY <1>3, <1>5, Zenon DEF D

LEMMA ResponseFacts ==
    ASSUME NEW n, NEW zero \in BOOLEAN
    PROVE  LET x      == Response(n, zero)
               anchor == book[FirstOf(AnchorsOf(n))]
               w      == anchor.payload.window
               leaves == LeavesFor(w, zero)
               pos    == n - w.first + 1
               good   == zero => ChainLeaves(w).sound /\ MerkleRoot(leaves) = w.root
           IN  /\ x.ok => /\ AnchorsOf(n) # {} /\ ~(pos > Len(leaves)) /\ good
                          /\ x.payload = book[n].payload /\ x.leaf = LeafFor(n, w, zero)
                          /\ x.proof = MerkleProof(leaves, pos) /\ x.anchor = anchor
               /\ AnchorsOf(n) # {} /\ ~(pos > Len(leaves)) /\ good => x.ok
<1> DEFINE x      == Response(n, zero)
           anchor == book[FirstOf(AnchorsOf(n))]
           w      == anchor.payload.window
           leaves == LeavesFor(w, zero)
           pos    == n - w.first + 1
           good   == zero => ChainLeaves(w).sound /\ MerkleRoot(leaves) = w.root
           leaf   == LeafFor(n, w, zero)
           proof  == MerkleProof(leaves, pos)
           yes    == [ok |-> TRUE, payload |-> book[n].payload, leaf |-> leaf, proof |-> proof, anchor |-> anchor]
<1>1. ~NoResponse.ok
  BY DEF NoResponse
<1>2. CASE AnchorsOf(n) = {}
  <2>1. x = NoResponse
    BY <1>2 DEF Response
  <2> QED
    BY <1>1, <1>2, <2>1, Zenon
<1>3. CASE AnchorsOf(n) # {}
  <2>1. x = IF (zero /\ ~(ChainLeaves(w).sound /\ MerkleRoot(leaves) = w.root)) \/ pos > Len(leaves)
            THEN NoResponse ELSE yes
    BY <1>3, Zenon DEF Response, LeavesFor, LeafFor
  <2> HIDE DEF leaf, proof, anchor, leaves, pos, x
  <2>2. /\ yes.ok /\ yes.payload = book[n].payload /\ yes.leaf = leaf /\ yes.proof = proof
        /\ yes.anchor = anchor
    OBVIOUS
  <2> HIDE DEF yes, w
  <2>3. CASE ~(pos > Len(leaves)) /\ good
    <3>1. x = yes
      BY <2>1, <2>3, Zenon
    <3> QED
      BY <1>3, <2>2, <2>3, <3>1, Zenon DEF leaf, proof, anchor, leaves, pos, x, w
  <2>4. CASE ~(~(pos > Len(leaves)) /\ good)
    <3>1. x = NoResponse
      BY <2>1, <2>4, Zenon
    <3> QED
      BY <1>1, <2>4, <3>1, Zenon DEF leaf, proof, anchor, leaves, pos, x, w
  <2> QED
    BY <2>3, <2>4, Zenon
<1> QED
  BY <1>2, <1>3, Zenon

(* An anchor that bears a signature of what it says is the one appended.   *)
LEMMA SignedAnchor ==
    ASSUME BookInv, NEW j \in DOMAIN book, IsAnchor(book[j]),
           book[j].signature # Unsigned, book[j].signature = Message(book[j])
    PROVE  /\ book[j].hash = Hash(book[j].payload, book[j].prev)
           /\ Bounds(book[j].payload.window) /\ book[j].payload.window.first >= 1
           /\ book[j].payload.window.last \in 1 .. Len(book)
           /\ GoodWindow(j, book[j].payload.window, original, anchored[j], damage)
<1> DEFINE b == book[j]
           o == original[j]
           w == b.payload.window
<1>1. IsSeq(book) /\ Len(book) = Len(original)
  BY DEF BookInv
<1>2. j \in 1 .. Len(book) /\ Len(book) \in Nat
  BY <1>1, BookLength
<1>3. GoodStored(b, o, damage) /\ GoodOriginal(j, original, anchored, damage)
  BY <1>1, <1>2 DEF BookInv
<1>4. Message(b) = Message(o)
  BY <1>3, Zenon DEF GoodStored
<1> HIDE DEF b, o
<1>5. b.payload = o.payload /\ b.prev = o.prev /\ b.hash = o.hash
  BY <1>4 DEF Message
<1>6. IsAnchor(o)
  BY <1>5, Zenon DEF IsAnchor, b
<1>7. o.hash = Hash(o.payload, o.prev) /\ GoodWindow(j, w, original, anchored[j], damage)
  BY <1>3, <1>5, <1>6, Zenon DEF GoodOriginal, o
<1> HIDE DEF w
<1>8. Bounds(w) /\ w.first >= 1 /\ w.last \in 1 .. Len(book)
  BY <1>2, <1>7 DEF GoodWindow, Bounds
<1> QED
  BY <1>5, <1>7, <1>8, Zenon DEF b, w

(* The leaves of a window, as they were appended.                          *)
LEMMA LeavesOfWindow ==
    ASSUME NEW w, Bounds(w), NEW n \in w.first .. w.last
    PROVE  /\ IsSeq(WindowLeaves(original, w)) /\ Len(WindowLeaves(original, w)) = w.last - w.first + 1
           /\ n - w.first + 1 \in Nat /\ n - w.first + 1 \in 1 .. w.last - w.first + 1
           /\ WindowLeaves(original, w)[n - w.first + 1] = original[n].hash
<1> PICK first \in Nat, last \in Nat : w.first = first /\ w.last = last /\ first <= last
  BY DEF Bounds
<1> DEFINE s == WindowLeaves(original, w)
           m == last - first + 1
<1>1. s = [i \in 1 .. m |-> original[first + i - 1].hash]
  BY DEF WindowLeaves
<1>2. s = [i \in 1 .. m |-> s[i]] /\ \A i \in 1 .. m : s[i] = original[first + i - 1].hash
  BY <1>1
<1>3. m \in Nat /\ n - first + 1 \in 1 .. m /\ first + (n - first + 1) - 1 = n /\ n - first + 1 \in Nat
  OBVIOUS
<1>4. s[n - first + 1] = original[n].hash
  BY <1>2, <1>3
<1> HIDE DEF s
<1>5. IsSeq(s) /\ Len(s) = m
  <2> HIDE DEF m
  <2> QED
    BY <1>2, <1>3, SeqFromFunction
<1> QED
  BY <1>3, <1>4, <1>5 DEF s

(* The leaf of an answer is the hash of something.                         *)
LEMMA LeafIsHash ==
    ASSUME BookInv, NEW n \in DOMAIN book, NEW w, Bounds(w), NEW zero \in BOOLEAN,
           w.first <= n, n <= w.last
    PROVE  \E p, q : LeafFor(n, w, zero) = Hash(p, q) /\ (zero => p = book[n].payload)
<1>1. IsSeq(book) /\ Len(book) = Len(original)
  BY DEF BookInv
<1>2. n \in 1 .. Len(book) /\ Len(book) \in Nat
  BY <1>1, BookLength
<1>3. n \in w.first .. w.last
  BY <1>2 DEF Bounds
<1>4. CASE zero
  <2>1. LeafFor(n, w, zero) = Recomputed(w)[n]
    BY <1>3, <1>4, LeavesFacts
  <2>2. \E q : Recomputed(w)[n] = Hash(book[n].payload, q)
    BY <1>3, RecomputedFacts
  <2> QED
    BY <2>1, <2>2, Zenon
<1>5. CASE ~zero /\ book[n].hash = Missing
  BY <1>5, Zenon DEF LeafFor
<1>6. CASE ~zero /\ book[n].hash # Missing
  <2>1. LeafFor(n, w, zero) = book[n].hash
    BY <1>6, Zenon DEF LeafFor
  <2>2. GoodStored(book[n], original[n], damage) /\ GoodOriginal(n, original, anchored, damage)
    BY <1>1, <1>2 DEF BookInv
  <2>3. book[n].hash = Forged \/ book[n].hash = Hash(original[n].payload, original[n].prev)
    BY <1>6, <2>2 DEF GoodStored, GoodOriginal
  <2> QED
    BY <1>6, <2>1, <2>3, Zenon DEF Forged
<1> QED
  BY <1>4, <1>5, <1>6, Zenon

(* The three claims about the answer given of one entry.                   *)
LEMMA CertifiedSound ==
    ASSUME ProofsAssumption, BookInv, NEW n \in DOMAIN book, NEW zero \in BOOLEAN,
           Certified(Response(n, zero))
    PROVE  LET x      == Response(n, zero)
               window == anchored[FirstOf(AnchorsOf(n))]
               w      == x.anchor.payload.window
               pos    == n - w.first + 1
           IN  /\ ServerVerifies(x.anchor)
               /\ Len(window) = w.last - w.first + 1 =>
                    /\ x.leaf = window[pos]
                    /\ zero /\ window[pos] = original[n].hash => x.payload = original[n].payload
<1> DEFINE x      == Response(n, zero)
           j      == FirstOf(AnchorsOf(n))
           anchor == book[j]
           w      == anchor.payload.window
           leaves == LeavesFor(w, zero)
           pos    == n - w.first + 1
           window == anchored[j]
<1>1. /\ x.ok /\ RootFrom(x.leaf, x.proof) = x.anchor.payload.window.root
      /\ x.anchor.signature # Unsigned /\ x.anchor.hash = Hash(x.anchor.payload, x.anchor.prev)
      /\ x.anchor.signature = Message(x.anchor)
  BY Zenon DEF Certified
<1>2. /\ AnchorsOf(n) # {} /\ ~(pos > Len(leaves))
      /\ x.payload = book[n].payload /\ x.leaf = LeafFor(n, w, zero)
      /\ x.proof = MerkleProof(leaves, pos) /\ x.anchor = anchor
  BY <1>1, ResponseFacts, Zenon
<1>3. j \in DOMAIN book /\ IsAnchor(anchor) /\ w.first <= n /\ n <= w.last
  BY <1>2, FirstAnchor, Zenon
<1> HIDE DEF x, j
<1>4. anchor.signature # Unsigned /\ anchor.signature = Message(anchor)
  BY <1>1, <1>2, Zenon
<1>5. /\ Bounds(w) /\ w.first >= 1 /\ w.last \in 1 .. Len(book) /\ w.root = MerkleRoot(window)
      /\ IsSeq(window)
  BY <1>3, <1>4, SignedAnchor DEF GoodWindow
<1>6. Len(book) \in Nat /\ n \in 1 .. Len(book) /\ n \in 1 .. Len(original)
  <2>1. IsSeq(book) /\ Len(book) = Len(original)
    BY DEF BookInv
  <2> QED
    BY <2>1, BookLength
<1>7. n \in w.first .. w.last
  BY <1>3, <1>5, <1>6 DEF Bounds
<1>8. IsSeq(leaves) /\ Len(leaves) \in Nat /\ Len(leaves) <= w.last - w.first + 1
  BY <1>5, <1>7, LeavesFacts
<1>9. /\ pos \in Nat /\ pos \in 1 .. w.last - w.first + 1
  BY <1>5, <1>7, LeavesOfWindow
<1>10. PICK p, q : LeafFor(n, w, zero) = Hash(p, q) /\ (zero => p = book[n].payload)
  BY <1>3, <1>5, LeafIsHash
<1>11. RootFrom(Hash(p, q), MerkleProof(leaves, pos)) = MerkleRoot(window)
  BY <1>1, <1>2, <1>5, <1>10, Zenon
<1>12. pos \in 1 .. Len(leaves) /\ (Len(window) = w.last - w.first + 1 => Len(leaves) <= Len(window))
  BY <1>2, <1>8, <1>9
<1> HIDE DEF leaves, window, pos, w
<1>13. ASSUME Len(window) = w.last - w.first + 1 PROVE Hash(p, q) = window[pos]
  BY <1>5, <1>8, <1>9, <1>11, <1>12, <1>13, OnlyTheLeaf
<1>14. ASSUME Len(window) = w.last - w.first + 1 PROVE x.leaf = window[pos]
  BY <1>2, <1>10, <1>13, <1>14, Zenon
<1>15. ServerVerifies(x.anchor)
  BY <1>1 DEF ServerVerifies
<1>16. ASSUME Len(window) = w.last - w.first + 1, zero, window[pos] = original[n].hash
       PROVE  x.payload = original[n].payload
  <2>1. GoodOriginal(n, original, anchored, damage)
    BY <1>6 DEF BookInv
  <2>2. Hash(p, q) = Hash(original[n].payload, original[n].prev)
    BY <1>13, <1>16, <2>1, Zenon DEF GoodOriginal
  <2>3. p = original[n].payload
    BY <2>2, SameHash
  <2> QED
    BY <1>2, <1>10, <1>16, <2>3, Zenon
<1>17. w = x.anchor.payload.window
  BY <1>2, Zenon DEF w
<1> QED
  BY <1>14, <1>15, <1>16, <1>17, Zenon DEF x, pos, window, j

LEMMA ServerAgrees ==
    ASSUME ProofsAssumption, BookInv, NEW n \in DOMAIN book, Response(n, TRUE).ok,
           ServerVerifies(Response(n, TRUE).anchor)
    PROVE  Certified(Response(n, TRUE))
<1> DEFINE zero   == TRUE
           x      == Response(n, zero)
           j      == FirstOf(AnchorsOf(n))
           anchor == book[j]
           w      == anchor.payload.window
           leaves == LeavesFor(w, zero)
           pos    == n - w.first + 1
<1>1. /\ x.anchor.signature # Unsigned /\ x.anchor.signature = Message(x.anchor)
  BY Zenon DEF ServerVerifies
<1>2. /\ x.ok /\ AnchorsOf(n) # {} /\ ~(pos > Len(leaves)) /\ MerkleRoot(leaves) = w.root
      /\ x.leaf = LeafFor(n, w, zero)
      /\ x.proof = MerkleProof(leaves, pos) /\ x.anchor = anchor
  <2>1. TRUE \in BOOLEAN
    OBVIOUS
  <2> QED
    BY <2>1, ResponseFacts, Zenon
<1>3. j \in DOMAIN book /\ IsAnchor(anchor) /\ w.first <= n /\ n <= w.last
  BY <1>2, FirstAnchor, Zenon
<1> HIDE DEF x, j
<1>4. anchor.signature # Unsigned /\ anchor.signature = Message(anchor)
  BY <1>1, <1>2, Zenon
<1>5. Bounds(w) /\ anchor.hash = Hash(anchor.payload, anchor.prev)
  BY <1>3, <1>4, SignedAnchor
<1>6. n \in Nat
  <2>1. IsSeq(book)
    BY DEF BookInv
  <2>2. DOMAIN book = 1 .. Len(book) /\ Len(book) \in Nat
    BY <2>1, BookLength
  <2> QED
    BY <2>2
<1>7. n \in w.first .. w.last
  BY <1>3, <1>5, <1>6 DEF Bounds
<1>8. IsSeq(leaves) /\ Len(leaves) \in Nat /\ LeafFor(n, w, zero) = leaves[pos]
  BY <1>5, <1>7, LeavesFacts
<1>9. pos \in 1 .. Len(leaves)
  <2>1. pos \in Nat /\ pos >= 1
    BY <1>5, <1>7 DEF Bounds
  <2>2. ~(pos > Len(leaves)) /\ Len(leaves) \in Nat
    BY <1>2, <1>8, Zenon
  <2> HIDE DEF pos, leaves
  <2> QED
    BY <2>1, <2>2
<1> HIDE DEF leaves, pos
<1>10. RootFrom(leaves[pos], MerkleProof(leaves, pos)) = MerkleRoot(leaves)
  BY <1>8, <1>9, ProofLeadsToRoot
<1>11. Certified(x)
  BY <1>1, <1>2, <1>5, <1>8, <1>10, Zenon DEF Certified
<1> QED
  BY <1>11 DEF x

LEMMA SignedCertified ==
    ASSUME ProofsAssumption, BookInv, NEW n \in DOMAIN book, NEW zero \in BOOLEAN,
           damage = 0, AnchorsOf(n) # {}, book[FirstOf(AnchorsOf(n))].signature # Unsigned
    PROVE  Certified(Response(n, zero)) /\ Response(n, zero).leaf = original[n].hash
<1> DEFINE x      == Response(n, zero)
           j      == FirstOf(AnchorsOf(n))
           anchor == book[j]
           w      == anchor.payload.window
           leaves == LeavesFor(w, zero)
           pos    == n - w.first + 1
           window == WindowLeaves(original, w)
<1>1. j \in DOMAIN book /\ IsAnchor(anchor) /\ w.first <= n /\ n <= w.last
  BY FirstAnchor, Zenon
<1>2. Len(book) \in Nat /\ Len(original) = Len(book) /\ DOMAIN book = 1 .. Len(book)
  <2>1. IsSeq(book) /\ Len(book) = Len(original)
    BY DEF BookInv
  <2> QED
    BY <2>1, BookLength
<1>3. anchor.signature = Message(anchor)
  <2>1. GoodStored(anchor, original[j], damage)
    BY <1>1, <1>2 DEF BookInv
  <2>2. /\ anchor.signature = Message(original[j]) /\ anchor.payload = original[j].payload
        /\ anchor.prev = original[j].prev /\ anchor.hash = original[j].hash
    BY <2>1, Zenon DEF GoodStored
  <2> QED
    BY <2>2, Zenon DEF Message
<1>4. /\ Bounds(w) /\ w.first >= 1 /\ w.last \in 1 .. Len(book) /\ w.root = MerkleRoot(window)
      /\ anchor.hash = Hash(anchor.payload, anchor.prev)
  <2>1. /\ Bounds(w) /\ w.first >= 1 /\ w.last \in 1 .. Len(book)
        /\ GoodWindow(j, w, original, anchored[j], damage)
        /\ anchor.hash = Hash(anchor.payload, anchor.prev)
    BY <1>1, <1>3, SignedAnchor
  <2>2. w.root = MerkleRoot(anchored[j]) /\ anchored[j] = window
    BY <2>1, Zenon DEF GoodWindow
  <2> QED
    BY <2>1, <2>2, Zenon
<1>5. n \in w.first .. w.last
  BY <1>1, <1>2, <1>4 DEF Bounds
<1>6. leaves = window /\ (zero => ChainLeaves(w).sound) /\ LeafFor(n, w, zero) = original[n].hash
  BY <1>4, <1>5, Undamaged
<1>7. /\ IsSeq(window) /\ Len(window) = w.last - w.first + 1
      /\ pos \in Nat /\ pos \in 1 .. w.last - w.first + 1 /\ window[pos] = original[n].hash
  BY <1>4, <1>5, LeavesOfWindow
<1>8. pos \in 1 .. Len(window) /\ ~(pos > Len(window)) /\ ~(pos > Len(leaves))
  <2>1. pos \in 1 .. Len(window)
    BY <1>7
  <2>2. Len(window) \in Nat
    BY <1>7, BookLength
  <2>3. ~(pos > Len(window))
    BY <1>7, <2>1, <2>2
  <2> QED
    BY <1>6, <2>1, <2>3, Zenon
<1>9. MerkleRoot(leaves) = w.root
  BY <1>4, <1>6, Zenon
<1>10. /\ x.ok /\ x.leaf = LeafFor(n, w, zero) /\ x.proof = MerkleProof(leaves, pos) /\ x.anchor = anchor
  BY <1>6, <1>8, <1>9, ResponseFacts, Zenon
<1> HIDE DEF x, window, pos, leaves
<1>11. RootFrom(window[pos], MerkleProof(window, pos)) = MerkleRoot(window)
  BY <1>7, <1>8, ProofLeadsToRoot
<1>12. Certified(x)
  BY <1>3, <1>4, <1>6, <1>7, <1>10, <1>11, Zenon DEF Certified
<1> QED
  BY <1>6, <1>10, <1>12, Zenon DEF x

(* The proofs of the ledger can be relied on, for windows and ledgers of   *)
(* any length and any number of changed fields, before a window is         *)
(* anchored and after: a certified leaf is the hash its entry stored when  *)
(* its window was anchored, if every entry of the window stored one; if    *)
(* that is the hash it was appended with, then with zero_cache the payload *)
(* is the one appended; service and verifier agree on the anchor; and      *)
(* without a change the certificate of an entry whose anchor is signed and *)
(* near is given, for the hash appended.                                   *)
THEOREM CertificatesHold == BookSpec => []CertificatesSound
<1>1. BookInit => BookInv
  BY ProofsAssumption, BookStarts
<1>2. BookInv /\ [BookNext]_bookVars => BookInv'
  BY BookStays
<1>3. BookInv => CertificatesSound
  <2> SUFFICES ASSUME BookInv, NEW n \in DOMAIN book, NEW zero \in BOOLEAN
               PROVE  ProofSound(n, zero)
    BY DEF CertificatesSound
  <2>1. ASSUME Certified(Response(n, zero))
        PROVE  LET x      == Response(n, zero)
                   window == anchored[FirstOf(AnchorsOf(n))]
                   w      == x.anchor.payload.window
                   pos    == n - w.first + 1
               IN  /\ ServerVerifies(x.anchor)
                   /\ Len(window) = w.last - w.first + 1 =>
                        /\ x.leaf = window[pos]
                        /\ zero /\ window[pos] = original[n].hash => x.payload = original[n].payload
    BY ProofsAssumption, <2>1, CertifiedSound
  <2>2. ASSUME zero, Response(n, zero).ok, ServerVerifies(Response(n, zero).anchor)
        PROVE  Certified(Response(n, zero))
    <3>1. zero = TRUE
      BY <2>2
    <3>2. Response(n, TRUE).ok /\ ServerVerifies(Response(n, TRUE).anchor)
      BY <2>2, <3>1, Zenon
    <3>3. Certified(Response(n, TRUE))
      BY ProofsAssumption, <3>2, ServerAgrees
    <3> QED
      BY <3>1, <3>3, Zenon
  <2>3. ASSUME damage = 0, AnchorsOf(n) # {}, book[FirstOf(AnchorsOf(n))].signature # Unsigned
        PROVE  Certified(Response(n, zero)) /\ Response(n, zero).leaf = original[n].hash
    BY ProofsAssumption, <2>3, SignedCertified
  <2> QED
    BY <2>1, <2>2, <2>3, Zenon DEF ProofSound
<1> QED
  BY <1>1, <1>2, <1>3, PTL DEF BookSpec
=============================================================================
