---------------------------- MODULE Idempotency ----------------------------
(***************************************************************************)
(* The idempotency boundary of POST /v1/stream                             *)
(* (chimera/idempotency_runtime.py and streaming_proxy in BaseT8.py).      *)
(* Every server process has its own boundary: results by request key, and  *)
(* a future for every key in flight.  The first request of a key owns it   *)
(* and runs the stream; a request that comes while it runs awaits its      *)
(* future, one that comes later gets the stored result.  The gates an      *)
(* owner passes and the stream it records are in stream_preflight.py and   *)
(* streaming_runtime.py; here they pass, refuse, go on, raise or hang.     *)
(***************************************************************************)
EXTENDS Naturals, FiniteSets

CONSTANTS
    Procs,          \* server processes
    Requests,       \* requests, the retries of a client included
    Keys,           \* (tenant and session, x-request-id)
    None,           \* no request
    MaxChunks,      \* bound of the model: chunks of one stream
    MaxInterrupts   \* bound of the model: refusals, disconnections, restarts

ASSUME IdempotencyAssumption ==
    /\ None \notin Requests
    /\ MaxChunks \in Nat /\ MaxInterrupts \in Nat

VARIABLES
    completed,   \* _completed of each process: results by key
    inflight,    \* _inflight of each process: the request that owns the key
    future,      \* what the future each owner created was resolved with
    request,     \* where each request is: [at, proc, key, sent, owner, got]
    interrupts   \* interrupts so far

vars == <<completed, inflight, future, request, interrupts>>

(* A result is what a client can receive of one execution: whose, how many *)
(* chunks of it, and whether the payload of an error follows them.         *)
Stream(q, n) == [by |-> q, chunks |-> n, ok |-> TRUE]
Broken(q, n) == [by |-> q, chunks |-> n, ok |-> FALSE]
NoResult     == [by |-> None, chunks |-> 0, ok |-> FALSE]
Results == {NoResult} \cup {Stream(q, n) : q \in Requests, n \in 0 .. MaxChunks}
                      \cup {Broken(q, n) : q \in Requests, n \in 0 .. MaxChunks}

NewRequest == [at |-> "new", proc |-> None, key |-> None, sent |-> 0,
               owner |-> None, got |-> NoResult]

Init ==
    /\ completed = [p \in Procs |-> [k \in Keys |-> NoResult]]
    /\ inflight = [p \in Procs |-> [k \in Keys |-> None]]
    /\ future = [q \in Requests |-> NoResult]
    /\ request = [q \in Requests |-> NewRequest]
    /\ interrupts = 0

Interrupt == interrupts < MaxInterrupts /\ interrupts' = interrupts + 1

Go(q, place) == request' = [request EXCEPT ![q].at = place]

Answer(q, result) == request' = [request EXCEPT ![q].at = "answered", ![q].got = result]

(* acquire_or_get: "cached". *)
Replay(q, p, k) ==
    /\ request[q].at = "new"
    /\ completed[p][k] # NoResult
    /\ request' = [request EXCEPT ![q] = [NewRequest EXCEPT !.at = "answered", !.proc = p,
                                             !.key = k, !.got = completed[p][k]]]
    /\ UNCHANGED <<completed, inflight, future, interrupts>>

Joins(p, k) == completed[p][k] = NoResult /\ inflight[p][k] # None

(* acquire_or_get: "inflight"; the future is awaited. *)
Join(q, p, k) ==
    /\ request[q].at = "new"
    /\ Joins(p, k)
    /\ request' = [request EXCEPT ![q] = [NewRequest EXCEPT !.at = "wait", !.proc = p,
                                             !.key = k, !.owner = inflight[p][k]]]
    /\ UNCHANGED <<completed, inflight, future, interrupts>>

(* acquire_or_get: "acquired", a new future under the key. *)
Acquire(q, p, k) ==
    /\ request[q].at = "new"
    /\ completed[p][k] = NoResult /\ ~Joins(p, k)
    /\ inflight' = [inflight EXCEPT ![p][k] = q]
    /\ request' = [request EXCEPT ![q] = [NewRequest EXCEPT !.at = "gates", !.proc = p, !.key = k]]
    /\ UNCHANGED <<completed, future, interrupts>>

(* Redis, the fail-safe gate and preflight let the request through. *)
GatesPass(q) ==
    /\ request[q].at = "gates"
    /\ Go(q, "stream")
    /\ UNCHANGED <<completed, inflight, future, interrupts>>

(* One of them raises an HTTPException: nothing takes the key back. *)
GatesRefuse(q) ==
    /\ request[q].at = "gates"
    /\ Interrupt
    /\ Go(q, "refused")
    /\ UNCHANGED <<completed, inflight, future>>

(* One chunk is recorded and yielded to the client. *)
Chunk(q) ==
    /\ request[q].at = "stream"
    /\ request[q].sent < MaxChunks
    /\ request' = [request EXCEPT ![q].sent = @ + 1]
    /\ UNCHANGED <<completed, inflight, future, interrupts>>

Kept(p, k, result) == completed' = [completed EXCEPT ![p][k] = result]

(* Mutant of Resolved: the future is forgotten with the key. *)
ResolvedNot(o, result) == UNCHANGED future

(* set_result, unless the future is done. *)
Resolved(o, result) ==
    future' = [future EXCEPT ![o] = IF @ = NoResult THEN result ELSE @]

(* Mutant of Released: the key stays in _inflight. *)
ReleasedNot(p, k) == UNCHANGED inflight

Released(p, k) == inflight' = [inflight EXCEPT ![p][k] = None]

(* store_result: the result is kept, the key leaves _inflight, and its     *)
(* future is resolved.                                                     *)
StoreResult(q, result) ==
    LET p == request[q].proc
        k == request[q].key IN
    /\ Kept(p, k, result)
    /\ Released(p, k)
    /\ IF inflight[p][k] = None THEN UNCHANGED future ELSE Resolved(inflight[p][k], result)

(* Mutant of Recorded: the last chunk is not recorded. *)
RecordedShort(q) == Stream(q, IF request[q].sent = 0 THEN 0 ELSE request[q].sent - 1)

(* The chunks put together. *)
Recorded(q) == Stream(q, request[q].sent)

(* The stream has ended.  got is what the client of the owner received.    *)
Finish(q) ==
    /\ request[q].at = "stream"
    /\ StoreResult(q, Recorded(q))
    /\ Answer(q, Stream(q, request[q].sent))
    /\ UNCHANGED interrupts

(* Mutant of Failed: the chunks before the error are kept with it. *)
FailedWithChunks(q) == Broken(q, request[q].sent)

(* The payload of the error alone. *)
Failed(q) == Broken(q, 0)

(* The stream raised: the payload of the error becomes the result.  The    *)
(* owner's client receives it after the chunks it already has.             *)
Raise(q) ==
    /\ request[q].at = "stream"
    /\ StoreResult(q, Failed(q))
    /\ Answer(q, Broken(q, request[q].sent))
    /\ UNCHANGED interrupts

(* The stream, or a gate, awaits an answer that never comes: the client of *)
(* the upstream provider is made with timeout=None.                        *)
Hang(q) ==
    /\ request[q].at \in {"gates", "stream"}
    /\ Go(q, "hung")
    /\ UNCHANGED <<completed, inflight, future, interrupts>>

(* The client of an owner goes away and the server cancels the generator:  *)
(* neither CancelledError nor GeneratorExit is an Exception.               *)
Disconnect(q) ==
    /\ request[q].at \in {"stream", "hung"}
    /\ Interrupt
    /\ Go(q, "gone")
    /\ UNCHANGED <<completed, inflight, future>>

(* The await of a resolved future returns. *)
Resume(q) ==
    /\ request[q].at = "wait"
    /\ future[request[q].owner] # NoResult
    /\ Answer(q, future[request[q].owner])
    /\ UNCHANGED <<completed, inflight, future, interrupts>>

Open == {"gates", "stream", "hung", "wait"}

(* A process dies with its boundary and starts again. *)
Restart(p) ==
    /\ Interrupt
    /\ completed' = [completed EXCEPT ![p] = [k \in Keys |-> NoResult]]
    /\ inflight' = [inflight EXCEPT ![p] = [k \in Keys |-> None]]
    /\ request' = [q \in Requests |->
         IF request[q].proc = p /\ request[q].at \in Open
         THEN [request[q] EXCEPT !.at = "gone"] ELSE request[q]]
    /\ UNCHANGED future

Arrive(q) == \E p \in Procs, k \in Keys : Replay(q, p, k) \/ Join(q, p, k) \/ Acquire(q, p, k)

Proceed(q) == GatesPass(q) \/ Chunk(q) \/ Finish(q) \/ Raise(q) \/ Resume(q)

Next ==
    \/ \E q \in Requests : Arrive(q) \/ Proceed(q) \/ GatesRefuse(q) \/ Hang(q) \/ Disconnect(q)
    \/ \E p \in Procs : Restart(p)

Spec == Init /\ [][Next]_vars

(* Requests that have arrived are tasks of an event loop, which runs them  *)
(* unless they hang.                                                       *)
FairSpec == Spec /\ \A q \in Requests : WF_vars(Proceed(q))

-----------------------------------------------------------------------------
Places == Open \cup {"new", "refused", "gone", "answered"}

Owners == {q \in Requests : request[q].at \in {"gates", "stream", "hung"}}

RequestStates == [at : Places, proc : Procs \cup {None}, key : Keys \cup {None},
                  sent : 0 .. MaxChunks, owner : Requests \cup {None}, got : Results]

(* The shapes of the state.                                                *)
TypeOK ==
    /\ completed \in [Procs -> [Keys -> Results]]
    /\ inflight \in [Procs -> [Keys -> Requests \cup {None}]]
    /\ future \in [Requests -> Results]
    /\ request \in [Requests -> RequestStates]
    /\ interrupts \in 0 .. MaxInterrupts
    /\ \A q \in Requests :
         /\ request[q].at # "new" => request[q].proc \in Procs /\ request[q].key \in Keys
         /\ request[q].at = "wait" => request[q].owner \in Requests
         /\ request[q].at = "answered" => request[q].got # NoResult

(* A process runs the stream of a key once at a time: upstream is called,  *)
(* quota is taken and the ledger is written once for any number of         *)
(* duplicates.  The owner is the one the key is registered for.            *)
OneOwner ==
    \A q \in Owners : inflight[request[q].proc][request[q].key] = q

(* What is kept of an answer: all of a stream, only the error of a failure. *)
Replayed(answer) == IF answer.ok THEN answer ELSE Broken(answer.by, 0)

Delivered(q, result) == request[q].at = "answered" /\ Replayed(request[q].got) = result

Of(q, p, k) == request[q].proc = p /\ request[q].key = k

(* A key is either in flight or completed.  What is kept for it is what an *)
(* execution of that key in that process gave its own client, of a failure *)
(* only the error; who is registered for it asked for that key there and   *)
(* was not answered.                                                       *)
KeyStates ==
    \A p \in Procs, k \in Keys :
        /\ LET result == completed[p][k] IN
           result # NoResult =>
             /\ inflight[p][k] = None
             /\ Of(result.by, p, k) /\ Delivered(result.by, result)
        /\ LET o == inflight[p][k] IN
           o # None =>
             /\ Of(o, p, k) /\ future[o] = NoResult
             /\ request[o].at \in {"gates", "stream", "hung", "refused", "gone"}

(* A future is resolved with what its own request was answered.            *)
FuturesDelivered ==
    \A o \in Requests : future[o] # NoResult => future[o].by = o /\ Delivered(o, future[o])

(* Whoever waits will be woken by the store of its key: the future it      *)
(* awaits is that of a request for the same key of the same process, and   *)
(* is the registered one or is resolved already.                           *)
WaitersAttached ==
    \A q \in Requests : request[q].at = "wait" =>
        /\ request[request[q].owner].at # "new"
        /\ Of(request[q].owner, request[q].proc, request[q].key)
        /\ \/ future[request[q].owner] # NoResult
           \/ inflight[request[q].proc][request[q].key] = request[q].owner

(* A duplicate gets what an execution of its own key gave its client: the  *)
(* whole stream, or the error that ended it without the chunks before it.  *)
(* Nobody is given part of a stream as if it were all of it.               *)
SameAnswer ==
    \A q \in Requests : request[q].at = "answered" =>
        LET owner == request[q].got.by IN
        /\ Delivered(owner, Replayed(request[q].got))
        /\ request[q].key = request[owner].key
        /\ q # owner => request[q].got = Replayed(request[q].got)
        /\ request[q].got.ok => request[q].got.chunks = request[owner].sent

(* Keys in flight whose owner is no longer at work: only interrupts block  *)
(* a key, and one interrupt blocks one key.                                *)
Blocked == {pk \in Procs \X Keys :
              /\ inflight[pk[1]][pk[2]] # None
              /\ inflight[pk[1]][pk[2]] \notin Owners}

(* What ties the three tables of a process together: an owner is           *)
(* registered, a registered key is not completed, a kept result is of its  *)
(* own key, no waiter is left on a future nobody will resolve, and a key   *)
(* stays in flight without an owner at work only after an interrupt.       *)
BoundaryCoherent ==
    /\ TypeOK /\ OneOwner /\ KeyStates /\ FuturesDelivered /\ WaitersAttached
    /\ Cardinality(Blocked) <= interrupts

(* A duplicate is answered unless its owner was refused at a gate,         *)
(* cancelled or restarted, or hangs: nothing else keeps it waiting.        *)
AnsweredUnlessLost ==
    \A q \in Requests : request[q].at = "wait" ~>
        \/ request[q].at # "wait"
        \/ request[request[q].owner].at \in {"refused", "gone", "hung"}

Lost(q) == request[q].at = "wait" /\ request[request[q].owner].at = "refused"

(* BaseT8.py:981, "In-flight duplicate request failed": a duplicate whose  *)
(* owner fails at a gate is answered too.                                  *)
DuplicatesAnswered == \A q \in Requests : Lost(q) ~> request[q].at # "wait"
=============================================================================
