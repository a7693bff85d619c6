------------------------- MODULE IdempotencyProofs -------------------------
(***************************************************************************)
(* Theorems about the idempotency boundary, for any processes, requests    *)
(* and keys, finitely many or not.                                         *)
(***************************************************************************)
EXTENDS Idempotency, FiniteSetTheorems, TLAPS

(* The tables without the count of blocked keys.                           *)
Tables == TypeOK /\ OneOwner /\ KeyStates /\ FuturesDelivered /\ WaitersAttached /\ SameAnswer

(* Interrupts pay for the blocked keys.                                    *)
BlockedPaid == IsFiniteSet(Blocked) /\ Cardinality(Blocked) <= interrupts

IInv == Tables /\ BlockedPaid

(* The three kinds of result differ, none names a request that is not      *)
(* there, and what is kept of an answer is a result of the same request.   *)
LEMMA ResultFacts ==
    ASSUME IdempotencyAssumption
    PROVE  /\ NoResult \in Results
           /\ \A r \in Results : r # NoResult => r.by \in Requests
           /\ \A q \in Requests, n \in 0 .. MaxChunks :
                /\ Stream(q, n) \in Results /\ Stream(q, n) # NoResult /\ Stream(q, n).by = q
                /\ Broken(q, n) \in Results /\ Broken(q, n) # NoResult /\ Broken(q, n).by = q
<1>1. None \notin Requests /\ MaxChunks \in Nat
  BY DEF IdempotencyAssumption
<1>2. NoResult.by = None /\ \A q, n : Broken(q, n).by = q /\ Stream(q, n).by = q
  BY DEF NoResult, Broken, Stream
<1> HIDE DEF NoResult, Broken, Stream
<1>3. NoResult \in Results
  BY DEF Results
<1>4. \A q \in Requests, n \in 0 .. MaxChunks : Broken(q, n) \in Results
  BY DEF Results
<1>5. \A q \in Requests, n \in 0 .. MaxChunks : Stream(q, n) \in Results
  BY DEF Results
<1>6. ASSUME NEW r \in Results, r # NoResult PROVE r.by \in Requests
  <2>1. CASE \E q \in Requests, n \in 0 .. MaxChunks : r = Broken(q, n)
    BY <1>2, <2>1
  <2>2. CASE \E q \in Requests, n \in 0 .. MaxChunks : r = Stream(q, n)
    BY <1>2, <2>2
  <2> QED
    BY <1>6, <2>1, <2>2 DEF Results
<1> QED
  BY <1>1, <1>2, <1>3, <1>4, <1>5, <1>6

(* Of an answer its request and its end are kept, and of a whole stream    *)
(* everything; what is kept would be kept as it is.                        *)
LEMMA ReplayedFacts ==
    /\ \A q, n : Replayed(Stream(q, n)) = Stream(q, n) /\ Replayed(Broken(q, n)) = Broken(q, 0)
    /\ \A r \in Results :
         /\ Replayed(r).by = r.by /\ (Replayed(r).ok <=> r.ok) /\ Replayed(Replayed(r)) = Replayed(r)
         /\ r.ok => Replayed(r) = r
<1>1. \A q, n : Replayed(Stream(q, n)) = Stream(q, n) /\ Replayed(Broken(q, n)) = Broken(q, 0)
  BY DEF Replayed, Stream, Broken
<1>2. Replayed(NoResult) = NoResult /\ NoResult.ok = FALSE
  <2>1. NoResult.ok = FALSE /\ NoResult.by = None /\ NoResult = Broken(None, 0)
    BY DEF NoResult, Broken
  <2> HIDE DEF NoResult, Broken
  <2> QED
    BY <2>1 DEF Replayed
<1>3. \A q, n : Stream(q, n).ok = TRUE /\ Broken(q, n).ok = FALSE
                /\ Stream(q, n).by = q /\ Broken(q, n).by = q
  BY DEF Stream, Broken
<1>4. ASSUME NEW r \in Results
      PROVE  /\ Replayed(r).by = r.by /\ (Replayed(r).ok <=> r.ok) /\ Replayed(Replayed(r)) = Replayed(r)
             /\ r.ok => Replayed(r) = r
  <2>1. CASE r = NoResult
    BY <1>2, <2>1
  <2>2. CASE \E q \in Requests, n \in 0 .. MaxChunks : r = Broken(q, n)
    <3>1. PICK q \in Requests, n \in 0 .. MaxChunks : r = Broken(q, n)
      BY <2>2
    <3>2. Replayed(r) = Broken(q, 0) /\ r.by = q /\ r.ok = FALSE
      BY <1>1, <1>3, <3>1
    <3>3. Replayed(Replayed(r)) = Replayed(r)
      <4>1. Replayed(Broken(q, 0)) = Broken(q, 0)
        BY <1>1
      <4> QED
        BY <3>2, <4>1
    <3>4. Replayed(r).by = r.by /\ (Replayed(r).ok <=> r.ok)
      BY <1>3, <3>2
    <3>5. ~r.ok
      BY <3>2
    <3> QED
      BY <3>3, <3>4, <3>5
  <2>3. CASE \E q \in Requests, n \in 0 .. MaxChunks : r = Stream(q, n)
    BY <1>1, <1>3, <2>3
  <2> QED
    BY <2>1, <2>2, <2>3 DEF Results
<1> QED
  BY <1>1, <1>4

(* The tables of a process are typed, so one entry of one process can be   *)
(* changed by itself.                                                      *)
LEMMA TableFacts ==
    ASSUME NEW S, NEW f \in [Procs -> [Keys -> S]], NEW p \in Procs, NEW k \in Keys, NEW v \in S,
           NEW g, g = [f EXCEPT ![p][k] = v]
    PROVE  /\ g \in [Procs -> [Keys -> S]] /\ g[p][k] = v
           /\ \A a \in Procs, b \in Keys : <<a, b>> # <<p, k>> => g[a][b] = f[a][b]
OBVIOUS

(* No key is blocked at first.                                             *)
LEMMA InitCoherent == ASSUME IdempotencyAssumption, Init PROVE IInv
<1> USE DEF Init
<1>1. /\ \A q \in Requests : request[q] = NewRequest /\ future[q] = NoResult
      /\ NewRequest.at = "new" /\ NewRequest.got = NoResult
      /\ \A p \in Procs, k \in Keys : completed[p][k] = NoResult /\ inflight[p][k] = None
  BY DEF NewRequest
<1>2. TypeOK
  <2>1. NewRequest \in RequestStates
    BY ResultFacts DEF NewRequest, RequestStates, Places, IdempotencyAssumption
  <2>2. request \in [Requests -> RequestStates]
    BY <2>1
  <2>3. completed \in [Procs -> [Keys -> Results]] /\ future \in [Requests -> Results]
    BY ResultFacts
  <2>4. interrupts \in 0 .. MaxInterrupts
    BY DEF IdempotencyAssumption
  <2>5. inflight \in [Procs -> [Keys -> Requests \cup {None}]]
    OBVIOUS
  <2> QED
    BY <1>1, <2>2, <2>3, <2>4, <2>5 DEF TypeOK
<1>3. OneOwner /\ KeyStates /\ FuturesDelivered /\ WaitersAttached /\ SameAnswer
  BY <1>1 DEF OneOwner, Owners, KeyStates, FuturesDelivered, WaitersAttached, SameAnswer
<1>4. Blocked = {}
  BY <1>1 DEF Blocked
<1>5. BlockedPaid
  BY <1>4, FS_EmptySet DEF BlockedPaid
<1> QED
  BY <1>2, <1>3, <1>5 DEF IInv, Tables

(* Blocked keys that do not become more, and those that become one more at *)
(* an interrupt, stay paid for.                                            *)
LEMMA PaidFor ==
    ASSUME BlockedPaid, interrupts \in Nat, interrupts' \in Nat,
           \/ Blocked' \subseteq Blocked /\ interrupts' >= interrupts
           \/ \E pk : Blocked' \subseteq Blocked \cup {pk} /\ interrupts' = interrupts + 1
    PROVE  BlockedPaid'
<1>1. IsFiniteSet(Blocked) /\ Cardinality(Blocked) \in Nat /\ Cardinality(Blocked) <= interrupts
  BY FS_CardinalityType DEF BlockedPaid
<1>2. CASE Blocked' \subseteq Blocked /\ interrupts' >= interrupts
  <2>1. IsFiniteSet(Blocked') /\ Cardinality(Blocked') <= Cardinality(Blocked)
    BY <1>1, <1>2, FS_Subset
  <2>2. Cardinality(Blocked') \in Nat
    BY <2>1, FS_CardinalityType
  <2> QED
    BY <1>1, <1>2, <2>1, <2>2 DEF BlockedPaid
<1>3. ASSUME NEW pk, Blocked' \subseteq Blocked \cup {pk}, interrupts' = interrupts + 1
      PROVE  BlockedPaid'
  <2> DEFINE B == Blocked
  <2> HIDE DEF B
  <2>0. IsFiniteSet(B) => /\ IsFiniteSet(B \cup {pk})
                          /\ Cardinality(B \cup {pk}) = IF pk \in B THEN Cardinality(B) ELSE Cardinality(B) + 1
    BY FS_AddElement, Zenon
  <2>1. IsFiniteSet(Blocked \cup {pk}) /\ Cardinality(Blocked \cup {pk}) <= Cardinality(Blocked) + 1
    BY <1>1, <2>0 DEF B
  <2>2. IsFiniteSet(Blocked') /\ Cardinality(Blocked') <= Cardinality(Blocked \cup {pk})
    BY <1>3, <2>1, FS_Subset
  <2>3. Cardinality(Blocked') \in Nat /\ Cardinality(Blocked \cup {pk}) \in Nat
    BY <2>1, <2>2, FS_CardinalityType
  <2> QED
    BY <1>1, <1>3, <2>1, <2>2, <2>3 DEF BlockedPaid
<1> QED
  BY <1>2, <1>3

(* One request moves to the state r; what that means for each request.     *)
Moves(q, r) == request' = [request EXCEPT ![q] = r]

(* The others stay as they are.                                            *)
LEMMA MovesFacts ==
    ASSUME TypeOK, NEW q \in Requests, NEW r \in RequestStates, Moves(q, r)
    PROVE  /\ request' \in [Requests -> RequestStates] /\ request'[q] = r
           /\ \A o \in Requests : o # q => request'[o] = request[o]
BY DEF TypeOK, Moves

(* An owner goes on, is refused, or goes away: the tables do not change,   *)
(* and it has blocked its key unless it is still at work.                  *)
LEMMA OwnerMoves ==
    ASSUME IdempotencyAssumption, IInv, NEW q \in Requests, NEW r \in RequestStates,
           request[q].at \in {"gates", "stream", "hung"}, Moves(q, r),
           r.at \in {"stream", "hung", "refused", "gone"}, r.proc = request[q].proc, r.key = request[q].key,
           UNCHANGED <<completed, inflight, future>>,
           interrupts' \in 0 .. MaxInterrupts,
           interrupts' = IF r.at \in {"stream", "hung"} THEN interrupts ELSE interrupts + 1
    PROVE  IInv'
<1> DEFINE p == request[q].proc
           k == request[q].key
<1>1. /\ request' \in [Requests -> RequestStates] /\ request'[q] = r
      /\ \A o \in Requests : o # q => request'[o] = request[o]
  BY MovesFacts DEF IInv, Tables
<1>2. TypeOK /\ OneOwner /\ KeyStates /\ FuturesDelivered /\ WaitersAttached /\ SameAnswer
  BY DEF IInv, Tables
<1>3. p \in Procs /\ k \in Keys /\ inflight[p][k] = q
  BY <1>2 DEF TypeOK, OneOwner, Owners
<1>4. /\ \A o \in Requests : request[o].at = "answered" <=> request'[o].at = "answered"
      /\ \A o \in Requests : request'[o].proc = request[o].proc /\ request'[o].key = request[o].key
      /\ \A o \in Requests : request'[o].at \in {"wait", "answered", "new"} => request'[o] = request[o]
  BY <1>1
<1>5. TypeOK'
  BY <1>1, <1>2, <1>3, <1>4 DEF TypeOK
<1>6. OneOwner'
  BY <1>1, <1>2, <1>3 DEF OneOwner, Owners
<1>7. KeyStates'
  <2> SUFFICES ASSUME NEW a \in Procs, NEW b \in Keys
               PROVE  /\ LET result == completed[a][b] IN
                         result # NoResult =>
                           /\ inflight[a][b] = None
                           /\ Of(result.by, a, b)' /\ Delivered(result.by, result)'
                      /\ LET o == inflight[a][b] IN
                         o # None =>
                           /\ Of(o, a, b)' /\ future[o] = NoResult
                           /\ request'[o].at \in {"gates", "stream", "hung", "refused", "gone"}
    BY DEF KeyStates, Of, Delivered
  <2>1. completed[a][b] \in Results /\ inflight[a][b] \in Requests \cup {None}
    BY <1>2 DEF TypeOK
  <2>2. completed[a][b] # NoResult => completed[a][b].by \in Requests
    BY <2>1, ResultFacts
  <2> QED
    BY <1>1, <1>2, <2>1, <2>2 DEF KeyStates, Of, Delivered
<1>8. FuturesDelivered'
  BY <1>1, <1>2 DEF FuturesDelivered, Delivered
<1>9. WaitersAttached'
  BY <1>1, <1>2, <1>4 DEF WaitersAttached, TypeOK, Of
<1>10. SameAnswer'
  <2> SUFFICES ASSUME NEW o \in Requests, request'[o].at = "answered"
               PROVE  LET owner == request'[o].got.by IN
                      /\ request'[owner].at = "answered"
                      /\ Replayed(request'[owner].got) = Replayed(request'[o].got)
                      /\ request'[o].key = request'[owner].key
                      /\ o # owner => request'[o].got = Replayed(request'[o].got)
                      /\ request'[o].got.ok => request'[o].got.chunks = request'[owner].sent
    BY DEF SameAnswer, Delivered
  <2>1. request'[o] = request[o] /\ request[o].got.by \in Requests
    BY <1>2, <1>4, ResultFacts DEF TypeOK, RequestStates
  <2>2. LET owner == request[o].got.by IN
       /\ Delivered(owner, Replayed(request[o].got)) /\ request[o].key = request[owner].key
       /\ o # owner => request[o].got = Replayed(request[o].got)
       /\ request[o].got.ok => request[o].got.chunks = request[owner].sent
    BY <1>2, <2>1 DEF SameAnswer
  <2> QED
    BY <1>1, <2>1, <2>2 DEF Delivered
<1>11. Blocked' \subseteq IF r.at \in {"stream", "hung"} THEN Blocked ELSE Blocked \cup {<<p, k>>}
  <2> SUFFICES ASSUME NEW pk \in Procs \X Keys, inflight[pk[1]][pk[2]] # None,
                      inflight[pk[1]][pk[2]] \notin Owners', r.at \in {"stream", "hung"} \/ pk # <<p, k>>
               PROVE  inflight[pk[1]][pk[2]] \notin Owners
    BY DEF Blocked
  <2>1. inflight[pk[1]][pk[2]] = q => pk = <<p, k>>
    BY <1>2, <1>3 DEF KeyStates, Of
  <2>2. r.at \in {"stream", "hung"} => q \in Owners'
    BY <1>1 DEF Owners
  <2> QED
    BY <1>1, <2>1, <2>2 DEF Owners
<1>12. BlockedPaid'
  <2>1. interrupts \in Nat /\ interrupts' \in Nat
    BY <1>2, <1>5 DEF TypeOK, IdempotencyAssumption
  <2> QED
    BY <1>11, <2>1, PaidFor DEF IInv
<1> QED
  BY <1>5, <1>6, <1>7, <1>8, <1>9, <1>10, <1>12 DEF IInv, Tables

(* What refers to a request that is new or waits: no key, no future, no    *)
(* kept result and no answer.                                              *)
LEMMA NothingRefers ==
    ASSUME IdempotencyAssumption, Tables, NEW q \in Requests, request[q].at \in {"new", "wait"}
    PROVE  /\ q \notin Owners /\ future[q] = NoResult
           /\ \A p \in Procs, k \in Keys :
                inflight[p][k] # q /\ (completed[p][k] # NoResult => completed[p][k].by # q)
           /\ \A o \in Requests : request[o].at = "answered" => request[o].got.by # q
<1>1. None \notin Requests
  BY DEF IdempotencyAssumption
<1> QED
  BY <1>1 DEF Tables, Owners, KeyStates, FuturesDelivered, SameAnswer, Delivered

(* A duplicate is answered, from what is kept or from the future it        *)
(* awaited, with what the request it names was answered.                   *)
LEMMA DuplicateAnswered ==
    ASSUME IdempotencyAssumption, IInv, NEW q \in Requests, NEW r \in RequestStates,
           request[q].at \in {"new", "wait"}, Moves(q, r),
           r.at = "answered", r.proc \in Procs, r.key \in Keys, r.got # NoResult,
           Delivered(r.got.by, r.got), request[r.got.by].key = r.key,
           request[q].at = "wait" => r.proc = request[q].proc /\ r.key = request[q].key,
           UNCHANGED <<completed, inflight, future, interrupts>>
    PROVE  IInv'
<1>1. /\ request' \in [Requests -> RequestStates] /\ request'[q] = r
      /\ \A o \in Requests : o # q => request'[o] = request[o]
  BY MovesFacts DEF IInv, Tables
<1>2. TypeOK /\ OneOwner /\ KeyStates /\ FuturesDelivered /\ WaitersAttached /\ SameAnswer
  BY DEF IInv, Tables
<1>3. /\ q \notin Owners /\ future[q] = NoResult
      /\ \A p \in Procs, k \in Keys :
           inflight[p][k] # q /\ (completed[p][k] # NoResult => completed[p][k].by # q)
      /\ \A o \in Requests : request[o].at = "answered" => request[o].got.by # q
  BY NothingRefers DEF IInv
<1>4. r.got.by \in Requests /\ r.got.by # q
  BY ResultFacts DEF RequestStates, Delivered
<1>5. TypeOK'
  BY <1>1, <1>2 DEF TypeOK
<1>6. Owners' = Owners
  BY <1>1, <1>3 DEF Owners
<1>7. OneOwner'
  BY <1>1, <1>2, <1>3, <1>6 DEF OneOwner, Owners
<1>8. KeyStates'
  <2> SUFFICES ASSUME NEW a \in Procs, NEW b \in Keys
               PROVE  /\ LET result == completed[a][b] IN
                         result # NoResult =>
                           /\ inflight[a][b] = None
                           /\ Of(result.by, a, b)' /\ Delivered(result.by, result)'
                      /\ LET o == inflight[a][b] IN
                         o # None =>
                           /\ Of(o, a, b)' /\ future[o] = NoResult
                           /\ request'[o].at \in {"gates", "stream", "hung", "refused", "gone"}
    BY DEF KeyStates, Of, Delivered
  <2>1. completed[a][b] \in Results /\ inflight[a][b] \in Requests \cup {None}
    BY <1>2 DEF TypeOK
  <2>2. completed[a][b] # NoResult => completed[a][b].by \in Requests
    BY <2>1, ResultFacts
  <2> QED
    BY <1>1, <1>2, <1>3, <2>1, <2>2 DEF KeyStates, Of, Delivered
<1>9. FuturesDelivered'
  BY <1>1, <1>2, <1>3 DEF FuturesDelivered, Delivered
<1>10. WaitersAttached'
  <2> SUFFICES ASSUME NEW w \in Requests, request'[w].at = "wait"
               PROVE  /\ request'[request'[w].owner].at # "new"
                      /\ Of(request[w].owner, request[w].proc, request[w].key)'
                      /\ \/ future[request'[w].owner] # NoResult
                         \/ inflight[request'[w].proc][request'[w].key] = request'[w].owner
    BY DEF WaitersAttached, Of
  <2>1. w # q /\ request'[w] = request[w] /\ request[w].at = "wait" /\ request[w].owner \in Requests
    BY <1>1, <1>2 DEF TypeOK
  <2>2. /\ request[request[w].owner].at # "new"
        /\ Of(request[w].owner, request[w].proc, request[w].key)
        /\ \/ future[request[w].owner] # NoResult
           \/ inflight[request[w].proc][request[w].key] = request[w].owner
    BY <1>2, <2>1 DEF WaitersAttached
  <2> QED
    BY <1>1, <2>1, <2>2 DEF Of
<1>11. SameAnswer'
  <2> SUFFICES ASSUME NEW o \in Requests, request'[o].at = "answered"
               PROVE  LET owner == request'[o].got.by IN
                      /\ request'[owner].at = "answered"
                      /\ Replayed(request'[owner].got) = Replayed(request'[o].got)
                      /\ request'[o].key = request'[owner].key
                      /\ o # owner => request'[o].got = Replayed(request'[o].got)
                      /\ request'[o].got.ok => request'[o].got.chunks = request'[owner].sent
    BY DEF SameAnswer, Delivered
  <2>1. CASE o = q
    <3> DEFINE w == r.got.by
    <3>1. /\ w \in Requests /\ w # q /\ request[w].at = "answered" /\ Replayed(request[w].got) = r.got
          /\ request[w].got \in Results /\ request'[w] = request[w] /\ request'[q] = r
      BY <1>1, <1>2, <1>4 DEF Delivered, TypeOK, RequestStates
    <3>2. request[w].got.by = w /\ Replayed(r.got) = r.got /\ (r.got.ok <=> request[w].got.ok)
      BY <3>1, ReplayedFacts
    <3>3. r.got.ok => r.got = request[w].got /\ r.got.chunks = request[w].sent
      BY <1>2, <3>1, <3>2, ReplayedFacts DEF SameAnswer
    <3> QED
      BY <2>1, <3>1, <3>2, <3>3
  <2>2. CASE o # q
    <3>1. request'[o] = request[o] /\ request[o].at = "answered" /\ request[o].got.by \in Requests
      BY <1>1, <1>2, <2>2, ResultFacts DEF TypeOK, RequestStates
    <3>2. LET owner == request[o].got.by IN
         /\ Delivered(owner, Replayed(request[o].got)) /\ request[o].key = request[owner].key
         /\ o # owner => request[o].got = Replayed(request[o].got)
         /\ request[o].got.ok => request[o].got.chunks = request[owner].sent
      BY <1>2, <3>1 DEF SameAnswer
    <3> QED
      BY <1>1, <1>3, <3>1, <3>2 DEF Delivered
  <2> QED
    BY <2>1, <2>2
<1>12. BlockedPaid'
  <2>1. Blocked' = Blocked
    BY <1>6 DEF Blocked
  <2> QED
    BY <2>1 DEF IInv, BlockedPaid
<1> QED
  BY <1>5, <1>7, <1>8, <1>9, <1>10, <1>11, <1>12 DEF IInv, Tables

(* A new request arrives at a key without a kept result: it becomes its    *)
(* owner when nobody is, and waits for the owner otherwise.                *)
LEMMA NewcomerEnters ==
    ASSUME IdempotencyAssumption, IInv, NEW q \in Requests, NEW p \in Procs, NEW k \in Keys,
           NEW r \in RequestStates, request[q].at = "new", Moves(q, r), completed[p][k] = NoResult,
           r.proc = p, r.key = k, UNCHANGED <<completed, future, interrupts>>,
           \/ /\ inflight[p][k] # None /\ UNCHANGED inflight
              /\ r.at = "wait" /\ r.owner = inflight[p][k]
           \/ /\ inflight[p][k] = None /\ inflight' = [inflight EXCEPT ![p][k] = q]
              /\ r.at = "gates"
    PROVE  IInv'
<1>1. /\ request' \in [Requests -> RequestStates] /\ request'[q] = r
      /\ \A o \in Requests : o # q => request'[o] = request[o]
  BY MovesFacts DEF IInv, Tables
<1>2. TypeOK /\ OneOwner /\ KeyStates /\ FuturesDelivered /\ WaitersAttached /\ SameAnswer
  BY DEF IInv, Tables
<1>3. /\ q \notin Owners /\ future[q] = NoResult /\ q # None
      /\ \A a \in Procs, b \in Keys :
           inflight[a][b] # q /\ (completed[a][b] # NoResult => completed[a][b].by # q)
      /\ \A o \in Requests : request[o].at = "answered" => request[o].got.by # q
  BY NothingRefers DEF IInv, IdempotencyAssumption
<1>4. /\ inflight' \in [Procs -> [Keys -> Requests \cup {None}]]
      /\ \A a \in Procs, b \in Keys :
           /\ inflight'[a][b] \in {inflight[a][b], q}
           /\ inflight[a][b] # None => inflight'[a][b] = inflight[a][b]
           /\ inflight'[a][b] = q => a = p /\ b = k /\ r.at = "gates"
      /\ r.at = "gates" => inflight[p][k] = None /\ inflight'[p][k] = q
  <2>1. CASE UNCHANGED inflight /\ r.at = "wait"
    BY <1>2, <1>3, <2>1 DEF TypeOK
  <2>2. CASE inflight[p][k] = None /\ inflight' = [inflight EXCEPT ![p][k] = q] /\ r.at = "gates"
    <3>1. inflight \in [Procs -> [Keys -> Requests \cup {None}]]
      BY <1>2 DEF TypeOK
    <3>2. /\ inflight' \in [Procs -> [Keys -> Requests \cup {None}]] /\ inflight'[p][k] = q
          /\ \A a \in Procs, b \in Keys : <<a, b>> # <<p, k>> => inflight'[a][b] = inflight[a][b]
      BY <2>2, <3>1, TableFacts
    <3> QED
      BY <1>3, <2>2, <3>2
  <2> QED
    BY <2>1, <2>2
<1>5. TypeOK'
  <2>1. r.at = "wait" => r.owner \in Requests
    BY <1>2 DEF TypeOK
  <2> QED
    BY <1>1, <1>2, <1>4, <2>1 DEF TypeOK
<1>6. OneOwner'
  <2> SUFFICES ASSUME NEW o \in Requests, request'[o].at \in {"gates", "stream", "hung"}
               PROVE  inflight'[request'[o].proc][request'[o].key] = o
    BY DEF OneOwner, Owners
  <2>1. CASE o = q
    BY <1>1, <1>4, <2>1
  <2>2. CASE o # q
    BY <1>1, <1>2, <1>4, <2>2 DEF OneOwner, Owners, TypeOK, IdempotencyAssumption
  <2> QED
    BY <2>1, <2>2
<1>7. KeyStates'
  <2> SUFFICES ASSUME NEW a \in Procs, NEW b \in Keys
               PROVE  /\ LET result == completed[a][b] IN
                         result # NoResult =>
                           /\ inflight'[a][b] = None
                           /\ Of(result.by, a, b)' /\ Delivered(result.by, result)'
                      /\ LET o == inflight'[a][b] IN
                         o # None =>
                           /\ request'[o].proc = a /\ request'[o].key = b
                           /\ future[o] = NoResult
                           /\ request'[o].at \in {"gates", "stream", "hung", "refused", "gone"}
    BY DEF KeyStates, Of, Delivered
  <2>1. completed[a][b] \in Results /\ inflight[a][b] \in Requests \cup {None}
    BY <1>2 DEF TypeOK
  <2>2. completed[a][b] # NoResult => completed[a][b].by \in Requests
    BY <2>1, ResultFacts
  <2>3. completed[a][b] # NoResult =>
          inflight'[a][b] = None /\ Of(completed[a][b].by, a, b)'
          /\ Delivered(completed[a][b].by, completed[a][b])'
    BY <1>1, <1>2, <1>3, <1>4, <2>2 DEF KeyStates, Of, Delivered
  <2>4. CASE inflight'[a][b] = q
    BY <1>1, <1>3, <1>4, <2>3, <2>4 DEF Of, Delivered
  <2>5. CASE inflight'[a][b] # q
    <3>1. inflight'[a][b] = inflight[a][b]
      BY <1>4, <2>5
    <3> QED
      BY <1>1, <1>2, <2>1, <2>3, <2>5, <3>1 DEF KeyStates, Of, Delivered
  <2> QED
    BY <2>4, <2>5
<1>8. FuturesDelivered'
  BY <1>1, <1>2, <1>3 DEF FuturesDelivered, Delivered
<1>9. WaitersAttached'
  <2> SUFFICES ASSUME NEW w \in Requests, request'[w].at = "wait"
               PROVE  LET o == request'[w].owner IN
                      /\ request'[o].at # "new"
                      /\ request'[o].proc = request'[w].proc /\ request'[o].key = request'[w].key
                      /\ \/ future[o] # NoResult
                         \/ inflight'[request'[w].proc][request'[w].key] = o
    BY DEF WaitersAttached, Of
  <2>1. CASE w = q
    <3>1. r.at = "wait" /\ r.owner = inflight[p][k] /\ inflight[p][k] \in Requests \ {q}
      BY <1>1, <1>2, <1>3, <1>5, <2>1 DEF TypeOK
    <3> QED
      BY <1>1, <1>2, <1>3, <1>4, <2>1, <3>1 DEF KeyStates, Of
  <2>2. CASE w # q
    <3>1. request'[w] = request[w] /\ request[w].owner \in Requests
          /\ request[w].proc \in Procs /\ request[w].key \in Keys
      BY <1>1, <1>2, <2>2 DEF TypeOK
    <3>2. /\ request[request[w].owner].at # "new"
          /\ Of(request[w].owner, request[w].proc, request[w].key)
          /\ \/ future[request[w].owner] # NoResult
             \/ inflight[request[w].proc][request[w].key] = request[w].owner
      BY <1>2, <3>1 DEF WaitersAttached
    <3> QED
      BY <1>1, <1>4, <3>1, <3>2 DEF Of, IdempotencyAssumption
  <2> QED
    BY <2>1, <2>2
<1>10. SameAnswer'
  <2> SUFFICES ASSUME NEW o \in Requests, request'[o].at = "answered"
               PROVE  LET owner == request'[o].got.by IN
                      /\ request'[owner].at = "answered"
                      /\ Replayed(request'[owner].got) = Replayed(request'[o].got)
                      /\ request'[o].key = request'[owner].key
                      /\ o # owner => request'[o].got = Replayed(request'[o].got)
                      /\ request'[o].got.ok => request'[o].got.chunks = request'[owner].sent
    BY DEF SameAnswer, Delivered
  <2>1. o # q /\ request'[o] = request[o] /\ request[o].got.by \in Requests
    BY <1>1, <1>2, ResultFacts DEF TypeOK, RequestStates
  <2>2. LET owner == request[o].got.by IN
       /\ Delivered(owner, Replayed(request[o].got)) /\ request[o].key = request[owner].key
       /\ o # owner => request[o].got = Replayed(request[o].got)
       /\ request[o].got.ok => request[o].got.chunks = request[owner].sent
    BY <1>2, <2>1 DEF SameAnswer
  <2> QED
    BY <1>1, <1>3, <2>1, <2>2 DEF Delivered
<1>11. Blocked' \subseteq Blocked
  <2> SUFFICES ASSUME NEW pk \in Procs \X Keys, inflight'[pk[1]][pk[2]] # None,
                      inflight'[pk[1]][pk[2]] \notin Owners'
               PROVE  inflight[pk[1]][pk[2]] # None /\ inflight[pk[1]][pk[2]] \notin Owners
    BY DEF Blocked
  <2>1. inflight'[pk[1]][pk[2]] # q
    BY <1>1, <1>4 DEF Owners
  <2>2. inflight'[pk[1]][pk[2]] = inflight[pk[1]][pk[2]]
    BY <1>4, <2>1
  <2> QED
    BY <1>1, <2>1, <2>2 DEF Owners
<1>12. BlockedPaid'
  <2>1. interrupts \in Nat /\ interrupts' = interrupts
    BY <1>2 DEF TypeOK, IdempotencyAssumption
  <2> QED
    BY <1>11, <2>1, PaidFor DEF IInv
<1> QED
  BY <1>5, <1>6, <1>7, <1>8, <1>9, <1>10, <1>12 DEF IInv, Tables

(* An owner ends: the result of its answer is kept, its key leaves the     *)
(* table, and its future is resolved.                                      *)
LEMMA OwnerEnds ==
    ASSUME IdempotencyAssumption, IInv, NEW q \in Requests, NEW result \in Results, NEW answer \in Results,
           result # NoResult, result.by = q, request[q].at \in {"gates", "stream", "hung"},
           answer # NoResult, answer.by = q, Replayed(answer) = result,
           answer.ok => answer.chunks = request[q].sent,
           StoreResult(q, result), Answer(q, answer), UNCHANGED interrupts
    PROVE  IInv'
<1> DEFINE p == request[q].proc
           k == request[q].key
           r == [request[q] EXCEPT !.at = "answered", !.got = answer]
<1>2. TypeOK /\ OneOwner /\ KeyStates /\ FuturesDelivered /\ WaitersAttached /\ SameAnswer
  BY DEF IInv, Tables
<1>0. /\ r \in RequestStates /\ r.at = "answered" /\ r.got = answer /\ r.proc = p /\ r.key = k
      /\ r.sent = request[q].sent /\ Moves(q, r)
  <2>1. request \in [Requests -> RequestStates] /\ "answered" \in Places
    BY <1>2 DEF TypeOK, Places
  <2>2. request[q] \in RequestStates
    BY <2>1
  <2>3. /\ r \in RequestStates /\ r.at = "answered" /\ r.got = answer
        /\ r.proc = p /\ r.key = k /\ r.sent = request[q].sent
    BY <2>1, <2>2 DEF RequestStates
  <2>4. request' = [request EXCEPT ![q] = r]
    BY <2>1, <2>2 DEF Answer, RequestStates
  <2> QED
    BY <2>3, <2>4 DEF Moves
<1>1. /\ request' \in [Requests -> RequestStates] /\ request'[q] = r
      /\ \A o \in Requests : o # q => request'[o] = request[o]
  BY <1>0, <1>2, MovesFacts
<1>3. p \in Procs /\ k \in Keys /\ inflight[p][k] = q /\ q # None
  BY <1>2 DEF TypeOK, OneOwner, Owners, IdempotencyAssumption
<1>4. completed[p][k] = NoResult /\ future[q] = NoResult
  BY <1>2, <1>3 DEF KeyStates
<1>5. /\ inflight' \in [Procs -> [Keys -> Requests \cup {None}]] /\ inflight'[p][k] = None
      /\ \A a \in Procs, b \in Keys : <<a, b>> # <<p, k>> => inflight'[a][b] = inflight[a][b]
  <2>1. inflight \in [Procs -> [Keys -> Requests \cup {None}]] /\ inflight' = [inflight EXCEPT ![p][k] = None]
    BY <1>2 DEF TypeOK, StoreResult, Released
  <2> QED
    BY <1>3, <2>1, TableFacts
<1>6. /\ completed' \in [Procs -> [Keys -> Results]] /\ completed'[p][k] = result
      /\ \A a \in Procs, b \in Keys : <<a, b>> # <<p, k>> => completed'[a][b] = completed[a][b]
  <2>1. completed \in [Procs -> [Keys -> Results]] /\ completed' = [completed EXCEPT ![p][k] = result]
    BY <1>2 DEF TypeOK, StoreResult, Kept
  <2> QED
    BY <1>3, <2>1, TableFacts
<1>7. /\ future' \in [Requests -> Results] /\ future'[q] = result
      /\ \A o \in Requests : o # q => future'[o] = future[o]
  <2>1. future' = [future EXCEPT ![q] = IF @ = NoResult THEN result ELSE @]
    BY <1>3, Zenon DEF StoreResult, Resolved
  <2> QED
    BY <1>2, <1>4, <2>1 DEF TypeOK
<1> HIDE DEF r
<1>8. /\ \A a \in Procs, b \in Keys : inflight'[a][b] # q
      /\ \A o \in Requests : request[o].at = "answered" => request[o].got.by # q
  <2>1. \A o \in Requests : request[o].at = "answered" => request[o].got.by # q
    BY <1>2 DEF SameAnswer, Delivered
  <2>2. \A a \in Procs, b \in Keys : inflight'[a][b] # q
    BY <1>2, <1>3, <1>5 DEF KeyStates, Of
  <2> QED
    BY <2>1, <2>2
<1>9. TypeOK'
  <2>1. ASSUME NEW o \in Requests
        PROVE  /\ request'[o].at # "new" => request'[o].proc \in Procs /\ request'[o].key \in Keys
               /\ request'[o].at = "wait" => request'[o].owner \in Requests
               /\ request'[o].at = "answered" => request'[o].got # NoResult
    <3>1. CASE o = q
      BY <1>0, <1>1, <1>3, <3>1
    <3>2. CASE o # q
      BY <1>1, <1>2, <3>2 DEF TypeOK
    <3> QED
      BY <3>1, <3>2
  <2>2. interrupts' \in 0 .. MaxInterrupts
    BY <1>2 DEF TypeOK
  <2> QED
    BY <1>1, <1>5, <1>6, <1>7, <2>1, <2>2 DEF TypeOK
<1>10. OneOwner'
  <2> SUFFICES ASSUME NEW o \in Requests, request'[o].at \in {"gates", "stream", "hung"}
               PROVE  inflight'[request'[o].proc][request'[o].key] = o
    BY DEF OneOwner, Owners
  <2>1. o # q /\ request'[o] = request[o]
    BY <1>0, <1>1
  <2>2. /\ inflight[request[o].proc][request[o].key] = o
        /\ request[o].proc \in Procs /\ request[o].key \in Keys
    BY <1>2, <2>1 DEF OneOwner, Owners, TypeOK
  <2> QED
    BY <1>3, <1>5, <2>1, <2>2
<1>11. KeyStates'
  <2> SUFFICES ASSUME NEW a \in Procs, NEW b \in Keys
               PROVE  /\ completed'[a][b] # NoResult =>
                           /\ inflight'[a][b] = None
                           /\ request'[completed'[a][b].by].proc = a
                           /\ request'[completed'[a][b].by].key = b
                           /\ request'[completed'[a][b].by].at = "answered"
                           /\ Replayed(request'[completed'[a][b].by].got) = completed'[a][b]
                      /\ LET o == inflight'[a][b] IN
                         o # None =>
                           /\ request'[o].proc = a /\ request'[o].key = b
                           /\ future'[o] = NoResult
                           /\ request'[o].at \in {"gates", "stream", "hung", "refused", "gone"}
    BY DEF KeyStates, Of, Delivered
  <2>1. CASE <<a, b>> = <<p, k>>
    <3>1. a = p /\ b = k
      BY <2>1
    <3>2. completed'[a][b] = result /\ inflight'[a][b] = None
      BY <1>5, <1>6, <3>1
    <3> QED
      BY <1>0, <1>1, <3>1, <3>2
  <2>2. CASE <<a, b>> # <<p, k>>
    <3>1. completed'[a][b] = completed[a][b] /\ inflight'[a][b] = inflight[a][b] /\ inflight[a][b] # q
      BY <1>5, <1>6, <1>8, <2>2
    <3>2. completed[a][b] \in Results /\ inflight[a][b] \in Requests \cup {None}
      BY <1>2 DEF TypeOK
    <3>3. completed[a][b] # NoResult => completed[a][b].by \in Requests \ {q}
      BY <1>2, <3>2, ResultFacts DEF KeyStates, Delivered
    <3>4. /\ completed[a][b] # NoResult =>
               /\ inflight[a][b] = None
               /\ Of(completed[a][b].by, a, b) /\ Delivered(completed[a][b].by, completed[a][b])
          /\ inflight[a][b] # None =>
               /\ Of(inflight[a][b], a, b) /\ future[inflight[a][b]] = NoResult
               /\ request[inflight[a][b]].at \in {"gates", "stream", "hung", "refused", "gone"}
      BY <1>2 DEF KeyStates
    <3> QED
      BY <1>1, <1>7, <3>1, <3>2, <3>3, <3>4 DEF Of, Delivered
  <2> QED
    BY <2>1, <2>2
<1>12. FuturesDelivered'
  <2> SUFFICES ASSUME NEW o \in Requests, future'[o] # NoResult
               PROVE  future'[o].by = o /\ request'[o].at = "answered" /\ Replayed(request'[o].got) = future'[o]
    BY DEF FuturesDelivered, Delivered
  <2>1. CASE o = q
    BY <1>0, <1>1, <1>7, <2>1
  <2>2. CASE o # q
    BY <1>1, <1>2, <1>7, <2>2 DEF FuturesDelivered, Delivered
  <2> QED
    BY <2>1, <2>2
<1>13. WaitersAttached'
  <2> SUFFICES ASSUME NEW w \in Requests, request'[w].at = "wait"
               PROVE  LET o == request'[w].owner IN
                      /\ request'[o].at # "new"
                      /\ request'[o].proc = request'[w].proc /\ request'[o].key = request'[w].key
                      /\ \/ future'[o] # NoResult
                         \/ inflight'[request'[w].proc][request'[w].key] = o
    BY DEF WaitersAttached, Of
  <2>1. w # q /\ request'[w] = request[w] /\ request[w].owner \in Requests
        /\ request[w].proc \in Procs /\ request[w].key \in Keys
    BY <1>0, <1>1, <1>2 DEF TypeOK
  <2>2. /\ request[request[w].owner].at # "new"
        /\ Of(request[w].owner, request[w].proc, request[w].key)
        /\ \/ future[request[w].owner] # NoResult
           \/ inflight[request[w].proc][request[w].key] = request[w].owner
    BY <1>2, <2>1 DEF WaitersAttached
  <2>3. CASE request[w].owner = q
    BY <1>0, <1>1, <1>7, <2>1, <2>2, <2>3 DEF Of
  <2>4. CASE request[w].owner # q
    <3>1. inflight[request[w].proc][request[w].key] = request[w].owner =>
            inflight'[request[w].proc][request[w].key] = request[w].owner
      BY <1>3, <1>5, <2>1, <2>4
    <3> QED
      BY <1>1, <1>7, <2>1, <2>2, <2>4, <3>1 DEF Of
  <2> QED
    BY <2>3, <2>4
<1>14. SameAnswer'
  <2> SUFFICES ASSUME NEW o \in Requests, request'[o].at = "answered"
               PROVE  LET owner == request'[o].got.by IN
                      /\ request'[owner].at = "answered"
                      /\ Replayed(request'[owner].got) = Replayed(request'[o].got)
                      /\ request'[o].key = request'[owner].key
                      /\ o # owner => request'[o].got = Replayed(request'[o].got)
                      /\ request'[o].got.ok => request'[o].got.chunks = request'[owner].sent
    BY DEF SameAnswer, Delivered
  <2>1. CASE o = q
    BY <1>0, <1>1, <2>1
  <2>2. CASE o # q
    <3>1. request'[o] = request[o] /\ request[o].got.by \in Requests
      BY <1>1, <1>2, <2>2, ResultFacts DEF TypeOK, RequestStates
    <3>2. LET owner == request[o].got.by IN
         /\ Delivered(owner, Replayed(request[o].got)) /\ request[o].key = request[owner].key
         /\ o # owner => request[o].got = Replayed(request[o].got)
         /\ request[o].got.ok => request[o].got.chunks = request[owner].sent
      BY <1>2, <3>1 DEF SameAnswer
    <3> QED
      BY <1>1, <1>8, <3>1, <3>2 DEF Delivered
  <2> QED
    BY <2>1, <2>2
<1>15. Blocked' \subseteq Blocked
  <2> SUFFICES ASSUME NEW pk \in Procs \X Keys, inflight'[pk[1]][pk[2]] # None,
                      inflight'[pk[1]][pk[2]] \notin Owners'
               PROVE  inflight[pk[1]][pk[2]] # None /\ inflight[pk[1]][pk[2]] \notin Owners
    BY DEF Blocked
  <2>1. inflight'[pk[1]][pk[2]] = inflight[pk[1]][pk[2]] /\ inflight'[pk[1]][pk[2]] # q
    BY <1>5, <1>8
  <2> QED
    BY <1>1, <2>1 DEF Owners
<1>16. BlockedPaid'
  <2>1. interrupts \in Nat /\ interrupts' = interrupts
    BY <1>2 DEF TypeOK, IdempotencyAssumption
  <2> QED
    BY <1>15, <2>1, PaidFor DEF IInv
<1> QED
  BY <1>9, <1>10, <1>11, <1>12, <1>13, <1>14, <1>16 DEF IInv, Tables

(* A process is restarted: its tables are empty and its requests are gone. *)
LEMMA ProcessRestarts ==
    ASSUME IdempotencyAssumption, IInv, NEW p \in Procs, Restart(p)
    PROVE  IInv'
<1>1. TypeOK /\ OneOwner /\ KeyStates /\ FuturesDelivered /\ WaitersAttached /\ SameAnswer
  BY DEF IInv, Tables
<1>2. /\ request' \in [Requests -> RequestStates]
      /\ \A q \in Requests :
           /\ request[q].proc = p /\ request[q].at \in Open => request'[q].at = "gone"
           /\ ~(request[q].proc = p /\ request[q].at \in Open) => request'[q] = request[q]
           /\ request'[q].proc = request[q].proc /\ request'[q].key = request[q].key
  <2>1. ASSUME NEW q \in Requests
        PROVE  LET r == [request[q] EXCEPT !.at = "gone"]
               IN  r \in RequestStates /\ r.at = "gone" /\ r.proc = request[q].proc /\ r.key = request[q].key
    <3>1. request[q] \in RequestStates /\ "gone" \in Places
      BY <1>1 DEF TypeOK, Places
    <3> QED
      BY <3>1 DEF RequestStates
  <2>2. request' = [q \in Requests |->
           IF request[q].proc = p /\ request[q].at \in Open
           THEN [request[q] EXCEPT !.at = "gone"] ELSE request[q]]
    BY Zenon DEF Restart
  <2>3. \A q \in Requests : request[q] \in RequestStates
    BY <1>1 DEF TypeOK
  <2> QED
    BY <2>1, <2>2, <2>3
<1>3. /\ inflight' \in [Procs -> [Keys -> Requests \cup {None}]]
      /\ completed' \in [Procs -> [Keys -> Results]] /\ future' = future
      /\ \A k \in Keys : inflight'[p][k] = None /\ completed'[p][k] = NoResult
      /\ \A a \in Procs : a # p => inflight'[a] = inflight[a] /\ completed'[a] = completed[a]
  BY <1>1, ResultFacts DEF TypeOK, Restart
<1>4. interrupts \in Nat /\ interrupts' \in 0 .. MaxInterrupts /\ interrupts' = interrupts + 1
  BY <1>1 DEF TypeOK, Restart, Interrupt, IdempotencyAssumption
<1>5. \A q \in Requests :
        /\ request[q].at = "answered" <=> request'[q].at = "answered"
        /\ request'[q].at \in {"wait", "gates", "stream", "hung", "answered", "new"} => request'[q] = request[q]
        /\ request'[q].at \in {"wait", "gates", "stream", "hung"} => request[q].proc # p
        /\ request[q].at # "new" <=> request'[q].at # "new"
        /\ request[q].proc # p => request'[q] = request[q]
  BY <1>2 DEF Open
<1>6. TypeOK'
  BY <1>1, <1>2, <1>3, <1>4, <1>5 DEF TypeOK
<1>7. OneOwner'
  <2> SUFFICES ASSUME NEW o \in Requests, request'[o].at \in {"gates", "stream", "hung"}
               PROVE  inflight'[request'[o].proc][request'[o].key] = o
    BY DEF OneOwner, Owners
  <2>1. request'[o] = request[o] /\ request[o].proc # p
    BY <1>5
  <2> QED
    BY <1>1, <1>3, <2>1 DEF OneOwner, Owners, TypeOK
<1>8. KeyStates'
  <2> SUFFICES ASSUME NEW a \in Procs, NEW b \in Keys
               PROVE  /\ LET result == completed'[a][b] IN
                         result # NoResult =>
                           /\ inflight'[a][b] = None
                           /\ request'[result.by].proc = a /\ request'[result.by].key = b
                           /\ request'[result.by].at = "answered" /\ Replayed(request'[result.by].got) = result
                      /\ LET o == inflight'[a][b] IN
                         o # None =>
                           /\ request'[o].proc = a /\ request'[o].key = b
                           /\ future'[o] = NoResult
                           /\ request'[o].at \in {"gates", "stream", "hung", "refused", "gone"}
    BY DEF KeyStates, Of, Delivered
  <2>1. CASE a = p
    BY <1>3, <2>1
  <2>2. CASE a # p
    <3>1. completed'[a][b] = completed[a][b] /\ inflight'[a][b] = inflight[a][b] /\ future' = future
      BY <1>3, <2>2
    <3>2. completed[a][b] \in Results /\ inflight[a][b] \in Requests \cup {None}
      BY <1>1 DEF TypeOK
    <3>3. completed[a][b] # NoResult => completed[a][b].by \in Requests
      BY <3>2, ResultFacts
    <3>4. /\ completed[a][b] # NoResult =>
               /\ inflight[a][b] = None
               /\ Of(completed[a][b].by, a, b) /\ Delivered(completed[a][b].by, completed[a][b])
          /\ inflight[a][b] # None =>
               /\ Of(inflight[a][b], a, b) /\ future[inflight[a][b]] = NoResult
               /\ request[inflight[a][b]].at \in {"gates", "stream", "hung", "refused", "gone"}
      BY <1>1 DEF KeyStates
    <3> QED
      BY <1>5, <2>2, <3>1, <3>2, <3>3, <3>4 DEF Of, Delivered
  <2> QED
    BY <2>1, <2>2
<1>9. FuturesDelivered'
  BY <1>1, <1>3, <1>5 DEF FuturesDelivered, Delivered
<1>10. WaitersAttached'
  <2> SUFFICES ASSUME NEW w \in Requests, request'[w].at = "wait"
               PROVE  LET o == request'[w].owner IN
                      /\ request'[o].at # "new"
                      /\ request'[o].proc = request'[w].proc /\ request'[o].key = request'[w].key
                      /\ \/ future'[o] # NoResult
                         \/ inflight'[request'[w].proc][request'[w].key] = o
    BY DEF WaitersAttached, Of
  <2>1. request'[w] = request[w] /\ request[w].proc \in Procs \ {p} /\ request[w].owner \in Requests
    BY <1>1, <1>5 DEF TypeOK
  <2>2. /\ request[request[w].owner].at # "new"
        /\ Of(request[w].owner, request[w].proc, request[w].key)
        /\ \/ future[request[w].owner] # NoResult
           \/ inflight[request[w].proc][request[w].key] = request[w].owner
    BY <1>1, <2>1 DEF WaitersAttached
  <2> QED
    BY <1>2, <1>3, <1>5, <2>1, <2>2 DEF Of
<1>11. SameAnswer'
  <2> SUFFICES ASSUME NEW o \in Requests, request'[o].at = "answered"
               PROVE  LET owner == request'[o].got.by IN
                      /\ request'[owner].at = "answered"
                      /\ Replayed(request'[owner].got) = Replayed(request'[o].got)
                      /\ request'[o].key = request'[owner].key
                      /\ o # owner => request'[o].got = Replayed(request'[o].got)
                      /\ request'[o].got.ok => request'[o].got.chunks = request'[owner].sent
    BY DEF SameAnswer, Delivered
  <2>1. request'[o] = request[o] /\ request[o].got.by \in Requests
    BY <1>1, <1>5, ResultFacts DEF TypeOK, RequestStates
  <2>2. LET owner == request[o].got.by IN
       /\ Delivered(owner, Replayed(request[o].got)) /\ request[o].key = request[owner].key
       /\ o # owner => request[o].got = Replayed(request[o].got)
       /\ request[o].got.ok => request[o].got.chunks = request[owner].sent
    BY <1>1, <1>5 DEF SameAnswer
  <2> QED
    BY <1>5, <2>1, <2>2 DEF Delivered
<1>12. Blocked' \subseteq Blocked
  <2> SUFFICES ASSUME NEW pk \in Procs \X Keys, inflight'[pk[1]][pk[2]] # None,
                      inflight'[pk[1]][pk[2]] \notin Owners'
               PROVE  inflight[pk[1]][pk[2]] # None /\ inflight[pk[1]][pk[2]] \notin Owners
    BY DEF Blocked
  <2>1. pk[1] \in Procs \ {p} /\ pk[2] \in Keys /\ inflight'[pk[1]][pk[2]] = inflight[pk[1]][pk[2]]
    BY <1>3
  <2>2. inflight[pk[1]][pk[2]] \in Requests /\ request[inflight[pk[1]][pk[2]]].proc # p
    BY <1>1, <2>1 DEF KeyStates, Of, TypeOK
  <2> QED
    BY <1>5, <2>1, <2>2 DEF Owners
<1>13. BlockedPaid'
  <2>1. interrupts' \in Nat /\ interrupts' >= interrupts
    BY <1>4
  <2> QED
    BY <1>4, <1>12, <2>1, PaidFor DEF IInv
<1> QED
  BY <1>6, <1>7, <1>8, <1>9, <1>10, <1>11, <1>13 DEF IInv, Tables

(* Where a request may go: the record of one that enters the boundary, and *)
(* that of one which moves on.                                             *)
LEMMA RecordFacts ==
    ASSUME IdempotencyAssumption, TypeOK, NEW q \in Requests
    PROVE  /\ \A place \in Places :
                LET r == [request[q] EXCEPT !.at = place]
                IN  /\ r \in RequestStates /\ r.at = place
                    /\ r.proc = request[q].proc /\ r.key = request[q].key
                    /\ Go(q, place) => Moves(q, r)
           /\ \A n \in 0 .. MaxChunks :
                LET r == [request[q] EXCEPT !.sent = n]
                IN  /\ r \in RequestStates /\ r.at = request[q].at
                    /\ r.proc = request[q].proc /\ r.key = request[q].key
           /\ \A result \in Results :
                LET r == [request[q] EXCEPT !.at = "answered", !.got = result]
                IN  /\ r \in RequestStates /\ r.at = "answered" /\ r.got = result
                    /\ r.proc = request[q].proc /\ r.key = request[q].key
                    /\ Answer(q, result) => Moves(q, r)
<1>1. request \in [Requests -> RequestStates] /\ "answered" \in Places
  BY DEF TypeOK, Places
<1>2. request[q] \in RequestStates
  BY <1>1
<1>3. ASSUME NEW place \in Places
      PROVE  LET r == [request[q] EXCEPT !.at = place]
             IN  /\ r \in RequestStates /\ r.at = place
                 /\ r.proc = request[q].proc /\ r.key = request[q].key
                 /\ Go(q, place) => Moves(q, r)
  BY <1>1, <1>2 DEF RequestStates, Go, Moves
<1>4. ASSUME NEW n \in 0 .. MaxChunks
      PROVE  LET r == [request[q] EXCEPT !.sent = n]
             IN  /\ r \in RequestStates /\ r.at = request[q].at
                 /\ r.proc = request[q].proc /\ r.key = request[q].key
  BY <1>1, <1>2 DEF RequestStates
<1>5. ASSUME NEW result \in Results
      PROVE  LET r == [request[q] EXCEPT !.at = "answered", !.got = result]
             IN  /\ r \in RequestStates /\ r.at = "answered" /\ r.got = result
                 /\ r.proc = request[q].proc /\ r.key = request[q].key
                 /\ Answer(q, result) => Moves(q, r)
  BY <1>1, <1>2 DEF RequestStates, Answer, Moves
<1> QED
  BY <1>3, <1>4, <1>5

(* A request that comes from outside, with its key, to one process.        *)
LEMMA ArriveKeeps ==
    ASSUME IdempotencyAssumption, IInv, NEW q \in Requests, Arrive(q)
    PROVE  IInv'
<1>1. PICK p \in Procs, k \in Keys : Replay(q, p, k) \/ Join(q, p, k) \/ Acquire(q, p, k)
  BY Zenon DEF Arrive
<1>2. TypeOK
  BY DEF IInv, Tables
<1>3. /\ completed[p][k] \in Results /\ inflight[p][k] \in Requests \cup {None}
      /\ None \notin Requests
  BY <1>2 DEF TypeOK, IdempotencyAssumption
<1>4. NewRequest \in RequestStates
  BY ResultFacts DEF NewRequest, RequestStates, Places, IdempotencyAssumption
<1>6. {"answered", "wait", "gates"} \subseteq Places /\ NoResult \in Results
  BY ResultFacts DEF Places, Open
<1>7. CASE Replay(q, p, k)
  <2> DEFINE result == completed[p][k]
             r == [NewRequest EXCEPT !.at = "answered", !.proc = p, !.key = k, !.got = result]
  <2>1. r \in RequestStates /\ r.at = "answered" /\ r.proc = p /\ r.key = k /\ r.got = result
    BY <1>3, <1>4, <1>6 DEF RequestStates
  <2>2. Moves(q, r) /\ request[q].at = "new" /\ result # NoResult
        /\ UNCHANGED <<completed, inflight, future, interrupts>>
    BY <1>7 DEF Replay, Moves
  <2>3. Of(result.by, p, k) /\ Delivered(result.by, result)
    BY <2>2 DEF IInv, Tables, KeyStates
  <2> HIDE DEF r, result
  <2> QED
    BY <2>1, <2>2, <2>3, DuplicateAnswered DEF Of
<1>8. CASE Join(q, p, k)
  <2> DEFINE r == [NewRequest EXCEPT !.at = "wait", !.proc = p, !.key = k, !.owner = inflight[p][k]]
  <2>1. r \in RequestStates /\ r.at = "wait" /\ r.proc = p /\ r.key = k /\ r.owner = inflight[p][k]
    BY <1>3, <1>4, <1>6 DEF RequestStates
  <2>2. /\ Moves(q, r) /\ request[q].at = "new" /\ completed[p][k] = NoResult /\ inflight[p][k] # None
        /\ UNCHANGED <<completed, inflight, future, interrupts>>
    BY <1>8 DEF Join, Joins, Moves
  <2> HIDE DEF r
  <2> QED
    BY <2>1, <2>2, NewcomerEnters
<1>9. CASE Acquire(q, p, k)
  <2> DEFINE r == [NewRequest EXCEPT !.at = "gates", !.proc = p, !.key = k]
  <2>1. r \in RequestStates /\ r.at = "gates" /\ r.proc = p /\ r.key = k
    BY <1>3, <1>4, <1>6 DEF RequestStates
  <2>2. /\ Moves(q, r) /\ request[q].at = "new" /\ completed[p][k] = NoResult /\ inflight[p][k] = None
        /\ inflight' = [inflight EXCEPT ![p][k] = q]
        /\ UNCHANGED <<completed, future, interrupts>>
    BY <1>9 DEF Acquire, Joins, Moves
  <2> HIDE DEF r
  <2> QED
    BY <2>1, <2>2, NewcomerEnters
<1> QED
  BY <1>1, <1>7, <1>8, <1>9

(* A request that is in the boundary goes on, or is interrupted.           *)
LEMMA ProceedKeeps ==
    ASSUME IdempotencyAssumption, IInv, NEW q \in Requests, 
           Proceed(q) \/ GatesRefuse(q) \/ Hang(q) \/ Disconnect(q)
    PROVE  IInv'
<1>1. TypeOK /\ request \in [Requests -> RequestStates] /\ request[q] \in RequestStates
      /\ {"stream", "hung", "refused", "gone"} \subseteq Places
      /\ interrupts \in 0 .. MaxInterrupts /\ MaxInterrupts \in Nat /\ MaxChunks \in Nat
  BY DEF IInv, Tables, TypeOK, Places, Open, IdempotencyAssumption
<1>2. request[q].sent \in 0 .. MaxChunks
  BY <1>1 DEF RequestStates
<1>3. CASE GatesPass(q)
  <2> DEFINE r == [request[q] EXCEPT !.at = "stream"]
  <2>1. /\ r \in RequestStates /\ r.at = "stream" /\ r.proc = request[q].proc /\ r.key = request[q].key
        /\ Moves(q, r)
    BY <1>1, <1>3, RecordFacts DEF GatesPass
  <2>2. /\ request[q].at = "gates" /\ UNCHANGED <<completed, inflight, future, interrupts>>
    BY <1>3 DEF GatesPass
  <2> HIDE DEF r
  <2> QED
    BY <1>1, <2>1, <2>2, OwnerMoves
<1>4. CASE Chunk(q)
  <2> DEFINE r == [request[q] EXCEPT !.sent = request[q].sent + 1]
  <2>1. request[q].sent + 1 \in 0 .. MaxChunks
    BY <1>1, <1>2, <1>4 DEF Chunk
  <2>2. /\ r \in RequestStates /\ r.at = request[q].at
        /\ r.proc = request[q].proc /\ r.key = request[q].key
    BY <1>1, <2>1, RecordFacts
  <2>3. Moves(q, r)
    BY <1>1, <1>4 DEF Chunk, Moves, RequestStates
  <2>4. /\ request[q].at = "stream" /\ UNCHANGED <<completed, inflight, future, interrupts>>
    BY <1>4 DEF Chunk
  <2> HIDE DEF r
  <2> QED
    BY <1>1, <2>2, <2>3, <2>4, OwnerMoves
<1>5. CASE Finish(q)
  <2>1. /\ Stream(q, request[q].sent) \in Results /\ Stream(q, request[q].sent) # NoResult
        /\ Stream(q, request[q].sent).by = q
        /\ Replayed(Stream(q, request[q].sent)) = Stream(q, request[q].sent)
        /\ Stream(q, request[q].sent).chunks = request[q].sent
    BY <1>2, ResultFacts, ReplayedFacts DEF Stream
  <2>2. /\ StoreResult(q, Stream(q, request[q].sent)) /\ Answer(q, Stream(q, request[q].sent))
        /\ request[q].at = "stream" /\ UNCHANGED interrupts
    BY <1>5 DEF Finish, Recorded
  <2> QED
    BY <2>1, <2>2, OwnerEnds
<1>6. CASE Raise(q)
  <2> DEFINE result == Broken(q, 0)
             answer == Broken(q, request[q].sent)
  <2>1. /\ result \in Results /\ result # NoResult /\ result.by = q
        /\ answer \in Results /\ answer # NoResult /\ answer.by = q
        /\ Replayed(answer) = result /\ answer.ok = FALSE
    <3>1. 0 \in 0 .. MaxChunks
      BY <1>1
    <3> QED
      BY <1>2, <3>1, ResultFacts, ReplayedFacts DEF Broken
  <2>2. /\ StoreResult(q, result) /\ Answer(q, answer)
        /\ request[q].at = "stream" /\ UNCHANGED interrupts
    BY <1>6 DEF Raise, Failed
  <2> HIDE DEF result, answer
  <2> QED
    BY <2>1, <2>2, OwnerEnds
<1>7. CASE Resume(q)
  <2> DEFINE o == request[q].owner
             result == future[o]
             r == [request[q] EXCEPT !.at = "answered", !.got = result]
  <2>1. /\ request[q].at = "wait" /\ result # NoResult /\ Answer(q, result)
        /\ UNCHANGED <<completed, inflight, future, interrupts>>
    BY <1>7 DEF Resume
  <2>2. o \in Requests /\ result \in Results /\ request[q].proc \in Procs /\ request[q].key \in Keys
    BY <1>1, <2>1 DEF TypeOK
  <2>3. result.by = o /\ Delivered(o, result) /\ request[o].key = request[q].key
    BY <2>1, <2>2 DEF IInv, Tables, FuturesDelivered, WaitersAttached, Of
  <2>4. /\ r \in RequestStates /\ r.at = "answered" /\ r.got = result
        /\ r.proc = request[q].proc /\ r.key = request[q].key /\ Moves(q, r)
    BY <1>1, <2>1, <2>2, RecordFacts
  <2> HIDE DEF r, result, o
  <2> QED
    BY <2>1, <2>2, <2>3, <2>4, DuplicateAnswered
<1>8. CASE GatesRefuse(q)
  <2> DEFINE r == [request[q] EXCEPT !.at = "refused"]
  <2>1. /\ r \in RequestStates /\ r.at = "refused" /\ r.proc = request[q].proc /\ r.key = request[q].key
        /\ Moves(q, r)
    BY <1>1, <1>8, RecordFacts DEF GatesRefuse
  <2>2. /\ request[q].at = "gates" /\ UNCHANGED <<completed, inflight, future>>
        /\ interrupts' \in 0 .. MaxInterrupts /\ interrupts' = interrupts + 1
    BY <1>1, <1>8 DEF GatesRefuse, Interrupt
  <2>3. /\ request[q].at \in {"gates", "stream", "hung"} /\ r.at \in {"stream", "hung", "refused", "gone"}
        /\ interrupts' = IF r.at \in {"stream", "hung"} THEN interrupts ELSE interrupts + 1
    BY <2>1, <2>2
  <2> HIDE DEF r
  <2> QED
    BY <2>1, <2>2, <2>3, OwnerMoves
<1>9. CASE Disconnect(q)
  <2> DEFINE r == [request[q] EXCEPT !.at = "gone"]
  <2>1. /\ r \in RequestStates /\ r.at = "gone" /\ r.proc = request[q].proc /\ r.key = request[q].key
        /\ Moves(q, r)
    BY <1>1, <1>9, RecordFacts DEF Disconnect
  <2>2. /\ request[q].at \in {"stream", "hung"} /\ UNCHANGED <<completed, inflight, future>>
        /\ interrupts' \in 0 .. MaxInterrupts /\ interrupts' = interrupts + 1
    BY <1>1, <1>9 DEF Disconnect, Interrupt
  <2>3. /\ request[q].at \in {"gates", "stream", "hung"} /\ r.at \in {"stream", "hung", "refused", "gone"}
        /\ interrupts' = IF r.at \in {"stream", "hung"} THEN interrupts ELSE interrupts + 1
    BY <2>1, <2>2
  <2> HIDE DEF r
  <2> QED
    BY <2>1, <2>2, <2>3, OwnerMoves
<1>10. CASE Hang(q)
  <2> DEFINE r == [request[q] EXCEPT !.at = "hung"]
  <2>1. /\ r \in RequestStates /\ r.at = "hung" /\ r.proc = request[q].proc /\ r.key = request[q].key
        /\ Moves(q, r)
    BY <1>1, <1>10, RecordFacts DEF Hang
  <2>2. /\ request[q].at \in {"gates", "stream"}
        /\ UNCHANGED <<completed, inflight, future, interrupts>>
    BY <1>10 DEF Hang
  <2> HIDE DEF r
  <2> QED
    BY <1>1, <2>1, <2>2, OwnerMoves
<1> QED
  BY <1>3, <1>4, <1>5, <1>6, <1>7, <1>8, <1>9, <1>10 DEF Proceed

(* Nothing happens.                                                        *)
LEMMA IdleKeeps == ASSUME IInv, UNCHANGED vars PROVE IInv'
<1>1. UNCHANGED <<completed, inflight, future, request, interrupts>>
  BY DEF vars
<1>2. TypeOK' /\ OneOwner' /\ Blocked' = Blocked
  BY <1>1 DEF IInv, Tables, TypeOK, OneOwner, Owners, Blocked
<1>3. KeyStates'
  BY <1>1 DEF IInv, Tables, KeyStates, Of, Delivered
<1>4. FuturesDelivered' /\ WaitersAttached'
  BY <1>1 DEF IInv, Tables, FuturesDelivered, WaitersAttached, Of, Delivered
<1>5. SameAnswer'
  BY <1>1 DEF IInv, Tables, SameAnswer, Delivered
<1>6. BlockedPaid'
  BY <1>1, <1>2 DEF IInv, BlockedPaid
<1> QED
  BY <1>2, <1>3, <1>4, <1>5, <1>6 DEF IInv, Tables

(* Every step of every request and every restart keeps the tables of the   *)
(* boundary together.                                                      *)
THEOREM BoundaryInductive == Spec => []IInv
<1>1. IdempotencyAssumption
  BY IdempotencyAssumption
<1>2. Init => IInv
  BY <1>1, InitCoherent
<1>3. IInv /\ [Next]_vars => IInv'
  <2> SUFFICES ASSUME IInv, [Next]_vars PROVE IInv'
    OBVIOUS
  <2>1. CASE Next
    BY <1>1, <2>1, ArriveKeeps, ProceedKeeps, ProcessRestarts DEF Next
  <2>2. CASE UNCHANGED vars
    BY <2>2, IdleKeeps
  <2> QED
    BY <2>1, <2>2
<1> QED
  BY <1>2, <1>3, PTL DEF Spec

(* chimera/idempotency_runtime.py, with streaming_proxy: whatever is       *)
(* refused, raises, disconnects or is restarted, a key of a process has    *)
(* one owner at work, is in flight or completed but never both, keeps what *)
(* its execution gave its client - of a failure the error alone - and      *)
(* leaves no waiter behind a future nobody holds; each interrupt blocks    *)
(* one key at most.                                                        *)
THEOREM BoundaryHolds == Spec => []BoundaryCoherent
<1>1. IInv => BoundaryCoherent
  BY DEF IInv, Tables, BlockedPaid, BoundaryCoherent
<1> QED
  BY <1>1, BoundaryInductive, PTL

(* A duplicate is given what the execution it names gave its own client,   *)
(* under the key both asked for: the whole stream, or the error that ended *)
(* it without the chunks that client already had.                          *)
THEOREM DuplicatesAgree == Spec => []SameAnswer
<1>1. IInv => SameAnswer
  BY DEF IInv, Tables
<1> QED
  BY <1>1, BoundaryInductive, PTL
=============================================================================
