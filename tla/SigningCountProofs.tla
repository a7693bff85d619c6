------------------------- MODULE SigningCountProofs -------------------------
(***************************************************************************)
(* What of the signing pipeline is counted: how many entries faults can    *)
(* leave unsigned or unpublished, and how far the queue can pass its       *)
(* limit.                                                                  *)
(***************************************************************************)
EXTENDS SigningPipelineProofs, FiniteSetTheorems

(* One more element is at most one more in number.                         *)
LEMMA OneMore ==
    ASSUME NEW S, IsFiniteSet(S), NEW x, NEW T \in SUBSET (S \cup {x})
    PROVE  IsFiniteSet(T) /\ Cardinality(T) <= Cardinality(S) + 1 /\ Cardinality(T) \in Nat
<1>1. IsFiniteSet(S \cup {x}) /\ Cardinality(S \cup {x}) <= Cardinality(S) + 1
  <2>1. Cardinality(S) \in Nat
    BY FS_CardinalityType
  <2>2. /\ IsFiniteSet(S \cup {x})
        /\ Cardinality(S \cup {x}) = IF x \in S THEN Cardinality(S) ELSE Cardinality(S) + 1
    BY FS_AddElement, Zenon
  <2> QED
    BY <2>1, <2>2
<1>2. IsFiniteSet(T) /\ Cardinality(T) <= Cardinality(S \cup {x})
  BY <1>1, FS_Subset
<1> QED
  BY <1>1, <1>2, FS_CardinalityType

(* A set that stays inside another is no larger; a set with one element    *)
(* fewer is smaller.                                                       *)
LEMMA NoMore ==
    ASSUME NEW S, IsFiniteSet(S), NEW T \in SUBSET S
    PROVE  /\ IsFiniteSet(T) /\ Cardinality(T) <= Cardinality(S)
           /\ Cardinality(S) \in Nat /\ Cardinality(T) \in Nat
           /\ \A x \in S \ T : Cardinality(T) + 1 <= Cardinality(S)
<1>1. IsFiniteSet(T) /\ Cardinality(T) <= Cardinality(S)
      /\ (Cardinality(S) = Cardinality(T) => S = T)
  BY FS_Subset
<1>2. Cardinality(S) \in Nat /\ Cardinality(T) \in Nat
  BY <1>1, FS_CardinalityType
<1> QED
  BY <1>1, <1>2

(* The positions of the ledger are finitely many.                          *)
LEMMA PositionsFinite ==
    ASSUME TypeOK, NEW S \in SUBSET DOMAIN ledger
    PROVE  IsFiniteSet(S)
<1>1. DOMAIN ledger = 1 .. Len(ledger) /\ Len(ledger) \in Nat
  BY SeqFacts DEF TypeOK
<1>2. IsFiniteSet(1 .. Len(ledger))
  BY <1>1, FS_Interval
<1> QED
  BY <1>1, <1>2, FS_Subset

-----------------------------------------------------------------------------
(***************************************************************************)
(* The buffer.  A signed entry is published by the worker that signed it,  *)
(* in its next step, unless a fault comes in between.                      *)
(***************************************************************************)

(* Signed entries that are neither in the buffer nor in a worker's hand.   *)
Unsent == {i \in DOMAIN ledger :
             /\ ledger[i].status = Signed
             /\ ledger[i] \notin Elems(buffer)
             /\ \A k \in Workers : worker[k].pos # i}

(* What the buffer holds, and that no one is about to add to it again.     *)
BufferInv ==
    /\ \A e \in Elems(buffer) : e.status = Signed /\ e \in Elems(ledger)
    /\ \A i, j \in DOMAIN buffer : buffer[i].req = buffer[j].req => i = j
    /\ \A k \in Workers : worker[k].at = "publish" =>
          \A e \in Elems(buffer) : e.req # worker[k].copy.req
    /\ \A i \in unanswered : ledger[i].status = Pending

(* Of the entries of one request only the last is known to anybody.        *)
LEMMA ApartRequests ==
    ASSUME SigningInv, NEW i \in DOMAIN ledger, NEW j \in DOMAIN ledger, i # j,
           i \notin unanswered, j \notin unanswered
    PROVE  ledger[i].req # ledger[j].req
<1>1. i \in Nat /\ j \in Nat
  BY SeqFacts DEF SigningInv, STypeOK, TypeOK
<1>2. i < j \/ j < i
  BY <1>1
<1> QED
  BY <1>2 DEF SigningInv, LedgerInv, RepeatsOnlyUnanswered

(* At first the buffer and the ledger are empty.                           *)
LEMMA BufferInit == SInit => BufferInv /\ Unsent = {}
<1> SUFFICES ASSUME SInit PROVE BufferInv /\ Unsent = {}
  OBVIOUS
<1>1. DOMAIN ledger = {} /\ DOMAIN buffer = {} /\ Elems(buffer) = {} /\ unanswered = {}
  BY EmptyFacts DEF SInit, Init, SignerInit
<1> QED
  BY <1>1 DEF BufferInv, Unsent

(* Publishing adds the entry in hand.                                      *)
LEMMA PublishBuffer ==
    ASSUME SigningInv, BufferInv, NEW k \in Workers, Publish(k)
    PROVE  BufferInv'
<1> DEFINE e == worker[k].copy
<1>1. /\ worker[k].at = "publish" /\ worker[k].pos \in DOMAIN ledger
      /\ e = ledger[worker[k].pos] /\ e.status = Signed /\ UNCHANGED <<ledger, unanswered>>
      /\ e \in Elems(ledger)
  <2>1. worker[k].at = "publish"
    BY DEF Publish
  <2>2. worker[k].pos \in DOMAIN ledger /\ Held(k) = {worker[k].pos} /\ UNCHANGED <<ledger, unanswered>>
    BY <2>1, HeldFacts DEF Publish, unchangedByWorker
  <2>3. e = ledger[worker[k].pos] /\ ledger[worker[k].pos].status = Signed
    BY <2>1, <2>2 DEF SigningInv, CopyCurrent, TicketsPending
  <2> QED
    BY <2>1, <2>2, <2>3 DEF Elems
<1>2. /\ DOMAIN worker' = Workers /\ worker'[k].at = "idle"
      /\ \A j \in Workers \ {k} : worker'[j] = worker[j]
  BY AtFacts DEF Publish, Done, SigningInv, STypeOK
<1>3. CASE UNCHANGED buffer
  BY <1>1, <1>2, <1>3 DEF BufferInv
<1>4. CASE buffer' = Append(buffer, e)
  <2>1. IsSeq(buffer) /\ DOMAIN buffer = 1 .. Len(buffer) /\ Len(buffer) \in Nat
    BY SeqFacts DEF SigningInv, STypeOK
  <2>2. /\ DOMAIN buffer' = 1 .. Len(buffer) + 1 /\ Elems(buffer') = Elems(buffer) \cup {e}
        /\ buffer'[Len(buffer) + 1] = e /\ \A i \in DOMAIN buffer : buffer'[i] = buffer[i]
    <3> HIDE DEF e
    <3> QED
      BY <1>4, <2>1, AppendFacts
  <2>3. \A i \in DOMAIN buffer : buffer[i].req # e.req
    BY <1>1 DEF BufferInv, Elems
  <2>4. \A i, j \in DOMAIN buffer' : buffer'[i].req = buffer'[j].req => i = j
    <3> HIDE DEF e
    <3> QED
      BY <2>1, <2>2, <2>3 DEF BufferInv
  <2>5. ASSUME NEW j \in Workers, worker'[j].at = "publish", NEW f \in Elems(buffer')
        PROVE  f.req # worker'[j].copy.req
    <3>1. j # k /\ worker'[j] = worker[j] /\ worker[j].at = "publish"
      BY <1>2, <2>5
    <3>2. worker[j].pos \in DOMAIN ledger /\ worker[j].copy = ledger[worker[j].pos]
      BY <3>1, HeldFacts DEF SigningInv, CopyCurrent
    <3>3. worker[j].pos # worker[k].pos
      BY <1>1, <3>1, <3>2, HeldFacts DEF SigningInv, OneTicket
    <3>4. e.req # worker[j].copy.req
      <4>1. worker[k].pos \notin unanswered /\ worker[j].pos \notin unanswered
        BY <1>1, <3>1, HeldFacts, MyTicket
      <4> QED
        BY <1>1, <3>2, <3>3, <4>1, ApartRequests
    <3> QED
      BY <2>2, <3>1, <3>4 DEF BufferInv
  <2>6. \A f \in Elems(buffer') : f.status = Signed /\ f \in Elems(ledger')
    BY <1>1, <2>2 DEF BufferInv
  <2> QED
    BY <1>1, <2>4, <2>5, <2>6 DEF BufferInv
<1> QED
  BY <1>3, <1>4 DEF Publish

(* LSET does not touch what is in the buffer: that is settled already.     *)
LEMMA StoreBuffer ==
    ASSUME SigningInv, VerdictsSound, BufferInv, NEW k \in Workers, Store(k)
    PROVE  BufferInv'
<1> DEFINE i == worker[k].pos
<1>1. /\ UNCHANGED <<buffer, unanswered>> /\ i \in DOMAIN ledger /\ DOMAIN ledger' = DOMAIN ledger
      /\ i \notin unanswered /\ unanswered \subseteq DOMAIN ledger
      /\ \A j \in DOMAIN ledger \ {i} : ledger'[j] = ledger[j]
      /\ ledger[i].status = Pending /\ ledger'[i].req = ledger[i].req
  <2>1. i # 0 /\ unanswered \subseteq DOMAIN ledger
    BY HeldFacts DEF Store, SigningInv, STypeOK, TypeOK
  <2> QED
    BY <2>1, StoreFacts, MyTicket DEF Store, unchangedByWorker
<1>2. ASSUME NEW e \in Elems(buffer)
      PROVE  e.status = Signed /\ e \in Elems(ledger') /\ e.req # ledger[i].req
  <2>1. e.status = Signed /\ e \in Elems(ledger)
    BY DEF BufferInv
  <2>2. PICK j \in DOMAIN ledger : e = ledger[j]
    BY <2>1 DEF Elems
  <2>3. j # i
    BY <1>1, <2>1, <2>2 DEF Signed, Pending
  <2> QED
    <3>1. j \notin unanswered
      BY <2>1, <2>2 DEF BufferInv, Signed, Pending
    <3> QED
      BY <1>1, <2>1, <2>2, <2>3, <3>1, ApartRequests DEF Elems
<1>3. ASSUME NEW j \in Workers, worker'[j].at = "publish", NEW e \in Elems(buffer)
      PROVE  e.req # worker'[j].copy.req
  <2>1. CASE j = k
    BY <1>1, <1>2, <1>3, <2>1, StoreLeaves
  <2>2. CASE j # k
    BY <1>3, <2>2, StoreLeaves DEF BufferInv
  <2> QED
    BY <2>1, <2>2
<1>4. \A j \in unanswered' : ledger'[j].status = Pending
  BY <1>1 DEF BufferInv
<1> QED
  BY <1>1, <1>2, <1>3, <1>4 DEF BufferInv

(* Every other step only lets entries be added to the ledger.              *)
LEMMA BufferStable ==
    ASSUME BufferInv, UNCHANGED buffer, DOMAIN ledger \subseteq DOMAIN ledger',
           \A i \in DOMAIN ledger : ledger'[i] = ledger[i],
           \A i \in unanswered' : ledger'[i].status = Pending,
           \A k \in Workers : worker'[k].at # "publish" \/ worker'[k] = worker[k]
    PROVE  BufferInv'
<1>1. Elems(ledger) \subseteq Elems(ledger')
  BY DEF Elems
<1>2. \A e \in Elems(buffer) : e.status = Signed /\ e \in Elems(ledger')
  BY <1>1 DEF BufferInv
<1>3. \A k \in Workers : worker'[k].at = "publish" =>
          \A e \in Elems(buffer) : e.req # worker'[k].copy.req
  BY DEF BufferInv
<1> QED
  BY <1>2, <1>3 DEF BufferInv

(* A worker's step keeps what the buffer promises.                         *)
LEMMA BufferWorker ==
    ASSUME SigningInv, VerdictsSound, BufferInv, NEW k \in Workers, WorkerMoves(k)
    PROVE  BufferInv'
<1> STypeOK
  BY DEF SigningInv
<1>1. CASE Store(k) \/ Publish(k)
  BY <1>1, StoreBuffer, PublishBuffer
<1>2. CASE ~Store(k) /\ ~Publish(k)
  <2>1. UNCHANGED buffer /\ UNCHANGED <<ledger, unanswered>>
    BY <1>2, OtherShapes, WorkerCases, LetsGoFacts, GivesBackFacts, PopFacts, WorksFacts
       DEF LoadFails, ledgerVars, unchangedByWorker
  <2>2. \A j \in Workers : worker'[j].at # "publish" \/ worker'[j] = worker[j]
    <3>1. CASE LoadFails(k)
      BY <3>1 DEF LoadFails
    <3>2. CASE LetsGo(k) \/ GivesBack(k)
      <4>1. \E place \in {"load", "idle"} : worker' = [worker EXCEPT ![k] = At(place)]
        BY <3>2, LetsGoFacts, GivesBackFacts
      <4> QED
        BY <4>1, AtFacts DEF STypeOK
    <3>3. CASE Pop(k)
      BY <3>3, PopFacts
    <3>4. CASE Works(k)
      <4>p. PICK p \in {"approve", "sign", "store"} : \E c :
                worker' = [worker EXCEPT ![k] = [@ EXCEPT !.at = p, !.copy = c]]
        BY <3>4, WorksFacts
      <4>1. PICK c :
                worker' = [worker EXCEPT ![k] = [@ EXCEPT !.at = p, !.copy = c]]
        BY <4>p
      <4> QED
        BY <4>1 DEF STypeOK
    <3> QED
      BY <1>2, <3>1, <3>2, <3>3, <3>4, WorkerCases
  <2> QED
    BY <2>1, <2>2, BufferStable DEF BufferInv
<1> QED
  BY <1>1, <1>2

(* So does a writer's.                                                     *)
LEMMA BufferWriter ==
    ASSUME LedgerInv, BufferInv, NEW w \in Writers, WriterMoves(w), UNCHANGED signerVars
    PROVE  BufferInv' /\ Unsent' \subseteq Unsent
<1>1. UNCHANGED <<worker, buffer>>
  BY DEF signerVars
<1>2. BufferInv'
  <2>1. \A i \in unanswered : i \in DOMAIN ledger
    BY DEF LedgerInv, TypeOK
  <2>2. \A i \in unanswered' : ledger'[i].status = Pending
    BY <2>1, WriterOnlyAdds DEF BufferInv
  <2> QED
    BY <1>1, <2>2, WriterOnlyAdds, BufferStable
<1>3. ASSUME NEW i \in Unsent' PROVE i \in Unsent
  <2>1. i \in DOMAIN ledger' /\ ledger'[i].status = Signed
    BY DEF Unsent
  <2>2. i \in DOMAIN ledger /\ ledger'[i] = ledger[i]
    BY <2>1, WriterOnlyAdds DEF Signed, Pending
  <2> QED
    BY <1>1, <2>2 DEF Unsent
<1> QED
  BY <1>2, <1>3

(* Only a fault takes a signed entry out of a worker's hand unpublished.   *)
LEMMA UnsentWorker ==
    ASSUME SigningInv, VerdictsSound, NEW k \in Workers, WorkerMoves(k)
    PROVE  \/ Unsent' \subseteq Unsent
           \/ Fault /\ Unsent' \subseteq Unsent \cup {worker[k].pos}
<1> STypeOK
  BY DEF SigningInv
<1>1. Elems(buffer) \subseteq Elems(buffer')
  <2>1. IsSeq(buffer)
    BY DEF STypeOK
  <2>2. CASE UNCHANGED buffer
    BY <2>2
  <2>3. CASE buffer' = Append(buffer, worker[k].copy)
    <3>1. Elems(Append(buffer, worker[k].copy)) = Elems(buffer) \cup {worker[k].copy}
      BY <2>1, AppendFacts
    <3> QED
      BY <2>3, <3>1
  <2> QED
    BY <2>2, <2>3, OtherShapes
<1>2. CASE Store(k)
  <2> DEFINE i == worker[k].pos
  <2>1. /\ DOMAIN ledger' = DOMAIN ledger
        /\ \A j \in DOMAIN ledger \ {i} : ledger'[j] = ledger[j]
    BY <1>2, StoreFacts
  <2>2. ASSUME NEW j \in Unsent' PROVE j \in Unsent
    <3>1. j \in DOMAIN ledger /\ j # i
      BY <1>2, <2>1, StoreLeaves DEF Unsent, Signed
    <3> QED
      BY <1>1, <1>2, <2>1, <3>1, StoreLeaves DEF Unsent
  <2> QED
    BY <2>2
<1>3. CASE ~Store(k)
  <2>1. UNCHANGED ledger
    BY <1>3, WorkerCases, LetsGoFacts, GivesBackFacts, PopFacts, WorksFacts DEF LoadFails, ledgerVars
  <2>2. \A j \in Workers \ {k} : worker'[j] = worker[j]
    <3>1. \/ UNCHANGED worker \/ \E x : worker' = [worker EXCEPT ![k] = x]
      BY <1>3 DEF WorkerMoves, WorkerStep, WorkerFault, LoadSigner, LoadFails, Pop, Read, Approve,
         Disapprove, SignOk, SignFails, Publish, Requeue, WorkerRaises, WorkerCrash, Goto, Done
    <3> QED
      BY <3>1 DEF STypeOK
  <2>3. Unsent' \subseteq Unsent \cup {worker[k].pos}
    BY <1>1, <2>1, <2>2 DEF Unsent
  <2>4. CASE worker[k].at # "publish"
    <3>1. ASSUME worker[k].pos \in Unsent PROVE FALSE
      BY <3>1 DEF Unsent
    <3>2. ASSUME worker[k].pos \in DOMAIN ledger PROVE ledger[worker[k].pos].status # Signed
      <4>1. 0 \notin DOMAIN ledger
        BY SeqFacts DEF STypeOK, TypeOK
      <4>2. worker[k].pos \in Held(k)
        BY <3>2, <4>1 DEF Held
      <4> QED
        BY <2>4, <4>2 DEF SigningInv, TicketsPending, Pending, Signed
    <3> QED
      BY <2>1, <2>3, <3>2 DEF Unsent
  <2>5. CASE worker[k].at = "publish" /\ Publish(k) /\ buffer' = Append(buffer, worker[k].copy)
    <3>1. worker[k].copy = ledger[worker[k].pos] /\ IsSeq(buffer)
      BY <2>5 DEF SigningInv, CopyCurrent, STypeOK
    <3>2. ledger[worker[k].pos] \in Elems(buffer')
      <4>1. Elems(Append(buffer, worker[k].copy)) = Elems(buffer) \cup {worker[k].copy}
        BY <3>1, AppendFacts
      <4> QED
        BY <2>5, <3>1, <4>1
    <3> QED
      BY <2>1, <2>3, <3>2 DEF Unsent
  <2>6. CASE worker[k].at = "publish" /\ Fault
    BY <2>3, <2>6
  <2>7. CASE worker[k].at = "publish" /\ ~Fault /\ ~(buffer' = Append(buffer, worker[k].copy))
    BY <2>7 DEF WorkerMoves, WorkerStep, WorkerFault, LoadSigner, LoadFails, Pop, Read, Approve,
         Disapprove, SignOk, SignFails, Store, Publish, Requeue, WorkerRaises, WorkerCrash
  <2>8. buffer' = Append(buffer, worker[k].copy) => Publish(k) \/ UNCHANGED buffer
    BY OtherShapes
  <2> QED
    BY <2>4, <2>5, <2>6, <2>7, <2>8
       DEF WorkerMoves, WorkerStep, WorkerFault, LoadSigner, LoadFails, Pop, Read, Approve,
         Disapprove, SignOk, SignFails, Store, Requeue, WorkerRaises, WorkerCrash
<1> QED
  BY <1>2, <1>3

(* Faults only grow in number.                                             *)
LEMMA WriterFaults ==
    ASSUME NEW w \in Writers, WriterMoves(w)
    PROVE  UNCHANGED faults \/ Fault
BY DEF WriterMoves, WriterStep, WriterFault, Begin, Watch, ExecAppend, ExecConflict,
       ConnectionLost, ReplyLost, Checkpoint, CheckpointRootless, CheckpointUploadFails, Anchor, Enqueue, Abandon, AnchorRaises

UnsentBound == Cardinality(Unsent) <= faults

(* The count of unsent entries, step by step.                              *)
LEMMA UnsentStep ==
    ASSUME SigningInv, VerdictsSound, BufferInv, UnsentBound, [SNext]_vars
    PROVE  BufferInv' /\ UnsentBound'
<1>1. IsFiniteSet(Unsent) /\ Cardinality(Unsent) \in Nat /\ faults \in Nat
  <2>1. Unsent \in SUBSET DOMAIN ledger /\ TypeOK
    BY DEF Unsent, SigningInv, STypeOK
  <2> QED
    BY <2>1, PositionsFinite, FS_CardinalityType DEF TypeOK
<1>2. ASSUME Unsent' \subseteq Unsent, UNCHANGED faults \/ Fault PROVE UnsentBound'
  <2>1. Cardinality(Unsent') \in Nat /\ Cardinality(Unsent') <= Cardinality(Unsent)
    BY <1>1, <1>2, NoMore
  <2> QED
    BY <1>1, <1>2, <2>1 DEF UnsentBound, Fault
<1>3. ASSUME NEW k \in Workers, WorkerMoves(k) PROVE BufferInv' /\ UnsentBound'
  <2>1. CASE Unsent' \subseteq Unsent
    BY <1>2, <1>3, <2>1, WorkerCases, BufferWorker
  <2>2. CASE Fault /\ Unsent' \subseteq Unsent \cup {worker[k].pos}
    <3>1. Cardinality(Unsent') \in Nat /\ Cardinality(Unsent') <= Cardinality(Unsent) + 1
      BY <1>1, <2>2, OneMore
    <3> QED
      BY <1>1, <1>3, <2>2, <3>1, BufferWorker DEF UnsentBound, Fault
  <2> QED
    BY <1>3, <2>1, <2>2, UnsentWorker
<1>4. ASSUME NEW w \in Writers, WriterMoves(w), UNCHANGED signerVars
      PROVE  BufferInv' /\ UnsentBound'
  <2>1. LedgerInv
    BY DEF SigningInv
  <2> QED
    BY <1>2, <1>4, <2>1, BufferWriter, WriterFaults
<1>5. CASE UNCHANGED vars
  <2>1. UNCHANGED <<ledger, unanswered, buffer, worker, faults>>
    BY <1>5 DEF vars, ledgerVars, signerVars
  <2> QED
    BY <2>1 DEF BufferInv, UnsentBound, Unsent
<1> QED
  BY <1>3, <1>4, <1>5 DEF SNext, LedgerNext, Next, WriterMoves, WorkerMoves

(* S3 sync is offered every signed entry once, as it stays in the ledger;  *)
(* as many can be missing as there were faults.                            *)
THEOREM BufferCorrect == SSpec => []BufferFaithful
<1>1. SInit => BufferInv /\ UnsentBound
  BY BufferInit, FS_EmptySet DEF SInit, Init, UnsentBound
<1>2. SigningInv /\ VerdictsSound /\ BufferInv /\ UnsentBound /\ [SNext]_vars
          => BufferInv' /\ UnsentBound'
  BY UnsentStep
<1>3. BufferInv /\ UnsentBound => BufferFaithful
  BY DEF BufferInv, UnsentBound, Unsent, BufferFaithful
<1>4. SSpec => []VerdictsSound
  BY VerdictsCorrect
<1> QED
  BY <1>1, <1>2, <1>3, <1>4, SigningSafe, PTL DEF SSpec

-----------------------------------------------------------------------------
(***************************************************************************)
(* The tickets.  A pending entry loses its ticket only in a fault, which   *)
(* ends one call, with the entry and the anchor it owes, or one worker's   *)
(* hold on a position.                                                     *)
(***************************************************************************)

(* Trying again, or giving up the append, drops no debt.                   *)
LEMMA RetryDropsNothing ==
    ASSUME TypeOK, NEW w \in Writers, pc[w] = "exec", Retry(w)
    PROVE  Debt(w) \subseteq Debt(w)'
<1>1. CallOK(w) /\ DOMAIN call = Writers /\ DOMAIN call[w] = CallFields
  BY DEF TypeOK, CallOK
<1>2. call[w].inner = 0 /\ (call[w].nested \/ call[w].slot = 0)
  BY <1>1 DEF CallOK
<1>3. CASE call[w].attempt + 1 < MaxRetries
  <2>1. Again(w).slot = call[w].slot /\ Again(w).inner = call[w].inner
    BY <1>1 DEF Again, CallFields
  <2>2. call'[w] = Again(w)
    BY <1>1, <1>3 DEF Retry
  <2> QED
    BY <2>1, <2>2 DEF Debt
<1>4. CASE ~(call[w].attempt + 1 < MaxRetries) /\ call[w].nested
  <2>1. call'[w] = AfterAnchor(w)
    BY <1>1, <1>4 DEF Retry
  <2> QED
    BY <1>1, <1>2, <2>1, AfterAnchorFacts DEF Debt
<1> QED
  BY <1>2, <1>3, <1>4 DEF Debt

(* A step of a writer that ends nothing leaves each debt a debt, or queues it. *)
LEMMA NoDebtDropped ==
    ASSUME TypeOK, NEW w \in Writers, WriterStep(w) \/ ConnectionLost(w)
    PROVE  /\ Debt(w) \subseteq Debt(w)' \cup Elems(queue')
           /\ DOMAIN ledger' \ DOMAIN ledger \subseteq Debt(w)'
           /\ Elems(queue) \subseteq Elems(queue')
<1>1. CallOK(w) /\ DOMAIN call = Writers /\ DOMAIN call[w] = CallFields
  BY DEF TypeOK, CallOK
<1>2. CASE Begin(w)
  <2>1. Debt(w) = {} /\ UNCHANGED <<ledger, queue>>
    BY <1>1, <1>2 DEF Begin, Debt, CallOK
  <2> QED
    BY <2>1
<1>3. CASE Watch(w) \/ Checkpoint(w)
  <2>1. call'[w].slot = call[w].slot /\ call'[w].inner = call[w].inner /\ UNCHANGED <<ledger, queue>>
    BY <1>1, <1>3 DEF Watch, Checkpoint, CallFields
  <2> QED
    BY <2>1 DEF Debt
<1>4. CASE ExecConflict(w) \/ ConnectionLost(w)
  <2>1. UNCHANGED <<ledger, queue>> /\ pc[w] = "exec" /\ Retry(w)
    BY <1>4 DEF ExecConflict, ConnectionLost
  <2> QED
    BY <2>1, RetryDropsNothing
<1>5. CASE Anchor(w)
  <2> DEFINE c == [call[w] EXCEPT !.nested = TRUE, !.req = issued + 1, !.attempt = 0, !.seen = NoHash]
  <2>1. c.slot = call[w].slot /\ c.inner = call[w].inner
    BY <1>1 DEF CallFields
  <2>2. call'[w] \in {c, AfterAnchor(w)} /\ UNCHANGED <<ledger, queue>>
    BY <1>1, <1>5 DEF Anchor
  <2>3. call[w].inner = 0
    BY <1>1, <1>5 DEF Anchor, CallOK
  <2>4. call'[w].slot = call[w].slot /\ call'[w].inner = 0
    BY <1>1, <2>1, <2>2, <2>3, AfterAnchorFacts
  <2> QED
    BY <2>2, <2>3, <2>4 DEF Debt
<1>6. CASE ExecAppend(w)
  <2>1. /\ call[w].inner = 0 /\ (call[w].nested <=> call[w].slot # 0)
        /\ UNCHANGED queue
    BY <1>1, <1>6 DEF ExecAppend, CallOK
  <2>2. DOMAIN ledger' \ DOMAIN ledger \subseteq {Len(ledger) + 1} /\ Len(ledger) \in Nat
    BY <1>6, NewEntryFacts DEF Appends
  <2>3. \/ /\ call[w].nested
           /\ call'[w].slot = call[w].slot /\ call'[w].inner = Len(ledger) + 1
        \/ ~call[w].nested /\ call'[w].slot = Len(ledger) + 1
    BY <1>1, <1>6 DEF ExecAppend, CallFields
  <2> QED
    BY <2>1, <2>2, <2>3 DEF Debt
<1>7. CASE Enqueue(w)
  <2>1. UNCHANGED ledger /\ IsSeq(queue)
    BY <1>7 DEF Enqueue, TypeOK
  <2>2. CASE call[w].nested
    <3>1. queue' = Append(queue, call[w].inner) /\ call'[w] = AfterAnchor(w)
      BY <1>1, <1>7, <2>2 DEF Enqueue
    <3>2. Elems(queue') = Elems(queue) \cup {call[w].inner} /\ call'[w].slot = call[w].slot
      BY <1>1, <2>1, <3>1, AppendFacts, AfterAnchorFacts
    <3> QED
      BY <2>1, <3>2 DEF Debt
  <2>3. CASE ~call[w].nested
    <3>1. queue' = Append(queue, call[w].slot) /\ call[w].inner = 0
      BY <1>1, <1>7, <2>3 DEF Enqueue, CallOK
    <3>2. Elems(queue') = Elems(queue) \cup {call[w].slot}
      BY <2>1, <3>1, AppendFacts
    <3> QED
      BY <2>1, <3>1, <3>2 DEF Debt
  <2> QED
    BY <2>2, <2>3
<1> QED
  BY <1>2, <1>3, <1>4, <1>5, <1>6, <1>7 DEF WriterStep

(* A step of a writer makes nothing forgotten but, in a fault, its debts,  *)
(* or the entry of a lost reply.                                           *)
LEMMA ForgottenWriter ==
    ASSUME SigningInv, NEW w \in Writers, WriterMoves(w), UNCHANGED signerVars
    PROVE  \/ Forgotten' \subseteq Forgotten
           \/ Fault /\ Forgotten' \subseteq (Forgotten \cup {call[w].slot}) \cup {call[w].inner}
           \/ Fault /\ Forgotten' \subseteq Forgotten \cup {Len(ledger) + 1}
<1> LedgerInv /\ TypeOK /\ SingleTicket
  BY DEF SigningInv, LedgerInv
<1>1. \A k \in Workers : Held(k)' = Held(k)
  BY Zenon DEF signerVars, Held
<1>2. \A v \in Writers \ {w} : Debt(v)' = Debt(v)
  BY OthersUntouched DEF Debt
<1>3. CASE WriterStep(w) \/ ConnectionLost(w)
  <2>1. ASSUME NEW i \in Forgotten' PROVE i \in Forgotten
    <3>1. /\ i \in DOMAIN ledger' /\ ledger'[i].status = Pending
          /\ i \notin Elems(queue') /\ \A v \in Writers : i \notin Debt(v)'
          /\ \A k \in Workers : i \notin Held(k)
      BY <1>1 DEF Forgotten, Stranded
    <3>2. i \in DOMAIN ledger /\ ledger'[i] = ledger[i]
      BY <1>3, <3>1, NoDebtDropped, WriterOnlyAdds
    <3>3. i \notin Elems(queue) /\ \A v \in Writers : i \notin Debt(v)
      BY <1>2, <1>3, <3>1, NoDebtDropped
    <3> QED
      BY <3>1, <3>2, <3>3 DEF Forgotten, Stranded
  <2> QED
    BY <2>1
<1>r. CASE ReplyLost(w)
  <2>1. Fault /\ UNCHANGED queue /\ Debt(w) \subseteq Debt(w)'
    BY <1>r, RetryDropsNothing DEF ReplyLost
  <2>2. /\ DOMAIN ledger' = DOMAIN ledger \cup {Len(ledger) + 1}
        /\ \A i \in DOMAIN ledger : ledger'[i] = ledger[i]
    <3>1. /\ DOMAIN ledger = 1 .. Len(ledger) /\ Len(ledger) \in Nat
          /\ DOMAIN ledger' = 1 .. Len(ledger) + 1
          /\ \A i \in DOMAIN ledger : ledger'[i] = ledger[i]
      BY <1>r, NewEntryFacts DEF Appends
    <3> QED
      BY <3>1
  <2>3. ASSUME NEW i \in Forgotten', i # Len(ledger) + 1 PROVE i \in Forgotten
    <3>1. /\ i \in DOMAIN ledger /\ ledger[i].status = Pending
          /\ i \notin Elems(queue) /\ \A v \in Writers : i \notin Debt(v)'
          /\ \A k \in Workers : i \notin Held(k)
      BY <1>1, <2>1, <2>2, <2>3 DEF Forgotten, Stranded
    <3>2. \A v \in Writers : i \notin Debt(v)
      BY <1>2, <2>1, <3>1
    <3> QED
      BY <3>1, <3>2 DEF Forgotten, Stranded
  <2> QED
    BY <2>1, <2>3
<1>4. CASE \/ CheckpointRootless(w) \/ CheckpointUploadFails(w)
           \/ Abandon(w) \/ AnchorRaises(w)
  <2>1. Fault /\ UNCHANGED <<ledger, queue>>
    BY <1>4 DEF CheckpointRootless, CheckpointUploadFails, Abandon, AnchorRaises
  <2>2. ASSUME NEW i \in Forgotten', i \notin Debt(w) PROVE i \in Forgotten
    <3>1. /\ i \in DOMAIN ledger /\ ledger[i].status = Pending
          /\ i \notin Elems(queue) /\ \A v \in Writers : i \notin Debt(v)'
          /\ \A k \in Workers : i \notin Held(k)
      BY <1>1, <2>1, <2>2 DEF Forgotten, Stranded
    <3>2. \A v \in Writers : i \notin Debt(v)
      BY <1>2, <2>2, <3>1
    <3> QED
      BY <3>1, <3>2 DEF Forgotten, Stranded
  <2>3. Debt(w) \subseteq {call[w].slot, call[w].inner}
    BY DEF Debt
  <2> QED
    BY <2>1, <2>2, <2>3
<1> QED
  BY <1>3, <1>r, <1>4 DEF WriterMoves, WriterFault

(* A position whose key is not approved leaves the worker only in a fault. *)
LEMMA DisapproveLost ==
    ASSUME STypeOK, NEW k, Disapprove(k), UNCHANGED queue
    PROVE  Fault
<1>1. IsSeq(queue)
  BY DEF STypeOK, TypeOK
<1>2. Len(queue') = Len(queue) /\ Len(queue) \in Nat
  BY <1>1, SeqFacts
<1>3. queue' # Append(queue, worker[k].pos)
  BY <1>1, <1>2, AppendFacts
<1> QED
  BY <1>3 DEF Disapprove

(* A step of a worker makes nothing forgotten but, in a fault, what it holds. *)
LEMMA ForgottenWorker ==
    ASSUME SigningInv, VerdictsSound, NEW k \in Workers, WorkerMoves(k)
    PROVE  \/ Forgotten' \subseteq Forgotten
           \/ Fault /\ Forgotten' \subseteq Forgotten \cup {worker[k].pos}
<1> STypeOK /\ TypeOK
  BY DEF SigningInv, STypeOK
<1>1. \A w \in Writers : Debt(w)' = Debt(w)
  BY WorkerCases DEF Debt, unchangedByWorker
<1>2. CASE LoadFails(k)
  <2>1. UNCHANGED <<ledger, queue, worker>>
    BY <1>2 DEF LoadFails, ledgerVars
  <2>2. \A j \in Workers : Held(j)' = Held(j)
    BY <2>1, Zenon DEF Held
  <2> QED
    BY <1>1, <2>1, <2>2 DEF Forgotten, Stranded
<1>3. CASE LetsGo(k)
  <2>1. UNCHANGED <<ledger, queue>> /\ \A j \in Workers \ {k} : Held(j)' = Held(j)
    <3>1. PICK place \in {"load", "idle"} : worker' = [worker EXCEPT ![k] = At(place)]
      BY <1>3, LetsGoFacts
    <3>2. \A j \in Workers \ {k} : worker'[j] = worker[j]
      BY <3>1 DEF STypeOK
    <3> QED
      BY <1>3, <3>2, LetsGoFacts DEF Held
  <2>2. Forgotten' \subseteq Forgotten \cup Held(k)
    BY <1>1, <2>1 DEF Forgotten, Stranded
  <2>3. \/ Fault \/ worker[k].pos = 0
        \/ worker[k].at = "publish" /\ UNCHANGED ledger
    BY <1>3, <2>1, DisapproveLost
       DEF LetsGo, LoadSigner, Publish, WorkerRaises, WorkerCrash, STypeOK
  <2>4. CASE worker[k].pos = 0
    BY <2>2, <2>4 DEF Held
  <2>5. CASE worker[k].at = "publish" /\ UNCHANGED ledger
    <3>1. \A i \in Held(k) : i \in DOMAIN ledger /\ ledger[i].status = Signed
      BY <2>5 DEF SigningInv, TicketsPending, STypeOK
    <3>2. \A i \in Held(k) : i \notin Forgotten'
      BY <2>1, <3>1 DEF Forgotten, Stranded, Signed, Pending
    <3> QED
      BY <2>2, <3>2
  <2>6. CASE Fault
    BY <2>2, <2>6 DEF Held
  <2> QED
    BY <2>3, <2>4, <2>5, <2>6
<1>4. CASE Pop(k)
  <2>1. /\ UNCHANGED ledger /\ \A j \in Workers \ {k} : worker'[j] = worker[j]
        /\ worker'[k].pos = Head(queue) /\ queue # <<>> /\ queue' = Tail(queue)
        /\ worker[k].pos = 0
    BY <1>4, PopFacts DEF Pop, STypeOK
  <2>2. Elems(queue) \subseteq Elems(queue') \cup {Head(queue)}
    <3>1. /\ IsSeq(queue) /\ DOMAIN queue = 1 .. Len(queue) /\ Len(queue) \in Nat
          /\ Head(queue) = queue[1] /\ DOMAIN Tail(queue) = 1 .. Len(queue) - 1
          /\ \A j \in 1 .. Len(queue) - 1 : Tail(queue)[j] = queue[j + 1]
      BY <2>1, SeqFacts, TailFacts DEF TypeOK
    <3>2. ASSUME NEW j \in DOMAIN queue, j # 1 PROVE queue[j] \in Elems(queue')
      <4>1. j - 1 \in 1 .. Len(queue) - 1 /\ (j - 1) + 1 = j
        BY <3>1, <3>2
      <4>2. Tail(queue)[j - 1] = queue[j]
        BY <3>1, <4>1
      <4> QED
        BY <2>1, <3>1, <4>1, <4>2 DEF Elems
    <3> QED
      BY <3>1, <3>2 DEF Elems
  <2>3. Head(queue) \in DOMAIN ledger /\ 0 \notin DOMAIN ledger
    <3>1. 1 \in DOMAIN queue /\ Head(queue) = queue[1]
      BY <2>1, TailFacts DEF TypeOK
    <3> QED
      BY <3>1, SeqFacts DEF TypeOK, Elems
  <2>4. Held(k)' = {Head(queue)} /\ Held(k) = {} /\ \A j \in Workers \ {k} : Held(j)' = Held(j)
    BY <2>1, <2>3 DEF Held
  <2>5. ASSUME NEW i \in Forgotten' PROVE i \in Forgotten
    <3>1. i \notin Elems(queue') /\ i # Head(queue) /\ \A j \in Workers : i \notin Held(j)
      BY <2>4 DEF Forgotten, Stranded
    <3>2. i \notin Elems(queue)
      BY <2>2, <3>1
    <3> QED
      BY <1>1, <2>1, <3>1, <3>2 DEF Forgotten, Stranded
  <2> QED
    BY <2>5
<1>5. CASE Works(k)
  <2>p. PICK p \in {"approve", "sign", "store"} : \E c :
            worker' = [worker EXCEPT ![k] = [@ EXCEPT !.at = p, !.copy = c]]
    BY <1>5, WorksFacts
  <2>1. PICK c :
            worker' = [worker EXCEPT ![k] = [@ EXCEPT !.at = p, !.copy = c]]
    BY <2>p
  <2>2. \A j \in Workers : worker'[j].pos = worker[j].pos
    BY <2>1 DEF STypeOK
  <2>3. UNCHANGED <<ledger, queue>> /\ \A j \in Workers : Held(j)' = Held(j)
    BY <1>5, <2>2, WorksFacts DEF Held, ledgerVars
  <2> QED
    BY <1>1, <2>3 DEF Forgotten, Stranded
<1>6. CASE GivesBack(k)
  <2> DEFINE i == worker[k].pos
  <2>1. UNCHANGED ledger /\ queue' = Append(queue, i) /\ IsSeq(queue)
    BY <1>6, GivesBackFacts DEF TypeOK
  <2>2. \A j \in Workers \ {k} : worker'[j] = worker[j]
    BY <1>6, GivesBackFacts DEF STypeOK
  <2>3. Elems(queue') = Elems(queue) \cup {i}
    <3> HIDE DEF i
    <3> QED
      BY <2>1, AppendFacts
  <2>4. Held(k) \subseteq {i} /\ \A j \in Workers \ {k} : Held(j)' = Held(j)
    BY <2>2 DEF Held
  <2> QED
    BY <1>1, <2>1, <2>3, <2>4 DEF Forgotten, Stranded
<1>7. CASE Store(k)
  <2> DEFINE i == worker[k].pos
  <2>1. /\ DOMAIN ledger' = DOMAIN ledger /\ UNCHANGED queue
        /\ \A j \in DOMAIN ledger \ {i} : ledger'[j] = ledger[j]
    BY <1>7, StoreFacts
  <2>2. /\ \A j \in Workers \ {k} : Held(j)' = Held(j)
        /\ Held(k) \subseteq {i} /\ 0 \notin DOMAIN ledger
        /\ Held(k)' = Held(k) \/ ledger'[i].status # Pending
    BY <1>7, StoreLeaves, SeqFacts DEF Held, TypeOK
  <2>3. ASSUME NEW j \in Forgotten' PROVE j \in Forgotten
    <3>1. CASE j # i
      BY <1>1, <2>1, <2>2, <2>3, <3>1 DEF Forgotten, Stranded
    <3>2. CASE j = i
      <4>1. j \in DOMAIN ledger /\ ledger'[j].status = Pending /\ j \notin Held(k)'
        BY <2>1, <2>3 DEF Forgotten, Stranded
      <4>2. j \in Held(k)
        BY <2>2, <3>2, <4>1 DEF Held
      <4> QED
        BY <2>2, <3>2, <4>1, <4>2
    <3> QED
      BY <3>1, <3>2
  <2> QED
    BY <2>3
<1> QED
  BY <1>2, <1>3, <1>4, <1>5, <1>6, <1>7, WorkerCases

(* The count of forgotten entries, step by step.                           *)
LEMMA ForgottenStep ==
    ASSUME SigningInv, VerdictsSound, SigningInv', ForgottenOnlyByFaults, [SNext]_vars
    PROVE  ForgottenOnlyByFaults'
<1>1. IsFiniteSet(Forgotten) /\ Cardinality(Forgotten) \in Nat /\ faults \in Nat
  <2>1. Forgotten \in SUBSET DOMAIN ledger /\ TypeOK
    BY DEF Forgotten, Stranded, SigningInv, STypeOK
  <2> QED
    BY <2>1, PositionsFinite, FS_CardinalityType DEF TypeOK
<1>2. ASSUME Forgotten' \subseteq Forgotten, UNCHANGED faults \/ Fault
      PROVE  ForgottenOnlyByFaults'
  <2>1. Cardinality(Forgotten') \in Nat /\ Cardinality(Forgotten') <= Cardinality(Forgotten)
    BY <1>1, <1>2, NoMore
  <2> QED
    BY <1>1, <1>2, <2>1 DEF ForgottenOnlyByFaults, Fault
<1>3. ASSUME NEW x, NEW y, Fault, Forgotten' \subseteq (Forgotten \cup {x}) \cup {y}
      PROVE  ForgottenOnlyByFaults'
  <2> DEFINE S == Forgotten \cup {x}
  <2>1. /\ IsFiniteSet(S) /\ Cardinality(S) \in Nat
        /\ Cardinality(S) <= Cardinality(Forgotten) + 1
    BY <1>1, OneMore
  <2>2. Cardinality(Forgotten') \in Nat /\ Cardinality(Forgotten') <= Cardinality(S) + 1
    <3> HIDE DEF S
    <3>1. Forgotten' \in SUBSET (S \cup {y})
      BY <1>3 DEF S
    <3> QED
      BY <2>1, <3>1, OneMore
  <2> QED
    BY <1>1, <1>3, <2>1, <2>2 DEF ForgottenOnlyByFaults, Fault
<1>4. ASSUME NEW k \in Workers, WorkerMoves(k) PROVE ForgottenOnlyByFaults'
  BY <1>2, <1>3, <1>4, WorkerCases, ForgottenWorker
<1>5. ASSUME NEW w \in Writers, WriterMoves(w), UNCHANGED signerVars
      PROVE  ForgottenOnlyByFaults'
  BY <1>2, <1>3, <1>5, WriterFaults, ForgottenWriter
<1>6. CASE UNCHANGED vars
  <2>1. UNCHANGED <<ledger, queue, call, worker, faults>>
    BY <1>6 DEF vars, ledgerVars, signerVars
  <2>2. UNCHANGED Forgotten
    BY <2>1, Zenon DEF Forgotten, Stranded, Held, Debt
  <2> QED
    BY <2>1, <2>2 DEF ForgottenOnlyByFaults
<1> QED
  BY <1>4, <1>5, <1>6 DEF SNext, LedgerNext, Next, WriterMoves, WorkerMoves

(* Nothing but a fault makes the signer forget an entry for good, and one  *)
(* fault costs at most two.                                                *)
THEOREM OnlyFaultsForget == SSpec => []ForgottenOnlyByFaults
<1>1. SInit => ForgottenOnlyByFaults
  <2> SUFFICES ASSUME SInit PROVE ForgottenOnlyByFaults
    OBVIOUS
  <2>1. Forgotten = {} /\ faults = 0
    BY EmptyFacts DEF SInit, Init, Forgotten, Stranded
  <2> QED
    BY <2>1, FS_EmptySet DEF ForgottenOnlyByFaults
<1>2. SigningInv /\ VerdictsSound /\ SigningInv' /\ ForgottenOnlyByFaults /\ [SNext]_vars
          => ForgottenOnlyByFaults'
  BY ForgottenStep
<1>3. SSpec => []VerdictsSound
  BY VerdictsCorrect
<1> QED
  BY <1>1, <1>2, <1>3, SigningSafe, PTL DEF SSpec

-----------------------------------------------------------------------------
(***************************************************************************)
(* The backlog.  A call that was let in has one entry to queue, and one    *)
(* more while an anchor may follow or its recursive call runs.             *)
(***************************************************************************)
AnchorsWanted == Interval > 0 /\ MerkleEnabled /\ AnchorsEnabled

Owing   == {w \in Writers : pc[w] # "idle"}
MayNest == {w \in Writers : /\ AnchorsWanted /\ pc[w] # "idle"
                            /\ call[w].nested \/ pc[w] # "enqueue"}
Busy    == {k \in Workers : worker[k].pos # 0}

(* Only a call that is due for a checkpoint makes one, or an anchor.       *)
AnchorsAsConfigured ==
    \A w \in Writers : /\ pc[w] = "checkpoint" => Interval > 0
                       /\ pc[w] = "anchor" \/ call[w].nested => AnchorsWanted

Limit == MaxQueue + Admitted * Cardinality(Writers) + Cardinality(Workers)
Load == Len(queue) + Cardinality(Owing) + Cardinality(MayNest) + Cardinality(Busy)

(* What is queued and what may still be queued, together.                  *)
BacklogInv == AnchorsAsConfigured /\ Load < Limit

(* The numbers in it, for whatever sets of writers and workers.            *)
LEMMA BacklogNumbers ==
    ASSUME NEW O \in SUBSET Writers, NEW M \in SUBSET Writers, NEW B \in SUBSET Workers,
           AnchorsWanted \/ M = {}
    PROVE  /\ IsFiniteSet(O) /\ IsFiniteSet(M) /\ IsFiniteSet(B)
           /\ Cardinality(O) \in Nat /\ Cardinality(M) \in Nat /\ Cardinality(B) \in Nat
           /\ Limit \in Nat /\ MaxQueue \in Nat
           /\ \A n \in Nat : n < MaxQueue => n + Cardinality(O) + Cardinality(M) + Cardinality(B) < Limit
           /\ Writers # {} => 0 < Limit
<1>1. IsFiniteSet(Writers) /\ IsFiniteSet(Workers) /\ MaxQueue \in Nat
  BY LedgerAssumption, SigningAssumption DEF LedgerAssumption, SigningAssumption
<1>2. Cardinality(Writers) \in Nat /\ Cardinality(Workers) \in Nat
      /\ (Writers # {} => Cardinality(Writers) # 0)
  BY <1>1, FS_CardinalityType, FS_EmptySet
<1>3. /\ IsFiniteSet(O) /\ IsFiniteSet(M) /\ IsFiniteSet(B)
      /\ Cardinality(O) \in Nat /\ Cardinality(O) <= Cardinality(Writers)
      /\ Cardinality(M) \in Nat /\ Cardinality(M) <= Cardinality(Writers)
      /\ Cardinality(B) \in Nat /\ Cardinality(B) <= Cardinality(Workers)
  BY <1>1, NoMore
<1>4. CASE AnchorsWanted
  <2>1. Limit = MaxQueue + 2 * Cardinality(Writers) + Cardinality(Workers)
    BY <1>4 DEF Limit, Admitted, AnchorsWanted
  <2> QED
    BY <1>1, <1>2, <1>3, <2>1
<1>5. CASE ~AnchorsWanted
  <2>1. Limit = MaxQueue + Cardinality(Writers) + Cardinality(Workers)
    BY <1>1, <1>2, <1>5 DEF Limit, Admitted, AnchorsWanted
  <2>2. Cardinality(M) = 0
    BY <1>5, FS_EmptySet
  <2> QED
    BY <1>1, <1>2, <1>3, <2>1, <2>2
<1> QED
  BY <1>4, <1>5

(* The sets it counts.                                                     *)
LEMMA BacklogSets ==
    /\ Owing \in SUBSET Writers /\ MayNest \in SUBSET Writers /\ Busy \in SUBSET Workers
    /\ Owing' \in SUBSET Writers /\ MayNest' \in SUBSET Writers /\ Busy' \in SUBSET Workers
    /\ AnchorsWanted \/ MayNest = {}
    /\ AnchorsWanted \/ MayNest' = {}
BY DEF Owing, MayNest, Busy, AnchorsWanted

(* A writer's step makes anchors only as configured.                       *)
LEMMA WriterConfigured ==
    ASSUME TypeOK, AnchorsAsConfigured, NEW w \in Writers, WriterMoves(w)
    PROVE  AnchorsAsConfigured'
<1>1. DOMAIN pc = Writers /\ DOMAIN call = Writers /\ DOMAIN call[w] = CallFields /\ DOMAIN IdleCall = CallFields
  BY IdleFacts DEF TypeOK, CallOK
<1>2. ASSUME NEW v \in Writers \ {w} PROVE UNCHANGED <<pc[v], call[v]>>
  BY OthersUntouched
<1>3. /\ pc'[w] = "checkpoint" => Interval > 0
      /\ pc'[w] = "anchor" \/ call'[w].nested => AnchorsWanted
  <2>1. CASE \/ Begin(w) \/ Watch(w) \/ CheckpointRootless(w) \/ CheckpointUploadFails(w)
             \/ Abandon(w) \/ AnchorRaises(w)
    BY <1>1, <2>1, IdleFacts
       DEF Begin, Watch, CheckpointRootless, CheckpointUploadFails, Abandon, AnchorRaises, AfterAnchor,
           CallFields, AnchorsAsConfigured
  <2>2. CASE ExecConflict(w) \/ ConnectionLost(w) \/ ReplyLost(w)
    BY <1>1, <2>2, IdleFacts DEF ExecConflict, ConnectionLost, ReplyLost, Retry, Again, AfterAnchor, CallFields, AnchorsAsConfigured
  <2>3. CASE Enqueue(w)
    BY <1>1, <2>3, IdleFacts DEF Enqueue, AfterAnchor, CallFields, AnchorsAsConfigured
  <2>4. CASE ExecAppend(w)
    BY <1>1, <2>4 DEF ExecAppend, AfterAppend, CheckpointDue, CallFields, AnchorsAsConfigured
  <2>5. CASE Checkpoint(w)
    BY <1>1, <2>5 DEF Checkpoint, CallFields, AnchorsAsConfigured, AnchorsWanted
  <2>6. CASE Anchor(w)
    BY <1>1, <2>6 DEF Anchor, AfterAnchor, CallFields, AnchorsAsConfigured
  <2> QED
    BY <2>1, <2>2, <2>3, <2>4, <2>5, <2>6 DEF WriterMoves, WriterStep, WriterFault
<1> QED
  BY <1>2, <1>3 DEF AnchorsAsConfigured

(* A step of a writer is the start of a call below the limit, or queues    *)
(* one of the entries it owes, or queues nothing.                          *)
LEMMA WriterQueues ==
    ASSUME TypeOK, AnchorsAsConfigured, NEW w \in Writers, WriterMoves(w)
    PROVE  \/ Len(queue) < MaxQueue /\ UNCHANGED queue
           \/ UNCHANGED queue /\ Owing' \subseteq Owing /\ MayNest' \subseteq MayNest
           \/ /\ \E i : queue' = Append(queue, i)
              /\ \/ Owing' \subseteq Owing /\ MayNest' \subseteq MayNest \ {w} /\ w \in MayNest
                 \/ Owing' \subseteq Owing \ {w} /\ MayNest' \subseteq MayNest /\ w \in Owing
<1>1. DOMAIN pc = Writers /\ DOMAIN call = Writers /\ DOMAIN call[w] = CallFields /\ DOMAIN IdleCall = CallFields
  BY IdleFacts DEF TypeOK, CallOK
<1>2. \A v \in Writers \ {w} : UNCHANGED <<pc[v], call[v]>>
  BY OthersUntouched
<1>3. (Owing' \ {w}) \subseteq Owing \ {w} /\ (MayNest' \ {w}) \subseteq MayNest \ {w}
  BY <1>2 DEF Owing, MayNest
<1>4. CASE Begin(w)
  <2>1. Len(queue) \in Nat /\ MaxQueue \in Nat
    BY SeqFacts, LedgerAssumption DEF TypeOK, LedgerAssumption
  <2> QED
    BY <1>4, <2>1 DEF Begin, Critical
<1>5. CASE Enqueue(w) /\ call[w].nested
  <2>1. w \in MayNest /\ w \in Owing
    BY <1>5 DEF MayNest, Owing, Enqueue, AnchorsAsConfigured
  <2>2. w \notin MayNest'
    BY <1>1, <1>5 DEF Enqueue, AfterAnchor, CallFields, MayNest
  <2> QED
    BY <1>3, <1>5, <2>1, <2>2 DEF Enqueue
<1>6. CASE Enqueue(w) /\ ~call[w].nested
  <2>1. w \in Owing /\ w \notin Owing' /\ w \notin MayNest'
    BY <1>1, <1>6 DEF Owing, MayNest, Enqueue
  <2> QED
    BY <1>3, <1>6, <2>1 DEF Enqueue
<1>7. CASE ~Begin(w) /\ ~Enqueue(w)
  <2>1. UNCHANGED queue
    BY <1>7 DEF WriterMoves, WriterStep, WriterFault, Watch, ExecAppend, ExecConflict, ConnectionLost,
                ReplyLost, Retry, Checkpoint, Anchor, CheckpointRootless, CheckpointUploadFails, Abandon, AnchorRaises
  <2>2. pc[w] # "idle"
    BY <1>7 DEF WriterMoves, WriterStep, WriterFault, Watch, ExecAppend, ExecConflict, ConnectionLost,
                ReplyLost, Retry, Checkpoint, Anchor, CheckpointRootless, CheckpointUploadFails, Abandon, AnchorRaises, TypeOK, CallOK
  <2>3. w \in MayNest' => w \in MayNest
    <3> SUFFICES ASSUME w \in MayNest' PROVE call[w].nested \/ pc[w] # "enqueue"
      BY <2>2 DEF MayNest
    <3> QED
      BY <1>1, <1>7 DEF WriterMoves, WriterStep, WriterFault, Watch, ExecAppend, ExecConflict,
                        ConnectionLost, ReplyLost, Retry, Again, Checkpoint, Anchor, CheckpointRootless, CheckpointUploadFails, Abandon, AnchorRaises, MayNest
  <2> QED
    BY <1>3, <2>1, <2>2, <2>3 DEF Owing
<1> QED
  BY <1>4, <1>5, <1>6, <1>7

(* A step of a worker moves a position between its hand and the queue, or  *)
(* drops it.                                                               *)
LEMMA WorkerQueues ==
    ASSUME SigningInv, VerdictsSound, NEW k \in Workers, WorkerMoves(k)
    PROVE  \/ UNCHANGED queue /\ Busy' \subseteq Busy
           \/ Len(queue') = Len(queue) - 1 /\ Busy' \subseteq Busy \cup {k}
           \/ (\E i : queue' = Append(queue, i)) /\ Busy' \subseteq Busy \ {k} /\ k \in Busy
<1> STypeOK
  BY DEF SigningInv
<1>1. DOMAIN worker = Workers
  BY DEF STypeOK
<1>2. CASE LoadFails(k)
  BY <1>2 DEF LoadFails, ledgerVars, Busy
<1>3. CASE LetsGo(k)
  BY <1>1, <1>3, LetsGoFacts, AtFacts DEF Busy
<1>4. CASE Pop(k)
  <2>1. Len(queue') = Len(queue) - 1
    BY <1>4, PopFacts, TailFacts DEF STypeOK, TypeOK
  <2>2. Busy' \subseteq Busy \cup {k}
    BY <1>4, PopFacts DEF Busy
  <2> QED
    BY <2>1, <2>2
<1>5. CASE Works(k)
  <2>1. PICK p, c : worker' = [worker EXCEPT ![k] = [@ EXCEPT !.at = p, !.copy = c]]
    BY <1>5, WorksFacts
  <2>2. worker'[k].pos = worker[k].pos /\ \A j \in Workers \ {k} : worker'[j] = worker[j]
    BY <1>1, <2>1, WorkerField
  <2> QED
    BY <1>5, <2>2, WorksFacts DEF ledgerVars, Busy
<1>6. CASE GivesBack(k)
  <2>1. k \in Busy
    BY <1>6, GivesBackFacts DEF STypeOK, Busy
  <2>2. Busy' \subseteq Busy \ {k}
    BY <1>1, <1>6, GivesBackFacts, AtFacts DEF Busy
  <2> QED
    BY <1>6, <2>1, <2>2, GivesBackFacts
<1>7. CASE Store(k)
  <2>1. worker'[k].pos \in {0, worker[k].pos} /\ \A j \in Workers \ {k} : worker'[j] = worker[j]
    BY <1>1, <1>7, AtFacts, WorkerField DEF Store, Done, Goto, STypeOK
  <2> QED
    BY <1>7, <2>1 DEF Store, Busy
<1> QED
  BY <1>2, <1>3, <1>4, <1>5, <1>6, <1>7, WorkerCases

(* Only the start of a call adds to the load, and it is below the limit.   *)
LEMMA BacklogStep ==
    ASSUME SigningInv, VerdictsSound, SigningInv', BacklogInv, [SNext]_vars
    PROVE  BacklogInv'
<1>1. IsSeq(queue) /\ Len(queue) \in Nat /\ IsSeq(queue') /\ Len(queue') \in Nat
  BY SeqFacts DEF SigningInv, STypeOK, TypeOK
<1>2. PICK o \in Nat, m \in Nat, b \in Nat, O \in Nat, M \in Nat, B \in Nat :
          /\ o = Cardinality(Owing) /\ m = Cardinality(MayNest) /\ b = Cardinality(Busy)
          /\ O = Cardinality(Owing') /\ M = Cardinality(MayNest') /\ B = Cardinality(Busy')
  BY BacklogSets, BacklogNumbers
<1>3. /\ IsFiniteSet(Owing) /\ IsFiniteSet(MayNest) /\ IsFiniteSet(Busy)
      /\ Limit \in Nat /\ MaxQueue \in Nat
      /\ Len(queue') < MaxQueue => Len(queue') + O + M + B < Limit
  BY <1>1, <1>2, BacklogSets, BacklogNumbers
<1>4. Len(queue) + o + m + b < Limit
  BY <1>2 DEF BacklogInv, Load
<1>5. SUFFICES AnchorsAsConfigured' /\ Len(queue') + O + M + B < Limit
  BY <1>2 DEF BacklogInv, Load, Limit, Admitted
<1>6. ASSUME NEW w \in Writers, WriterMoves(w), UNCHANGED signerVars
      PROVE  AnchorsAsConfigured' /\ Len(queue') + O + M + B < Limit
  <2>1. TypeOK /\ AnchorsAsConfigured
    BY DEF SigningInv, STypeOK, BacklogInv
  <2>2. AnchorsAsConfigured' /\ Busy' = Busy
    BY <1>6, <2>1, WriterConfigured DEF Busy, signerVars
  <2>3. B = b
    BY <1>2, <2>2
  <2>4. CASE Len(queue) < MaxQueue /\ UNCHANGED queue
    BY <1>3, <2>2, <2>4
  <2>5. CASE UNCHANGED queue /\ Owing' \subseteq Owing /\ MayNest' \subseteq MayNest
    <3>1. O <= o /\ M <= m
      BY <1>2, <1>3, <2>5, NoMore
    <3> QED
      BY <1>1, <1>3, <1>4, <2>2, <2>3, <2>5, <3>1
  <2>6. CASE /\ \E i : queue' = Append(queue, i)
             /\ \/ Owing' \subseteq Owing /\ MayNest' \subseteq MayNest \ {w} /\ w \in MayNest
                \/ Owing' \subseteq Owing \ {w} /\ MayNest' \subseteq MayNest /\ w \in Owing
    <3>1. Len(queue') = Len(queue) + 1
      BY <1>1, <2>6, AppendFacts
    <3>2. (O <= o /\ M + 1 <= m) \/ (O + 1 <= o /\ M <= m)
      BY <1>2, <1>3, <2>6, NoMore
    <3> QED
      BY <1>1, <1>3, <1>4, <2>2, <2>3, <3>1, <3>2
  <2> QED
    BY <1>6, <2>1, <2>4, <2>5, <2>6, WriterQueues
<1>7. ASSUME NEW k \in Workers, WorkerMoves(k)
      PROVE  AnchorsAsConfigured' /\ Len(queue') + O + M + B < Limit
  <2>1. UNCHANGED <<pc, call>>
    BY <1>7, WorkerCases DEF unchangedByWorker
  <2>2. AnchorsAsConfigured' /\ Owing' = Owing /\ MayNest' = MayNest
    BY <2>1 DEF BacklogInv, AnchorsAsConfigured, Owing, MayNest
  <2>3. O = o /\ M = m
    BY <1>2, <2>2
  <2>4. Len(queue') + B <= Len(queue) + b
    <3>1. CASE UNCHANGED queue /\ Busy' \subseteq Busy
      <4>1. B <= b
        BY <1>2, <1>3, <3>1, NoMore
      <4> QED
        BY <1>1, <3>1, <4>1
    <3>2. CASE Len(queue') = Len(queue) - 1 /\ Busy' \subseteq Busy \cup {k}
      <4>1. B <= b + 1
        BY <1>2, <1>3, <3>2, OneMore
      <4> QED
        BY <1>1, <3>2, <4>1
    <3>3. CASE (\E i : queue' = Append(queue, i)) /\ Busy' \subseteq Busy \ {k} /\ k \in Busy
      <4>1. Len(queue') = Len(queue) + 1
        BY <1>1, <3>3, AppendFacts
      <4>2. B + 1 <= b
        BY <1>2, <1>3, <3>3, NoMore
      <4> QED
        BY <1>1, <4>1, <4>2
    <3> QED
      BY <1>7, <3>1, <3>2, <3>3, WorkerQueues
  <2> QED
    BY <1>1, <1>3, <1>4, <2>2, <2>3, <2>4
<1>8. CASE UNCHANGED vars
  <2>1. UNCHANGED <<pc, call, queue, worker>>
    BY <1>8 DEF vars, ledgerVars, signerVars
  <2>2. AnchorsAsConfigured' /\ Owing' = Owing /\ MayNest' = MayNest /\ Busy' = Busy
    BY <2>1 DEF BacklogInv, AnchorsAsConfigured, Owing, MayNest, Busy
  <2> QED
    BY <1>2, <1>4, <2>1, <2>2
<1> QED
  BY <1>6, <1>7, <1>8 DEF SNext, LedgerNext, Next, WriterMoves, WorkerMoves

(* signing_runtime.py and ledger_write.py: although the backlog is read    *)
(* awaits before the entry is queued, and workers requeue without reading  *)
(* it, the queue passes its limit by no more than the calls that were let  *)
(* in at once may append and the workers hold.                             *)
THEOREM QueueBounded == Writers # {} => (SSpec => []BacklogBound)
<1> SUFFICES ASSUME Writers # {} PROVE SSpec => []BacklogBound
  OBVIOUS
<1>1. SInit /\ SigningInv => BacklogInv
  <2> SUFFICES ASSUME SInit, SigningInv PROVE BacklogInv
    OBVIOUS
  <2>1. AnchorsAsConfigured
    BY IdleFacts DEF SInit, Init, AnchorsAsConfigured
  <2>2. Owing = {} /\ MayNest = {} /\ Busy = {}
    BY AtFacts DEF SInit, Init, SignerInit, Owing, MayNest, Busy
  <2>3. Len(queue) = 0
    BY EmptyFacts DEF SInit, Init
  <2>4. Load = 0
    BY <2>2, <2>3, FS_EmptySet DEF Load
  <2>5. 0 < Limit
    BY BacklogSets, BacklogNumbers
  <2> QED
    BY <2>1, <2>4, <2>5 DEF BacklogInv
<1>2. SigningInv /\ VerdictsSound /\ SigningInv' /\ BacklogInv /\ [SNext]_vars => BacklogInv'
  BY BacklogStep
<1>3. SigningInv /\ BacklogInv => BacklogBound
  <2> SUFFICES ASSUME SigningInv, BacklogInv PROVE BacklogBound
    OBVIOUS
  <2>1. PICK o \in Nat, m \in Nat, b \in Nat :
            o = Cardinality(Owing) /\ m = Cardinality(MayNest) /\ b = Cardinality(Busy)
    BY BacklogSets, BacklogNumbers
  <2>2. Len(queue) + o + m + b < Limit /\ Limit \in Nat /\ Len(queue) \in Nat
    BY <2>1, BacklogSets, BacklogNumbers, SeqFacts DEF BacklogInv, Load, SigningInv, STypeOK, TypeOK
  <2>3. Len(queue) < Limit
    BY <2>2
  <2> QED
    BY <2>3 DEF Limit, BacklogBound
<1> QED
  BY <1>1, <1>2, <1>3, SigningSafe, VerdictsCorrect, PTL DEF SSpec
=============================================================================
