------------------------ MODULE SigningPipelineProofs ------------------------
(***************************************************************************)
(* Theorems about the ledger with its signing workers, for any number of   *)
(* writers and workers and any values of the constants.                    *)
(***************************************************************************)
EXTENDS SigningPipeline, AuditLedgerProofs

WorkerMoves(k) == WorkerStep(k) \/ WorkerFault(k)

(* The five things a step of a worker can be. *)
LetsGo(k)    == \/ LoadSigner(k) \/ Publish(k) \/ WorkerRaises(k) \/ WorkerCrash(k)
                \/ Disapprove(k) /\ UNCHANGED queue
GivesBack(k) == (Disapprove(k) \/ Requeue(k)) /\ queue' = Append(queue, worker[k].pos)
Works(k)     == Read(k) \/ Approve(k) \/ SignOk(k) \/ SignFails(k)

WorkerFields == {"at", "pos", "copy"}

(* A worker without a position.                                            *)
LEMMA AtFacts ==
    ASSUME NEW place
    PROVE  At(place).at = place /\ At(place).pos = 0 /\ DOMAIN At(place) = WorkerFields
BY DEF At, WorkerFields

(* The cases of a step; none of them touches what only writers touch.      *)
LEMMA WorkerCases ==
    ASSUME NEW k, WorkerMoves(k)
    PROVE  /\ LoadFails(k) \/ LetsGo(k) \/ Pop(k) \/ Works(k) \/ GivesBack(k) \/ Store(k)
           /\ UNCHANGED unchangedByWorker
           /\ UNCHANGED faults \/ Fault
BY DEF WorkerMoves, WorkerStep, WorkerFault, LetsGo, GivesBack, Works, LoadSigner, LoadFails, Pop,
       Read, Approve, Disapprove, SignOk, SignFails, Store, Publish, Requeue, WorkerRaises,
       WorkerCrash, unchangedByWorker, ledgerVars

(* A worker that lets go of its position, for good.                        *)
LEMMA LetsGoFacts ==
    ASSUME STypeOK, NEW k \in Workers, LetsGo(k)
    PROVE  /\ UNCHANGED <<ledger, watchOk, queue>>
           /\ \E place \in {"load", "idle"} : worker' = [worker EXCEPT ![k] = At(place)]
BY DEF LetsGo, LoadSigner, Publish, Disapprove, WorkerRaises, WorkerCrash, Done, ledgerVars

(* A worker that puts its position back into the queue.                    *)
LEMMA GivesBackFacts ==
    ASSUME STypeOK, NEW k \in Workers, GivesBack(k)
    PROVE  /\ UNCHANGED <<ledger, watchOk>>
           /\ worker[k].at \in {"approve", "requeue"}
           /\ queue' = Append(queue, worker[k].pos)
           /\ worker' = [worker EXCEPT ![k] = At("idle")]
BY DEF GivesBack, Disapprove, Requeue, Done

(* A worker that takes a position off the queue.                           *)
LEMMA PopFacts ==
    ASSUME STypeOK, NEW k \in Workers, Pop(k)
    PROVE  /\ UNCHANGED <<ledger, watchOk, buffer>>
           /\ queue # <<>> /\ queue' = Tail(queue)
           /\ DOMAIN worker' = Workers /\ DOMAIN worker'[k] = WorkerFields
           /\ worker'[k].at = "read" /\ worker'[k].pos = Head(queue)
           /\ \A j \in Workers \ {k} : worker'[j] = worker[j]
BY DEF Pop, QueueAfterPop, STypeOK, At, WorkerFields

(* Changing a field of a worker changes no other.                          *)
LEMMA WorkerField ==
    ASSUME STypeOK, NEW k \in Workers, NEW p, NEW c
    PROVE  LET w == [worker[k] EXCEPT !.at = p]
               v == [worker[k] EXCEPT !.at = p, !.copy = c]
           IN  /\ w.at = p /\ w.pos = worker[k].pos /\ w.copy = worker[k].copy /\ DOMAIN w = WorkerFields
               /\ v.at = p /\ v.pos = worker[k].pos /\ v.copy = c /\ DOMAIN v = WorkerFields
BY DEF STypeOK, WorkerFields

(* What the worker has in hand is an entry of the ledger.                  *)
LEMMA HeldFacts ==
    ASSUME SigningInv, NEW k \in Workers, worker[k].at \notin {"load", "idle"}
    PROVE  /\ worker[k].pos \in DOMAIN ledger /\ worker[k].pos \in Nat \ {0}
           /\ Held(k) = {worker[k].pos}
           /\ EntryOK(ledger[worker[k].pos])
<1>1. worker[k].pos # 0 /\ Held(k) \subseteq DOMAIN ledger /\ TypeOK
  BY DEF SigningInv, STypeOK
<1>2. DOMAIN ledger = 1 .. Len(ledger) /\ Len(ledger) \in Nat
  BY <1>1, SeqFacts DEF TypeOK
<1> QED
  BY <1>1, <1>2 DEF Held, TypeOK

(* An entry a worker reads is pending, has attempts left and matches its   *)
(* hash, so it is signed.                                                  *)
LEMMA ReadVerdict ==
    ASSUME SigningInv, VerdictsSound, NEW k \in Workers, worker[k].at = "read"
    PROVE  Verdict(ledger[worker[k].pos]) = "sign"
<1> DEFINE e == ledger[worker[k].pos]
<1>1. worker[k].pos \in DOMAIN ledger /\ Held(k) = {worker[k].pos} /\ EntryOK(e)
  BY HeldFacts
<1>2. e.status = Pending
  BY <1>1 DEF SigningInv, TicketsPending
<1>3. e.attempts < MaxAttempts
  <2>1. e.attempts <= MaxAttempts /\ (e.status = Failed <=> e.attempts = MaxAttempts)
    BY <1>1 DEF VerdictsSound
  <2>2. e.attempts \in Nat /\ MaxAttempts \in Nat /\ e.status # Failed
    BY <1>1, <1>2, SigningAssumption DEF EntryOK, Pending, Failed
  <2> QED
    BY <2>1, <2>2
<1>4. e.hash = Hash(Id(e), e.prev)
  BY <1>1 DEF SigningInv, LedgerInv, ChainIntact, LinkOK
<1>5. e.status # Signed
  BY <1>2 DEF Pending, Signed
<1>6. ~(e.attempts >= MaxAttempts)
  <2>1. e.attempts \in Nat /\ MaxAttempts \in Nat
    BY <1>1, SigningAssumption DEF EntryOK
  <2> HIDE DEF e
  <2> QED
    BY <1>3, <2>1
<1> QED
  BY <1>4, <1>5, <1>6, Zenon DEF Verdict

(* A worker between BLPOP and LSET changes only what it remembers.         *)
LEMMA WorksFacts ==
    ASSUME SigningInv, VerdictsSound, NEW k \in Workers, Works(k)
    PROVE  /\ UNCHANGED ledgerVars /\ UNCHANGED buffer
           /\ worker[k].at \notin {"load", "idle", "publish"}
           /\ \E p \in {"approve", "sign", "store"} : \E c :
                worker' = [worker EXCEPT ![k] = [@ EXCEPT !.at = p, !.copy = c]]
<1>1. CASE Read(k)
  BY <1>1, ReadVerdict DEF Read
<1>2. CASE Approve(k)
  <2>1. worker' = [worker EXCEPT ![k] = [@ EXCEPT !.at = "sign"]]
    BY <1>2 DEF Approve, Goto
  <2>2. [worker[k] EXCEPT !.at = "sign"] = [worker[k] EXCEPT !.at = "sign", !.copy = worker[k].copy]
    BY DEF SigningInv, STypeOK
  <2> QED
    BY <1>2, <2>1, <2>2 DEF Approve
<1>3. CASE SignOk(k)
  BY <1>3 DEF SignOk
<1>4. CASE SignFails(k)
  BY <1>4 DEF SignFails
<1> QED
  BY <1>1, <1>2, <1>3, <1>4 DEF Works

(* What LSET writes: the entry it read, signed, or with one attempt more.  *)
LEMMA StoreFacts ==
    ASSUME SigningInv, VerdictsSound, NEW k \in Workers, Store(k)
    PROVE  LET i == worker[k].pos
               e == ledger[i]
           IN  /\ UNCHANGED <<queue, faults, health, buffer>> /\ BreakWatches
               /\ i \in DOMAIN ledger
               /\ IsSeq(ledger') /\ Len(ledger') = Len(ledger) /\ DOMAIN ledger' = DOMAIN ledger
               /\ \A j \in DOMAIN ledger \ {i} : ledger'[j] = ledger[j]
               /\ e.status = Pending /\ e.attempts < MaxAttempts /\ e.attempts \in Nat
               /\ DOMAIN ledger'[i] = EntryFields
               /\ ledger'[i].req = e.req /\ ledger'[i].try = e.try /\ ledger'[i].prev = e.prev
               /\ ledger'[i].hash = e.hash /\ ledger'[i].window = e.window
               /\ \/ /\ ledger'[i].status = Signed /\ ledger'[i].attempts = e.attempts
                     /\ ledger'[i].sig = e.hash
                  \/ /\ ledger'[i].status = IF e.attempts + 1 = MaxAttempts THEN Failed ELSE Pending
                     /\ ledger'[i].attempts = e.attempts + 1
                     /\ ledger'[i].sig = e.sig
<1> DEFINE i == worker[k].pos
           e == ledger[i]
           copy == worker[k].copy
<1>1. worker[k].at = "store" /\ ledger' = [ledger EXCEPT ![i] = copy]
  BY DEF Store, Target
<1>2. i \in DOMAIN ledger /\ Held(k) = {i} /\ EntryOK(e)
  BY <1>1, HeldFacts
<1>3. IsSeq(ledger)
  BY DEF SigningInv, STypeOK, TypeOK
<1>4. /\ IsSeq(ledger') /\ Len(ledger') = Len(ledger) /\ DOMAIN ledger' = DOMAIN ledger
      /\ ledger'[i] = copy /\ \A j \in DOMAIN ledger \ {i} : ledger'[j] = ledger[j]
  <2>1. /\ DOMAIN ledger' = DOMAIN ledger
        /\ ledger'[i] = copy /\ \A j \in DOMAIN ledger \ {i} : ledger'[j] = ledger[j]
    BY <1>1, <1>2
  <2>2. ledger' = [j \in DOMAIN ledger |-> ledger'[j]]
    BY <1>1
  <2> QED
    BY <1>3, <2>1, <2>2, SetFacts
<1>5. e.status = Pending /\ e.attempts \in Nat
  BY <1>1, <1>2 DEF SigningInv, TicketsPending, EntryOK
<1>6. e.attempts < MaxAttempts
  <2>1. e.attempts <= MaxAttempts /\ e.attempts # MaxAttempts
    BY <1>2, <1>5 DEF VerdictsSound, Pending, Failed
  <2> QED
    BY <1>5, <2>1, SigningAssumption
<1>7. \/ copy = [e EXCEPT !.status = Signed, !.sig = e.hash]
      \/ copy = [e EXCEPT !.attempts = e.attempts + 1,
                          !.status = IF e.attempts + 1 = MaxAttempts THEN Failed ELSE Pending]
  BY <1>1 DEF SigningInv, CopyCurrent
<1>8. DOMAIN e = EntryFields
  BY <1>2 DEF EntryOK
<1>9. /\ DOMAIN copy = EntryFields
      /\ copy.req = e.req /\ copy.try = e.try /\ copy.prev = e.prev /\ copy.hash = e.hash /\ copy.window = e.window
  BY <1>7, <1>8 DEF EntryFields
<1>10. \/ copy.status = Signed /\ copy.attempts = e.attempts /\ copy.sig = e.hash
       \/ /\ copy.status = IF e.attempts + 1 = MaxAttempts THEN Failed ELSE Pending
          /\ copy.attempts = e.attempts + 1
          /\ copy.sig = e.sig
  BY <1>7, <1>8 DEF EntryFields
<1> QED
  BY <1>2, <1>4, <1>5, <1>6, <1>9, <1>10 DEF Store

(* Where LSET leaves the worker.                                           *)
LEMMA StoreLeaves ==
    ASSUME SigningInv, VerdictsSound, NEW k \in Workers, Store(k)
    PROVE  /\ DOMAIN worker' = Workers /\ DOMAIN worker'[k] = WorkerFields
           /\ \A j \in Workers \ {k} : worker'[j] = worker[j]
           /\ \/ /\ worker'[k].at = "idle" /\ worker'[k].pos = 0
                 /\ ledger'[worker[k].pos].status \notin {Signed, Pending}
              \/ /\ worker'[k].pos = worker[k].pos
                 /\ worker'[k].copy = ledger'[worker[k].pos]
                 /\ \/ worker'[k].at = "publish" /\ worker'[k].copy.status = Signed
                    \/ worker'[k].at = "requeue" /\ worker'[k].copy.status = Pending
<1> DEFINE copy == worker[k].copy
<1>1. DOMAIN worker = Workers /\ DOMAIN worker[k] = WorkerFields
  BY DEF SigningInv, STypeOK, WorkerFields
<1>2. ledger'[worker[k].pos] = copy
  BY StoreFacts DEF Store, Target
<1>3. \/ worker' = [worker EXCEPT ![k] = At("idle")] /\ copy.status \notin {Signed, Pending}
      \/ /\ worker' = [worker EXCEPT ![k] = [@ EXCEPT !.at = "publish"]]
         /\ copy.status = Signed
      \/ /\ worker' = [worker EXCEPT ![k] = [@ EXCEPT !.at = "requeue"]]
         /\ copy.status = Pending
  BY DEF Store, AfterStore, Done, Goto, Signed, Pending
<1>4. ASSUME NEW p, worker' = [worker EXCEPT ![k] = [@ EXCEPT !.at = p]]
      PROVE  /\ DOMAIN worker' = Workers /\ DOMAIN worker'[k] = WorkerFields
             /\ worker'[k].at = p /\ worker'[k].pos = worker[k].pos /\ worker'[k].copy = copy
             /\ \A j \in Workers \ {k} : worker'[j] = worker[j]
  BY <1>1, <1>4 DEF WorkerFields
<1>5. CASE worker' = [worker EXCEPT ![k] = At("idle")] /\ copy.status \notin {Signed, Pending}
  BY <1>1, <1>2, <1>5, AtFacts
<1>6. CASE ~(worker' = [worker EXCEPT ![k] = At("idle")] /\ copy.status \notin {Signed, Pending})
  BY <1>2, <1>3, <1>4, <1>6
<1> QED
  BY <1>5, <1>6

-----------------------------------------------------------------------------
(***************************************************************************)
(* The writers' invariant while workers move: only Pop, GivesBack and      *)
(* Store touch what it is about.                                           *)
(***************************************************************************)

(* A worker that only moves tickets keeps the invariant of the ledger.     *)
LEMMA QueueOnly ==
    ASSUME LedgerInv, UNCHANGED <<ledger, watchOk>>, UNCHANGED unchangedByWorker,
           faults' \in 0 .. MaxFaults, IsSeq(queue'), Elems(queue') \subseteq DOMAIN ledger,
           \A i, j \in DOMAIN queue' : queue'[i] = queue'[j] => i = j,
           Elems(queue') \cap unanswered = {},
           \A w \in Writers : Debt(w) \cap (Elems(queue') \cup unanswered) = {}
    PROVE  LedgerInv'
<1> USE DEF unchangedByWorker
<1>1. TypeOK'
  BY DEF LedgerInv, TypeOK, EntryOK, CallOK, Debt
<1>2. SingleTicket'
  BY DEF LedgerInv, SingleTicket, Debt
<1>3. ChainIntact' /\ SeenFresh' /\ RepeatsOnlyUnanswered' /\ RequestsFresh'
  BY DEF LedgerInv, ChainIntact, SeenFresh, RepeatsOnlyUnanswered, RequestsFresh, Unwritten
<1> QED
  BY <1>1, <1>2, <1>3 DEF LedgerInv

(* So does LSET: hash, predecessor and payload of an entry stay.           *)
LEMMA StoreKeepsLedgerInv ==
    ASSUME SigningInv, VerdictsSound, NEW k \in Workers, Store(k)
    PROVE  LedgerInv'
<1> DEFINE i == worker[k].pos
<1>1. UNCHANGED unchangedByWorker /\ UNCHANGED <<queue, faults>>
  BY DEF Store
<1>2. /\ DOMAIN ledger' = DOMAIN ledger /\ IsSeq(ledger') /\ Len(ledger') = Len(ledger)
      /\ \A j \in DOMAIN ledger : /\ ledger'[j].req = ledger[j].req /\ ledger'[j].try = ledger[j].try
                                 /\ ledger'[j].prev = ledger[j].prev
                                 /\ ledger'[j].hash = ledger[j].hash
  BY StoreFacts
<1>3. watchOk' = [w \in Writers |-> FALSE]
  BY DEF Store, BreakWatches
<1>4. DOMAIN ledger = 1 .. Len(ledger) /\ Len(ledger) \in Nat
  BY SeqFacts DEF SigningInv, STypeOK, TypeOK
<1>5. TypeOK'
  <2>1. ASSUME NEW j \in DOMAIN ledger PROVE EntryOK(ledger[j])'
    <3>1. EntryOK(ledger[j])
      BY DEF SigningInv, STypeOK, TypeOK
    <3>2. CASE j # i
      BY <1>1, <3>1, <3>2, StoreFacts DEF EntryOK, unchangedByWorker
    <3>3. CASE j = i
      BY <1>1, <3>1, <3>3, StoreFacts, SigningAssumption
         DEF EntryOK, unchangedByWorker, Statuses
    <3> QED
      BY <3>2, <3>3
  <2> QED
    BY <1>1, <1>2, <1>3, <2>1
       DEF SigningInv, STypeOK, TypeOK, CallOK, Debt, unchangedByWorker
<1>6. ChainIntact' /\ SeenFresh'
  <2>1. ASSUME NEW j \in DOMAIN ledger PROVE LinkOK(ledger', j)
    BY <1>2, <1>4 DEF LinkOK, Id, SigningInv, LedgerInv, ChainIntact
  <2> QED
    BY <1>2, <1>3, <2>1 DEF ChainIntact, SeenFresh
<1>7. RepeatsOnlyUnanswered' /\ RequestsFresh'
  BY <1>1, <1>2 DEF SigningInv, LedgerInv, RepeatsOnlyUnanswered, RequestsFresh, Unwritten, Id,
                    unchangedByWorker
<1>8. SingleTicket'
  BY <1>1 DEF SigningInv, LedgerInv, SingleTicket, Debt, unchangedByWorker
<1> QED
  BY <1>5, <1>6, <1>7, <1>8 DEF LedgerInv

(* Health stays Boolean, the buffer a list and the faults in their bound.  *)
LEMMA OtherShapes ==
    ASSUME STypeOK, NEW k \in Workers, WorkerMoves(k)
    PROVE  /\ health' \in [Workers -> BOOLEAN] /\ faults' \in 0 .. MaxFaults
           /\ UNCHANGED buffer \/ (Publish(k) /\ buffer' = Append(buffer, worker[k].copy))
           /\ IsSeq(buffer')
<1>1. UNCHANGED health \/ \E ok \in BOOLEAN : health' = [health EXCEPT ![k] = ok]
  BY DEF WorkerMoves, WorkerStep, WorkerFault, LoadSigner, LoadFails, Pop, Read, Approve,
         Disapprove, SignOk, SignFails, Store, Publish, Requeue, WorkerRaises, WorkerCrash, Report
<1>2. health \in [Workers -> BOOLEAN] /\ faults \in 0 .. MaxFaults /\ IsSeq(buffer)
  BY DEF STypeOK, TypeOK
<1>3. health' \in [Workers -> BOOLEAN]
  BY <1>1, <1>2
<1>4. faults' \in 0 .. MaxFaults
  BY <1>2, WorkerCases, LedgerAssumption DEF Fault
<1>5. UNCHANGED buffer \/ (Publish(k) /\ buffer' = Append(buffer, worker[k].copy))
  <2>1. CASE Publish(k)
    BY <2>1 DEF Publish
  <2>2. CASE ~Publish(k)
    BY <2>2, Zenon DEF WorkerMoves, WorkerStep, WorkerFault, LoadSigner, LoadFails, Pop, Read, Approve,
           Disapprove, SignOk, SignFails, Store, Requeue, WorkerRaises, WorkerCrash
  <2> QED
    BY <2>1, <2>2
<1>6. IsSeq(buffer')
  <2>1. CASE buffer' = buffer
    BY <1>2, <2>1 DEF IsSeq, Elems
  <2>2. CASE buffer' = Append(buffer, worker[k].copy)
    <3>1. IsSeq(Append(buffer, worker[k].copy))
      BY <1>2, AppendFacts
    <3> QED
      BY <2>2, <3>1
  <2> QED
    BY <1>5, <2>1, <2>2
<1> QED
  BY <1>3, <1>4, <1>5, <1>6

(* What SigningInv says of one worker, beside what it shares with others.  *)
HandOK(k) ==
    LET i == worker[k].pos
        e == ledger[i]
        copy == worker[k].copy
        attempts == e.attempts + 1 IN
    /\ DOMAIN worker[k] = WorkerFields
    /\ worker[k].at \in WorkerPcs
    /\ worker[k].at \in {"load", "idle"} <=> i = 0
    /\ i # 0 => /\ i \in DOMAIN ledger
                /\ e.status = IF worker[k].at = "publish" THEN Signed ELSE Pending
    /\ worker[k].at \in {"approve", "sign", "publish", "requeue"} => copy = e
    /\ worker[k].at = "store" =>
         \/ copy = [e EXCEPT !.status = Signed, !.sig = e.hash]
         \/ copy = [e EXCEPT !.attempts = attempts,
                             !.status = IF attempts = MaxAttempts THEN Failed ELSE Pending]

(* The invariant is the ledger's, the hands', and that tickets are apart.  *)
HandsInv ==
    /\ LedgerInv /\ health \in [Workers -> BOOLEAN] /\ IsSeq(buffer)
    /\ DOMAIN worker = Workers
    /\ \A k \in Workers : HandOK(k)
    /\ OneTicket
    /\ \A i \in Elems(queue) \cup UNION {Debt(w) : w \in Writers} : ledger[i].status = Pending

(* It says what SigningInv says, before a step and after it.               *)
LEMMA Hands == (SigningInv <=> HandsInv) /\ (SigningInv' <=> HandsInv')
<1> USE DEF SigningInv, STypeOK, TicketsPending, CopyCurrent, HandOK, Held, WorkerFields,
            LedgerInv, HandsInv
<1>1. SigningInv <=> HandsInv
  BY ZenonT(60)
<1>2. SigningInv' <=> HandsInv'
  BY ZenonT(60)
<1> QED
  BY <1>1, <1>2

(* A hand a step does not touch stays as it is, while its entry does.      *)
LEMMA HandStable ==
    ASSUME NEW k, HandOK(k), worker'[k] = worker[k], DOMAIN ledger \subseteq DOMAIN ledger',
           worker[k].pos # 0 => ledger'[worker[k].pos] = ledger[worker[k].pos],
           0 \notin DOMAIN ledger
    PROVE  HandOK(k)'
<1>1. CASE worker[k].pos = 0
  BY <1>1 DEF HandOK
<1>2. CASE worker[k].pos # 0
  BY <1>2 DEF HandOK
<1> QED
  BY <1>1, <1>2

(* A free hand is in order.                                                *)
LEMMA FreeHand ==
    ASSUME NEW k, NEW place \in {"load", "idle"}, worker'[k] = At(place)
    PROVE  HandOK(k)' /\ Held(k)' = {}
BY AtFacts DEF HandOK, Held, WorkerPcs

(* The hands of the others, when a step leaves the ledger as it is.        *)
LEMMA OtherHands ==
    ASSUME SigningInv, UNCHANGED ledger, NEW k \in Workers,
           \A j \in Workers \ {k} : worker'[j] = worker[j]
    PROVE  \A j \in Workers \ {k} : HandOK(j)' /\ Held(j)' = Held(j)
<1>1. 0 \notin DOMAIN ledger
  BY SeqFacts DEF SigningInv, STypeOK, TypeOK
<1> QED
  BY <1>1, Hands, HandStable DEF Held, HandsInv

(* What the worker holds is in no queue, debt or other hand.               *)
LEMMA MyTicket ==
    ASSUME SigningInv, NEW k \in Workers, worker[k].pos # 0
    PROVE  /\ worker[k].pos \notin Elems(queue) /\ worker[k].pos \notin unanswered
           /\ \A w \in Writers : worker[k].pos \notin Debt(w)
           /\ \A j \in Workers \ {k} : worker[k].pos \notin Held(j)
BY DEF SigningInv, OneTicket, Held

(* Letting go of a position frees a ticket and changes no entry.           *)
LEMMA LetsGoKeeps ==
    ASSUME SigningInv, NEW k \in Workers, WorkerMoves(k), LetsGo(k)
    PROVE  SigningInv'
<1> STypeOK
  BY DEF SigningInv
<1>1. /\ UNCHANGED <<ledger, watchOk, queue>> /\ UNCHANGED unchangedByWorker
      /\ \A w \in Writers : Debt(w)' = Debt(w)
  BY LetsGoFacts, WorkerCases DEF unchangedByWorker, Debt
<1>2. PICK place \in {"load", "idle"} : worker' = [worker EXCEPT ![k] = At(place)]
  BY LetsGoFacts
<1>3. /\ DOMAIN worker' = Workers /\ worker'[k] = At(place)
      /\ \A j \in Workers \ {k} : worker'[j] = worker[j]
  BY <1>2 DEF STypeOK
<1>4. HandOK(k)' /\ Held(k)' = {}
  BY <1>3, FreeHand
<1>5. \A j \in Workers \ {k} : HandOK(j)' /\ Held(j)' = Held(j)
  BY <1>1, <1>3, OtherHands
<1>6. LedgerInv'
  BY <1>1, OtherShapes, QueueOnly DEF SigningInv, LedgerInv, TypeOK, SingleTicket
<1>7. OneTicket'
  BY <1>1, <1>4, <1>5, <1>6 DEF SigningInv, OneTicket, LedgerInv, unchangedByWorker
<1>8. (\A i \in Elems(queue) \cup UNION {Debt(w) : w \in Writers} : ledger[i].status = Pending)'
  BY <1>1 DEF SigningInv, TicketsPending
<1> QED
  BY <1>3, <1>4, <1>5, <1>6, <1>7, <1>8, OtherShapes, Hands DEF HandsInv

(* BLPOP moves a ticket from the queue to the worker's hand.               *)
LEMMA PopKeeps ==
    ASSUME SigningInv, NEW k \in Workers, WorkerMoves(k), Pop(k)
    PROVE  SigningInv'
<1> DEFINE i == Head(queue)
<1> STypeOK /\ LedgerInv /\ TypeOK
  BY DEF SigningInv, STypeOK
<1>1. /\ UNCHANGED <<ledger, watchOk>> /\ UNCHANGED unchangedByWorker
      /\ \A w \in Writers : Debt(w)' = Debt(w)
  BY PopFacts, WorkerCases DEF unchangedByWorker, Debt
<1>2. /\ DOMAIN worker' = Workers /\ DOMAIN worker'[k] = WorkerFields
      /\ worker'[k].at = "read" /\ worker'[k].pos = i
      /\ \A j \in Workers \ {k} : worker'[j] = worker[j]
  BY PopFacts
<1>3. /\ IsSeq(queue) /\ queue # <<>> /\ queue' = Tail(queue)
      /\ Len(queue) \in Nat /\ DOMAIN queue = 1 .. Len(queue)
  BY PopFacts, SeqFacts DEF TypeOK
<1>4. /\ IsSeq(queue') /\ i = queue[1] /\ 1 \in DOMAIN queue
      /\ DOMAIN queue' = 1 .. Len(queue) - 1
      /\ \A j \in 1 .. Len(queue) - 1 : queue'[j] = queue[j + 1]
      /\ Elems(queue') \subseteq Elems(queue)
  BY <1>3, TailFacts
<1>5. /\ \A j, l \in DOMAIN queue : queue[j] = queue[l] => j = l
      /\ Elems(queue) \cap unanswered = {} /\ UNCHANGED unanswered
      /\ \A w \in Writers : Debt(w) \cap (Elems(queue) \cup unanswered) = {}
  BY <1>1 DEF LedgerInv, SingleTicket, unchangedByWorker
<1>6. i \in Elems(queue) /\ i \notin Elems(queue')
  <2>1. ASSUME NEW j \in DOMAIN queue', queue'[j] = i PROVE FALSE
    <3>1. j + 1 \in DOMAIN queue /\ j + 1 # 1 /\ queue[j + 1] = queue[1]
      BY <1>3, <1>4, <2>1
    <3> QED
      BY <1>4, <1>5, <3>1
  <2> QED
    BY <1>4, <2>1 DEF Elems
<1>7. i \in DOMAIN ledger /\ i # 0 /\ ledger[i].status = Pending
  <2>1. Elems(queue) \subseteq DOMAIN ledger /\ DOMAIN ledger = 1 .. Len(ledger)
    BY SeqFacts DEF TypeOK
  <2> QED
    BY <1>6, <2>1 DEF SigningInv, TicketsPending
<1>8. LedgerInv'
  <2>1. \A j, l \in DOMAIN queue' : queue'[j] = queue'[l] => j = l
    BY <1>3, <1>4, <1>5
  <2>2. Elems(queue) \subseteq DOMAIN ledger
    BY DEF TypeOK
  <2> QED
    BY <1>1, <1>4, <1>5, <2>1, <2>2, OtherShapes, QueueOnly
<1>9. HandOK(k)' /\ Held(k)' = {i}
  BY <1>1, <1>2, <1>7 DEF HandOK, Held, WorkerPcs
<1>10. \A j \in Workers \ {k} : HandOK(j)' /\ Held(j)' = Held(j)
  BY <1>1, <1>2, OtherHands
<1>11. OneTicket'
  <2>1. /\ \A j \in Workers : Held(j) \cap (Elems(queue) \cup unanswered) = {}
        /\ \A j \in Workers, w \in Writers : Held(j) \cap Debt(w) = {}
        /\ \A j, l \in Workers : j # l => Held(j) \cap Held(l) = {}
    BY DEF SigningInv, OneTicket
  <2>2. \A j \in Workers : Held(j)' \cap (Elems(queue') \cup unanswered') = {}
    BY <1>4, <1>5, <1>6, <1>9, <1>10, <2>1
  <2>3. \A j \in Workers, w \in Writers : Held(j)' \cap Debt(w)' = {}
    BY <1>1, <1>5, <1>6, <1>9, <1>10, <2>1
  <2>4. \A j, l \in Workers : j # l => Held(j)' \cap Held(l)' = {}
    BY <1>6, <1>9, <1>10, <2>1
  <2> QED
    BY <1>8, <2>2, <2>3, <2>4 DEF OneTicket, LedgerInv
<1>12. (\A j \in Elems(queue) \cup UNION {Debt(w) : w \in Writers} : ledger[j].status = Pending)'
  BY <1>1, <1>4 DEF SigningInv, TicketsPending
<1> QED
  BY <1>2, <1>8, <1>9, <1>10, <1>11, <1>12, OtherShapes, Hands DEF HandsInv

(* A position given back is a ticket in the queue again.                   *)
LEMMA GivesBackKeeps ==
    ASSUME SigningInv, NEW k \in Workers, WorkerMoves(k), GivesBack(k)
    PROVE  SigningInv'
<1> DEFINE i == worker[k].pos
<1> STypeOK /\ LedgerInv /\ TypeOK
  BY DEF SigningInv, STypeOK
<1>1. /\ UNCHANGED <<ledger, watchOk>> /\ UNCHANGED unchangedByWorker
      /\ \A w \in Writers : Debt(w)' = Debt(w)
  BY GivesBackFacts, WorkerCases DEF unchangedByWorker, Debt
<1>2. /\ DOMAIN worker' = Workers /\ worker'[k] = At("idle")
      /\ \A j \in Workers \ {k} : worker'[j] = worker[j]
  BY GivesBackFacts DEF STypeOK
<1>3. /\ worker[k].at \in {"approve", "requeue"} /\ i \in DOMAIN ledger /\ i # 0
      /\ Held(k) = {i} /\ ledger[i].status = Pending
  BY GivesBackFacts, HeldFacts DEF SigningInv, TicketsPending
<1>4. /\ IsSeq(queue') /\ Elems(queue') = Elems(queue) \cup {i}
      /\ DOMAIN queue = 1 .. Len(queue) /\ DOMAIN queue' = 1 .. Len(queue) + 1
      /\ queue'[Len(queue) + 1] = i /\ \A j \in DOMAIN queue : queue'[j] = queue[j]
      /\ Len(queue) \in Nat
  <2>1. IsSeq(queue) /\ queue' = Append(queue, i)
    BY GivesBackFacts DEF TypeOK
  <2>2. DOMAIN queue = 1 .. Len(queue) /\ Len(queue) \in Nat
    BY <2>1, SeqFacts
  <2> HIDE DEF i
  <2> QED
    BY <2>1, <2>2, AppendFacts
<1>5. /\ i \notin Elems(queue) /\ i \notin unanswered /\ \A w \in Writers : i \notin Debt(w)
      /\ \A j \in Workers \ {k} : i \notin Held(j)
  BY <1>3, MyTicket
<1>6. LedgerInv'
  <2>1. \A j \in DOMAIN queue : queue[j] # i
    BY <1>5 DEF Elems
  <2>2. /\ \A j, l \in DOMAIN queue : queue[j] = queue[l] => j = l
        /\ Elems(queue) \cap unanswered = {}
        /\ \A w \in Writers : Debt(w) \cap (Elems(queue) \cup unanswered) = {}
        /\ Elems(queue) \subseteq DOMAIN ledger
    BY DEF LedgerInv, SingleTicket, TypeOK
  <2>3. \A j, l \in DOMAIN queue' : queue'[j] = queue'[l] => j = l
    BY <1>4, <2>1, <2>2
  <2> QED
    BY <1>1, <1>3, <1>4, <1>5, <2>2, <2>3, OtherShapes, QueueOnly
<1>7. HandOK(k)' /\ Held(k)' = {}
  BY <1>2, FreeHand
<1>8. \A j \in Workers \ {k} : HandOK(j)' /\ Held(j)' = Held(j)
  BY <1>1, <1>2, OtherHands
<1>9. OneTicket'
  <2>1. UNCHANGED unanswered
    BY <1>1 DEF unchangedByWorker
  <2> QED
    BY <1>1, <1>4, <1>5, <1>6, <1>7, <1>8, <2>1 DEF SigningInv, OneTicket, LedgerInv
<1>10. (\A j \in Elems(queue) \cup UNION {Debt(w) : w \in Writers} : ledger[j].status = Pending)'
  BY <1>1, <1>3, <1>4 DEF SigningInv, TicketsPending
<1> QED
  BY <1>2, <1>6, <1>7, <1>8, <1>9, <1>10, OtherShapes, Hands DEF HandsInv

(* Reading and signing change nothing but what the worker remembers.       *)
LEMMA WorksKeeps ==
    ASSUME SigningInv, VerdictsSound, NEW k \in Workers, WorkerMoves(k), Works(k)
    PROVE  SigningInv'
<1> DEFINE e == ledger[worker[k].pos]
<1> STypeOK /\ LedgerInv /\ TypeOK
  BY DEF SigningInv, STypeOK
<1>1. /\ UNCHANGED ledgerVars /\ UNCHANGED buffer
      /\ worker[k].at \notin {"load", "idle", "publish"}
  BY WorksFacts
<1>p. PICK p \in {"approve", "sign", "store"} : \E c :
          worker' = [worker EXCEPT ![k] = [@ EXCEPT !.at = p, !.copy = c]]
  BY WorksFacts
<1>2. PICK c :
          worker' = [worker EXCEPT ![k] = [@ EXCEPT !.at = p, !.copy = c]]
  BY <1>p
<1>3. /\ DOMAIN worker' = Workers /\ DOMAIN worker'[k] = WorkerFields
      /\ worker'[k].at = p /\ worker'[k].pos = worker[k].pos /\ worker'[k].copy = c
      /\ \A j \in Workers \ {k} : worker'[j] = worker[j]
  BY <1>2 DEF STypeOK, WorkerFields
<1>4. worker[k].pos \in DOMAIN ledger /\ worker[k].pos # 0 /\ e.status = Pending
  BY <1>1, HeldFacts DEF SigningInv, TicketsPending
<1>5. /\ p \in {"approve", "sign"} => c = e
      /\ p = "store" =>
           \/ c = [e EXCEPT !.status = Signed, !.sig = e.hash]
           \/ c = [e EXCEPT !.attempts = e.attempts + 1,
                            !.status = IF e.attempts + 1 = MaxAttempts THEN Failed ELSE Pending]
  <2>1. CASE Read(k)
    <3>1. worker' = [worker EXCEPT ![k] = [@ EXCEPT !.at = "approve", !.copy = e]]
      BY <2>1, ReadVerdict DEF Read
    <3>2. worker'[k].at = "approve" /\ worker'[k].copy = e
      BY <3>1 DEF STypeOK
    <3> QED
      BY <1>3, <3>2
  <2>2. CASE Approve(k)
    <3>1. worker' = [worker EXCEPT ![k] = [@ EXCEPT !.at = "sign"]] /\ worker[k].at = "approve"
      BY <2>2 DEF Approve, Goto
    <3>2. worker'[k].at = "sign" /\ worker'[k].copy = worker[k].copy
      BY <3>1 DEF STypeOK
    <3> QED
      BY <1>3, <3>1, <3>2 DEF SigningInv, CopyCurrent
  <2>3. CASE SignOk(k)
    <3>1. /\ worker[k].at = "sign" /\ worker[k].copy = e
      BY <2>3 DEF SignOk, SigningInv, CopyCurrent
    <3>2. worker'[k].at = "store" /\ worker'[k].copy = [e EXCEPT !.status = Signed, !.sig = e.hash]
      BY <2>3, <3>1 DEF SignOk, STypeOK
    <3>3. p = "store" /\ c = [e EXCEPT !.status = Signed, !.sig = e.hash]
      BY <1>3, <3>2
    <3> QED
      BY <3>3
  <2>4. CASE SignFails(k)
    <3>1. /\ worker[k].at = "sign" /\ worker[k].copy = e
      BY <2>4 DEF SignFails, SigningInv, CopyCurrent
    <3>2. /\ worker'[k].at = "store"
          /\ worker'[k].copy = [e EXCEPT !.attempts = e.attempts + 1,
                !.status = IF e.attempts + 1 >= MaxAttempts THEN Failed ELSE e.status]
      BY <2>4, <3>1 DEF SignFails, STypeOK, GivenUp
    <3>3. e.attempts + 1 >= MaxAttempts <=> e.attempts + 1 = MaxAttempts
      <4>1. e.attempts \in Nat /\ e.attempts <= MaxAttempts /\ e.attempts # MaxAttempts
        BY <1>4 DEF VerdictsSound, TypeOK, EntryOK, Pending, Failed
      <4> QED
        BY <4>1, SigningAssumption
    <3> QED
      BY <1>3, <1>4, <3>2, <3>3
  <2> QED
    BY <2>1, <2>2, <2>3, <2>4 DEF Works
<1>6. HandOK(k)' /\ Held(k)' = Held(k)
  BY <1>1, <1>3, <1>4, <1>5 DEF HandOK, Held, WorkerPcs, ledgerVars
<1>7. \A j \in Workers \ {k} : HandOK(j)' /\ Held(j)' = Held(j)
  BY <1>1, <1>3, OtherHands DEF ledgerVars
<1>8. LedgerInv'
  BY <1>1, OtherShapes, QueueOnly DEF LedgerInv, TypeOK, SingleTicket, ledgerVars, unchangedByWorker
<1>9. UNCHANGED <<queue, unanswered>> /\ \A w \in Writers : Debt(w)' = Debt(w)
  BY <1>1 DEF ledgerVars, Debt
<1>10. OneTicket'
  BY <1>6, <1>7, <1>8, <1>9 DEF SigningInv, OneTicket, LedgerInv
<1>11. (\A i \in Elems(queue) \cup UNION {Debt(w) : w \in Writers} : ledger[i].status = Pending)'
  BY <1>1, <1>9 DEF SigningInv, TicketsPending, ledgerVars
<1> QED
  BY <1>3, <1>6, <1>7, <1>8, <1>10, <1>11, OtherShapes, Hands DEF HandsInv

(* LSET settles the entry in hand, or gives it one attempt more.           *)
LEMMA StoreKeeps ==
    ASSUME SigningInv, VerdictsSound, NEW k \in Workers, WorkerMoves(k), Store(k)
    PROVE  SigningInv'
<1> DEFINE i == worker[k].pos
<1> STypeOK /\ LedgerInv /\ TypeOK
  BY DEF SigningInv, STypeOK
<1>1. /\ UNCHANGED unchangedByWorker /\ UNCHANGED <<queue, unanswered>>
      /\ \A w \in Writers : Debt(w)' = Debt(w)
  BY DEF Store, unchangedByWorker, Debt
<1>2. /\ i \in DOMAIN ledger /\ i # 0 /\ DOMAIN ledger' = DOMAIN ledger
      /\ \A j \in DOMAIN ledger \ {i} : ledger'[j] = ledger[j]
      /\ 0 \notin DOMAIN ledger
  BY StoreFacts, SeqFacts DEF TypeOK
<1>3. /\ i \notin Elems(queue) /\ \A w \in Writers : i \notin Debt(w)
      /\ \A j \in Workers \ {k} : i \notin Held(j)
  BY <1>2, MyTicket
<1>4. LedgerInv'
  BY StoreKeepsLedgerInv
<1>5. HandOK(k)' /\ Held(k)' \subseteq {i}
  <2>1. CASE worker'[k].at = "idle" /\ worker'[k].pos = 0
    BY <2>1, StoreLeaves DEF HandOK, Held, WorkerPcs
  <2>2. CASE /\ worker'[k].pos = i /\ worker'[k].copy = ledger'[i]
             /\ \/ worker'[k].at = "publish" /\ worker'[k].copy.status = Signed
                \/ worker'[k].at = "requeue" /\ worker'[k].copy.status = Pending
    BY <1>2, <2>2, StoreLeaves DEF HandOK, Held, WorkerPcs
  <2> QED
    BY <2>1, <2>2, StoreLeaves
<1>6. \A j \in Workers \ {k} : HandOK(j)' /\ Held(j)' = Held(j)
  <2> TAKE j \in Workers \ {k}
  <2>1. HandOK(j) /\ worker'[j] = worker[j]
    BY StoreLeaves, Hands DEF HandsInv
  <2>2. worker[j].pos # 0 => worker[j].pos \in DOMAIN ledger \ {i}
    BY <1>3, <2>1 DEF HandOK, Held
  <2> QED
    BY <1>2, <2>1, <2>2, HandStable DEF Held
<1>7. OneTicket'
  <2>1. Held(k) = {i}
    BY <1>2 DEF Held
  <2> QED
    BY <1>1, <1>3, <1>4, <1>5, <1>6, <2>1 DEF SigningInv, OneTicket, LedgerInv
<1>8. (\A j \in Elems(queue) \cup UNION {Debt(w) : w \in Writers} : ledger[j].status = Pending)'
  <2>1. ASSUME NEW j \in Elems(queue) \cup UNION {Debt(w) : w \in Writers}
        PROVE  ledger'[j].status = Pending
    <3>1. j \in DOMAIN ledger /\ j # i /\ ledger[j].status = Pending
      BY <1>3 DEF SigningInv, TicketsPending, TypeOK, CallOK
    <3> QED
      BY <1>2, <3>1
  <2> QED
    BY <1>1, <2>1
<1>9. DOMAIN worker' = Workers
  BY StoreLeaves
<1> QED
  BY <1>4, <1>5, <1>6, <1>7, <1>8, <1>9, OtherShapes, Hands DEF HandsInv

(* A worker whose key cannot be loaded only reports it.                    *)
LEMMA LoadFailsKeeps ==
    ASSUME SigningInv, NEW k \in Workers, WorkerMoves(k), LoadFails(k)
    PROVE  SigningInv'
<1>1. UNCHANGED ledgerVars /\ UNCHANGED <<worker, buffer>>
  BY DEF LoadFails
<1>2. health' \in [Workers -> BOOLEAN]
  BY OtherShapes DEF SigningInv
<1>3. LedgerInv'
  BY <1>1, TypeStutter, ChainStutter, RequestStutter, TicketStutter DEF SigningInv, LedgerInv
<1>4. STypeOK'
  BY <1>1, <1>2, <1>3 DEF SigningInv, STypeOK, Held, LedgerInv, ledgerVars, IsSeq, Elems
<1>5. OneTicket' /\ TicketsPending'
  <2>1. /\ UNCHANGED <<ledger, unanswered, queue, worker>> /\ \A j \in Workers : Held(j)' = Held(j)
        /\ \A w \in Writers : Debt(w)' = Debt(w)
    <3>1. UNCHANGED <<ledger, unanswered, queue, worker, call>>
      BY <1>1 DEF ledgerVars
    <3> QED
      BY <3>1, Zenon DEF Held, Debt
  <2> QED
    BY <1>3, <2>1 DEF SigningInv, OneTicket, TicketsPending, LedgerInv
<1>6. CopyCurrent'
  BY <1>1 DEF SigningInv, CopyCurrent, ledgerVars
<1> QED
  BY <1>3, <1>4, <1>5, <1>6 DEF SigningInv

(* The verdicts stay sound: only LSET gives one, and a pending entry has   *)
(* attempts left.                                                          *)
LEMMA VerdictsStep ==
    ASSUME SigningInv, VerdictsSound, NEW k \in Workers, WorkerMoves(k)
    PROVE  VerdictsSound'
<1>1. CASE Store(k)
  <2> DEFINE i == worker[k].pos
             e == ledger[i]
             f == ledger'[i]
  <2>1. /\ i \in DOMAIN ledger /\ DOMAIN ledger' = DOMAIN ledger
        /\ \A j \in DOMAIN ledger \ {i} : ledger'[j] = ledger[j]
    BY <1>1, StoreFacts
  <2>2. e.status = Pending /\ e.attempts \in Nat /\ e.attempts < MaxAttempts /\ f.hash = e.hash
    BY <1>1, StoreFacts
  <2>3. \/ f.status = Signed /\ f.attempts = e.attempts /\ f.sig = e.hash
        \/ /\ f.status = IF e.attempts + 1 = MaxAttempts THEN Failed ELSE Pending
           /\ f.attempts = e.attempts + 1 /\ f.sig = e.sig
    BY <1>1, StoreFacts
  <2>4. e.sig = NoHash
    BY <2>1, <2>2 DEF VerdictsSound, Pending, Signed
  <2>5. /\ f.status # Mismatch /\ (f.status = Failed <=> f.attempts = MaxAttempts)
        /\ f.attempts <= MaxAttempts
        /\ f.sig = IF f.status = Signed THEN f.hash ELSE NoHash
    <3> HIDE DEF e, f
    <3> QED
      BY <2>2, <2>3, <2>4, SigningAssumption DEF Pending, Signed, Failed, Mismatch
  <2> QED
    BY <2>1, <2>5 DEF VerdictsSound
<1>2. CASE ~Store(k)
  <2>1. UNCHANGED ledger
    BY <1>2, WorkerCases, LetsGoFacts, GivesBackFacts, PopFacts, WorksFacts
       DEF SigningInv, LoadFails, ledgerVars
  <2> QED
    BY <2>1 DEF VerdictsSound
<1> QED
  BY <1>1, <1>2

(* A worker's step keeps the invariant.                                    *)
LEMMA WorkerKeeps ==
    ASSUME SigningInv, VerdictsSound, NEW k \in Workers, WorkerMoves(k)
    PROVE  SigningInv' /\ VerdictsSound'
BY WorkerCases, LoadFailsKeeps, LetsGoKeeps, PopKeeps, WorksKeeps, GivesBackKeeps, StoreKeeps, VerdictsStep

-----------------------------------------------------------------------------
(***************************************************************************)
(* The workers' part of the invariant while writers move.                  *)
(***************************************************************************)

(* The invariant of the ledger is kept by its writers.                     *)
LEMMA WriterKeepsLedgerInv ==
    ASSUME LedgerInv, NEW w \in Writers, WriterMoves(w)
    PROVE  LedgerInv'
<1>1. Next
  BY DEF Next, WriterMoves
<1> QED
  BY <1>1, LedgerAssumption, TypeStep, ChainStep, RequestStep, TicketStep DEF LedgerInv

(* A writer's step only adds to the ledger, and adds pending entries.      *)
LEMMA WriterOnlyAdds ==
    ASSUME LedgerInv, NEW w \in Writers, WriterMoves(w)
    PROVE  /\ DOMAIN ledger \subseteq DOMAIN ledger'
           /\ \A i \in DOMAIN ledger : ledger'[i] = ledger[i]
           /\ unanswered' \subseteq unanswered \cup (DOMAIN ledger' \ DOMAIN ledger)
           /\ \A i \in DOMAIN ledger' \ DOMAIN ledger :
                ledger'[i].status = Pending /\ ledger'[i].attempts = 0 /\ ledger'[i].sig = NoHash
<1>1. CASE Appends(w)
  <2>1. NewEntry(w).status = Pending /\ NewEntry(w).attempts = 0 /\ NewEntry(w).sig = NoHash
    BY DEF NewEntry
  <2>2. TypeOK
    BY DEF LedgerInv
  <2> QED
    BY <1>1, <2>1, <2>2, NewEntryFacts
<1>2. CASE UNCHANGED <<ledger, unanswered>>
  BY <1>2
<1> QED
  BY <1>1, <1>2, OnlyExecWrites

(* A writer's step moves tickets from debts to the queue, drops them, or   *)
(* makes one for the entry it has appended.                                *)
LEMMA WriterTickets ==
    ASSUME LedgerInv, NEW w \in Writers, WriterMoves(w)
    PROVE  /\ \A v \in Writers : Debt(v)' \subseteq Debt(v) \cup (DOMAIN ledger' \ DOMAIN ledger)
           /\ Elems(queue') \subseteq Elems(queue) \cup UNION {Debt(v) : v \in Writers}
<1> TypeOK /\ SingleTicket
  BY DEF LedgerInv
<1>1. \A v \in Writers \ {w} : Debt(v)' = Debt(v)
  BY OthersUntouched DEF Debt
<1>2. CASE ExecAppend(w)
  <2>1. UNCHANGED queue
    BY <1>2 DEF ExecAppend
  <2>2. Len(ledger) + 1 \in DOMAIN ledger' \ DOMAIN ledger
    BY <1>2, NewEntryFacts DEF Appends
  <2> QED
    BY <1>1, <1>2, <2>1, <2>2, AppendMakesDebt
<1>3. CASE Enqueue(w)
  <2>1. PICK i \in Debt(w) : queue' = Append(queue, i) /\ Debt(w)' \subseteq Debt(w) \ {i}
    BY <1>3, EnqueueMovesDebt
  <2>2. Elems(queue') = Elems(queue) \cup {i}
    BY <2>1, AppendFacts DEF TypeOK
  <2> QED
    BY <1>1, <2>1, <2>2
<1>4. CASE ~ExecAppend(w) /\ ~Enqueue(w)
  BY <1>1, <1>4, DebtKeptOrDropped
<1> QED
  BY <1>2, <1>3, <1>4

(* So a writer's step keeps the whole invariant.                           *)
LEMMA WriterKeeps ==
    ASSUME SigningInv, VerdictsSound, NEW w \in Writers, WriterMoves(w), UNCHANGED signerVars
    PROVE  SigningInv' /\ VerdictsSound'
<1> LedgerInv /\ TypeOK
  BY DEF SigningInv, LedgerInv
<1>1. LedgerInv'
  BY WriterKeepsLedgerInv
<1>2. UNCHANGED <<worker, health, buffer>>
  BY DEF signerVars
<1> \A k \in Workers : Held(k)' = Held(k)
  BY <1>2, Zenon DEF Held
<1>3. ASSUME NEW k \in Workers PROVE HandOK(k)' /\ Held(k) \subseteq DOMAIN ledger
  <2>1. 0 \notin DOMAIN ledger /\ HandOK(k)
    BY SeqFacts, Hands DEF TypeOK, HandsInv
  <2> QED
    BY <1>2, <2>1, WriterOnlyAdds, HandStable DEF HandOK, Held
<1>4. OneTicket'
  <2>1. \A k \in Workers : Held(k) \cap (Elems(queue') \cup unanswered') = {}
    BY <1>3, WriterTickets, WriterOnlyAdds DEF SigningInv, OneTicket
  <2>2. \A k \in Workers, v \in Writers : Held(k) \cap Debt(v)' = {}
    BY <1>3, WriterTickets DEF SigningInv, OneTicket
  <2> QED
    BY <1>1, <1>2, <2>1, <2>2 DEF SigningInv, OneTicket, LedgerInv
<1>5. (\A i \in Elems(queue) \cup UNION {Debt(v) : v \in Writers} : ledger[i].status = Pending)'
  <2>1. ASSUME NEW i \in Elems(queue) \cup UNION {Debt(v) : v \in Writers}
        PROVE  ledger'[i].status = Pending
    <3>1. i \in DOMAIN ledger /\ ledger[i].status = Pending
      BY DEF SigningInv, TicketsPending, TypeOK, CallOK
    <3> QED
      BY <3>1, WriterOnlyAdds
  <2>2. ASSUME NEW i \in DOMAIN ledger' \ DOMAIN ledger PROVE ledger'[i].status = Pending
    BY WriterOnlyAdds
  <2> QED
    BY <2>1, <2>2, WriterTickets
<1>6. VerdictsSound'
  <2>1. ASSUME NEW i \in DOMAIN ledger' \ DOMAIN ledger
        PROVE  LET e == ledger'[i] IN
               /\ e.status # Mismatch /\ (e.status = Failed <=> e.attempts = MaxAttempts)
               /\ e.attempts <= MaxAttempts
               /\ e.sig = IF e.status = Signed THEN e.hash ELSE NoHash
    BY WriterOnlyAdds, SigningAssumption DEF Pending, Signed, Failed, Mismatch
  <2> QED
    BY <2>1, WriterOnlyAdds DEF VerdictsSound
<1>7. SigningInv'
  <2>1. health' \in [Workers -> BOOLEAN] /\ IsSeq(buffer') /\ DOMAIN worker' = Workers
    BY <1>2 DEF SigningInv, STypeOK
  <2> QED
    BY <1>1, <1>3, <1>4, <1>5, <2>1, Hands DEF HandsInv
<1> QED
  BY <1>6, <1>7

(* A step that changes nothing.                                            *)
LEMMA SigningStutter ==
    SigningInv /\ VerdictsSound /\ UNCHANGED vars => SigningInv' /\ VerdictsSound'
<1> SUFFICES ASSUME SigningInv, VerdictsSound, UNCHANGED vars PROVE SigningInv' /\ VerdictsSound'
  OBVIOUS
<1>1. UNCHANGED ledgerVars /\ UNCHANGED <<worker, health, buffer>>
  BY DEF vars, signerVars
<1>2. LedgerInv'
  BY <1>1, TypeStutter, ChainStutter, RequestStutter, TicketStutter DEF SigningInv, LedgerInv
<1>3. STypeOK'
  BY <1>1, <1>2 DEF SigningInv, STypeOK, Held, LedgerInv, ledgerVars, IsSeq, Elems
<1>4 OneTicket' /\ TicketsPending'
  <2>1. /\ UNCHANGED <<ledger, unanswered, queue, worker>> /\ \A k \in Workers : Held(k)' = Held(k)
        /\ \A w \in Writers : Debt(w)' = Debt(w)
    <3>1. UNCHANGED <<ledger, unanswered, queue, worker, call>>
      BY <1>1 DEF ledgerVars
    <3> QED
      BY <3>1, Zenon DEF Held, Debt
  <2> QED
    BY <1>2, <2>1 DEF SigningInv, OneTicket, TicketsPending, LedgerInv
<1>5. CopyCurrent' /\ VerdictsSound'
  BY <1>1 DEF SigningInv, CopyCurrent, VerdictsSound, ledgerVars
<1> QED
  BY <1>2, <1>3, <1>4, <1>5 DEF SigningInv

(* At first the ledger and the hands are empty.                            *)
LEMMA SigningInit == SInit => SigningInv /\ VerdictsSound
<1> SUFFICES ASSUME SInit PROVE SigningInv /\ VerdictsSound
  OBVIOUS
<1> USE DEF SInit
<1>1. LedgerInv /\ SingleTicket
  BY LedgerAssumption, InitType, ChainInit, RequestInit, TicketInit DEF LedgerInv
<1>2. /\ DOMAIN ledger = {} /\ Elems(queue) = {} /\ IsSeq(buffer)
      /\ \A w \in Writers : Debt(w) = {}
  <2>1. \A w \in Writers : call[w].slot = 0 /\ call[w].inner = 0
    BY IdleFacts DEF Init
  <2> QED
    BY <2>1, EmptyFacts DEF Init, SignerInit, Debt
<1>3. /\ DOMAIN worker = Workers /\ health \in [Workers -> BOOLEAN]
      /\ \A k \in Workers : worker[k] = At("load")
  BY DEF SignerInit
<1>4. ASSUME NEW k \in Workers PROVE HandOK(k) /\ Held(k) = {}
  BY <1>3, AtFacts DEF HandOK, Held, WorkerPcs
<1>5. OneTicket
  BY <1>1, <1>2, <1>4 DEF OneTicket
<1> QED
  BY <1>1, <1>2, <1>3, <1>4, <1>5, Hands DEF HandsInv, VerdictsSound

(* The two parts are inductive together.                                   *)
LEMMA SigningStep ==
    SigningInv /\ VerdictsSound /\ [SNext]_vars => SigningInv' /\ VerdictsSound'
BY WriterKeeps, WorkerKeeps, SigningStutter DEF SNext, LedgerNext, Next, WriterMoves, WorkerMoves

(* Writers and workers together keep the chain, one ticket per position,   *)
(* and every copy a worker holds current.                                  *)
THEOREM SigningSafe == SSpec => []SigningInv
<1>1. SInit => SigningInv /\ VerdictsSound
  BY SigningInit
<1>2. SigningInv /\ VerdictsSound /\ [SNext]_vars => SigningInv' /\ VerdictsSound'
  BY SigningStep
<1> QED
  BY <1>1, <1>2, PTL DEF SSpec

(* No entry is given up early or late, found to mismatch, or carries a     *)
(* signature over another hash than its own.                               *)
THEOREM VerdictsCorrect == SSpec => []VerdictsSound
<1>1. SInit => SigningInv /\ VerdictsSound
  BY SigningInit
<1>2. SigningInv /\ VerdictsSound /\ [SNext]_vars => SigningInv' /\ VerdictsSound'
  BY SigningStep
<1> QED
  BY <1>1, <1>2, PTL DEF SSpec

-----------------------------------------------------------------------------
(***************************************************************************)
(* The refinement, with workers: LSET settles an entry of the abstract log *)
(* or, when it only counts an attempt, leaves the log as it is.            *)
(***************************************************************************)
LEMMA StoreRefines ==
    ASSUME SigningInv, VerdictsSound, NEW k \in Workers, Store(k)
    PROVE  [Abstract!Next]_<<LogView, unanswered>>
<1> DEFINE i == worker[k].pos
           f == ledger'[i]
<1>1. IsSeq(ledger) /\ IsSeq(ledger')
  BY StoreFacts DEF SigningInv, STypeOK, TypeOK
<1>2. /\ i \in DOMAIN ledger /\ DOMAIN ledger' = DOMAIN ledger /\ Len(ledger') = Len(ledger)
      /\ \A j \in DOMAIN ledger \ {i} : ledger'[j] = ledger[j]
      /\ ledger[i].status = Pending
      /\ f.req = ledger[i].req /\ f.try = ledger[i].try /\ f.prev = ledger[i].prev /\ f.hash = ledger[i].hash
      /\ f.status \in {Signed, Failed, Pending}
      /\ UNCHANGED unanswered
  BY StoreFacts DEF Store, unchangedByWorker
<1>3. DOMAIN ledger = 1 .. Len(ledger) /\ Len(ledger) \in Nat
  BY <1>1, SeqFacts
<1>4. LogView' = [LogView EXCEPT ![i] = [@ EXCEPT !.status = f.status]]
  BY <1>2, <1>3 DEF LogView
<1>5. LogView[i].status = Pending /\ DOMAIN LogView = DOMAIN ledger /\ i \notin unanswered
  <2>1. i # 0
    BY <1>2, <1>3
  <2> QED
    BY <1>1, <1>2, <2>1, LogViewFacts, MyTicket
<1>6. CASE f.status = Pending
  BY <1>2, <1>3, <1>6 DEF LogView
<1>7. CASE f.status \in {Signed, Failed}
  <2>1. Abstract!Settle(i, f.status)
    BY <1>2, <1>4, <1>5 DEF Abstract!Settle, Abstract!Pending, Pending
  <2> QED
    BY <1>2, <1>5, <1>7, <2>1 DEF Abstract!Next, Abstract!Signed, Abstract!Failed, Signed, Failed
<1> QED
  BY <1>2, <1>6, <1>7

(* Writers and workers together implement the log that only grows and      *)
(* whose entries are settled once.                                         *)
THEOREM PipelineRefinesLog == SSpec => ImplementsLog
<1>1. SInit => Abstract!Init
  BY EmptyFacts DEF SInit, Init, Abstract!Init, LogView
<1>2. SigningInv /\ VerdictsSound /\ SigningInv' /\ [SNext]_vars =>
        [Abstract!Next]_<<LogView, unanswered>>
  <2> SUFFICES ASSUME SigningInv, VerdictsSound, SigningInv', [SNext]_vars
               PROVE  [Abstract!Next]_<<LogView, unanswered>>
    OBVIOUS
  <2>1. CASE UNCHANGED <<ledger, unanswered>>
    BY <2>1 DEF LogView
  <2>2. ASSUME NEW w \in Writers, Appends(w) PROVE [Abstract!Next]_<<LogView, unanswered>>
    BY <2>2, AppendRefines DEF SigningInv, Abstract!Next
  <2>3. ASSUME NEW k \in Workers, WorkerMoves(k)
        PROVE  [Abstract!Next]_<<LogView, unanswered>>
    <3>1. CASE Store(k)
      BY <3>1, StoreRefines
    <3>2. CASE ~Store(k)
      BY <2>1, <2>3, <3>2, WorkerCases, LetsGoFacts, GivesBackFacts, PopFacts, WorksFacts
         DEF SigningInv, LoadFails, ledgerVars, unchangedByWorker
    <3> QED
      BY <3>1, <3>2
  <2>4. CASE LedgerNext
    BY <2>1, <2>2, <2>4, OnlyExecWrites DEF LedgerNext, Next, WriterMoves
  <2> QED
    BY <2>1, <2>3, <2>4 DEF SNext, WorkerMoves, vars, ledgerVars
<1>3. SSpec => []VerdictsSound
  BY VerdictsCorrect
<1> QED
  BY <1>1, <1>2, <1>3, SigningSafe, PTL DEF SSpec, ImplementsLog, Abstract!Spec
=============================================================================
