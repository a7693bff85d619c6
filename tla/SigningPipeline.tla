-------------------------- MODULE SigningPipeline --------------------------
(***************************************************************************)
(* The audit ledger together with the workers that sign it                 *)
(* (chimera/signing_runtime.py, signing_worker_loop).  A worker takes a    *)
(* position from the queue, reads the entry, signs its own copy of it in a *)
(* thread, and writes the whole copy back with LSET, which also breaks     *)
(* every WATCH a ledger writer holds.  The lines of dual control that      *)
(* decide whether a key may be used are in signing_audit.py; here its      *)
(* verdict is a free choice when it is enforced at all.                    *)
(***************************************************************************)
EXTENDS AuditLedger

CONSTANTS
    Workers,      \* signing_worker_loop tasks
    MaxAttempts,  \* MAX_SIGNING_ATTEMPTS, 5 in the code
    DualControl   \* dual control of the key is enforced

ASSUME SigningAssumption ==
    /\ IsFiniteSet(Workers)
    /\ MaxAttempts \in Nat \ {0}
    /\ DualControl \in BOOLEAN

VARIABLES
    worker,       \* where each worker is: [at, pos, copy]
    health,       \* SIGNER_HEALTH["ok"] of the worker's process
    buffer        \* apex:signed_ledger_buffer, what S3 sync consumes

signerVars == <<worker, health, buffer>>
vars == <<ledgerVars, signerVars>>

NoEntry == [req |-> 0, try |-> 0, window |-> NoWindow, prev |-> NoHash, hash |-> NoHash,
            status |-> Pending, attempts |-> 0, sig |-> NoHash]

At(place) == [at |-> place, pos |-> 0, copy |-> NoEntry]

(* The position a worker has taken off the queue and answers for. *)
Held(k) == {worker[k].pos} \ {0}

SignerInit ==
    /\ worker = [k \in Workers |-> At("load")]
    /\ health = [k \in Workers |-> TRUE]
    /\ buffer = <<>>

SInit == Init /\ SignerInit

unchangedByWorker == <<unanswered, idIndex, checkpoints, pc, call, issued>>

Goto(k, place) == worker' = [worker EXCEPT ![k] = [@ EXCEPT !.at = place]]

Done(k)        == worker' = [worker EXCEPT ![k] = At("idle")]
Report(k, ok)  == health' = [health EXCEPT ![k] = ok]

(* _load_signer_for_worker_fn; a failure is retried until it succeeds.     *)
LoadSigner(k) ==
    /\ worker[k].at = "load"
    /\ Done(k)
    /\ Report(k, TRUE)
    /\ UNCHANGED <<ledgerVars, buffer>>

LoadFails(k) ==
    /\ worker[k].at = "load"
    /\ Report(k, FALSE)
    /\ UNCHANGED <<ledgerVars, worker, buffer>>

(* Mutant of QueueAfterPop: the head is only read. *)
PeekQueue == queue

(* BLPOP removes what it returns. *)
QueueAfterPop == Tail(queue)

Pop(k) ==
    /\ worker[k].at = "idle"
    /\ queue # <<>>
    /\ queue' = QueueAfterPop
    /\ worker' = [worker EXCEPT ![k] = [At("read") EXCEPT !.pos = Head(queue)]]
    /\ UNCHANGED <<ledger, watchOk, faults, health, buffer, unchangedByWorker>>

(* What the worker makes of the entry it has read. *)
Verdict(e) ==
    IF e.status = Signed THEN "skip"
    ELSE IF e.attempts >= MaxAttempts THEN Failed
    ELSE IF e.hash # Hash(Id(e), e.prev) THEN Mismatch
    ELSE "sign"

Read(k) ==
    LET e == ledger[worker[k].pos]
        verdict == Verdict(e) IN
    /\ worker[k].at = "read"
    /\ worker' = [worker EXCEPT ![k] =
         IF verdict = "skip" THEN At("idle")
         ELSE IF verdict = "sign" THEN [@ EXCEPT !.at = "approve", !.copy = e]
         ELSE [@ EXCEPT !.at = "store", !.copy = [e EXCEPT !.status = verdict]]]
    /\ UNCHANGED <<ledgerVars, health, buffer>>

(* enforce_kms_dual_control_or_raise passes. *)
Approve(k) ==
    /\ worker[k].at = "approve"
    /\ Goto(k, "sign")
    /\ UNCHANGED <<ledgerVars, health, buffer>>

(* It raises: the position goes back to the queue without an attempt being *)
(* counted; a failure to put it back is swallowed.                         *)
Disapprove(k) ==
    /\ worker[k].at = "approve"
    /\ DualControl
    /\ \/ queue' = Append(queue, worker[k].pos) /\ UNCHANGED faults
       \/ Fault /\ UNCHANGED queue
    /\ Done(k)
    /\ Report(k, FALSE)
    /\ UNCHANGED <<ledger, watchOk, buffer, unchangedByWorker>>

SignOk(k) ==
    LET copy == worker[k].copy IN
    /\ worker[k].at = "sign"
    /\ worker' = [worker EXCEPT ![k] =
         [@ EXCEPT !.at = "store",
                   !.copy = [copy EXCEPT !.status = Signed, !.sig = copy.hash]]]
    /\ UNCHANGED <<ledgerVars, health, buffer>>

(* Mutant of GivenUp: one attempt too many. *)
GivenUpLate(attempts) == attempts > MaxAttempts

(* No attempt is left. *)
GivenUp(attempts) == attempts >= MaxAttempts

SignFails(k) ==
    LET copy == worker[k].copy
        attempts == copy.attempts + 1 IN
    /\ worker[k].at = "sign"
    /\ worker' = [worker EXCEPT ![k] =
         [@ EXCEPT !.at = "store",
                   !.copy = [copy EXCEPT !.attempts = attempts,
                                         !.status = IF GivenUp(attempts) THEN Failed ELSE @]]]
    /\ Report(k, FALSE)
    /\ UNCHANGED <<ledgerVars, buffer>>

(* Mutants of AfterStore: no retry; no push to the buffer. *)
StoreForgets(status)    == IF status = Signed THEN "publish" ELSE "idle"
StoreUnpublished(status) == IF status = Pending THEN "requeue" ELSE "idle"

(* Where the worker goes on after LSET. *)
AfterStore(status) ==
    CASE status = Signed  -> "publish"
      [] status = Pending -> "requeue"
      [] OTHER            -> "idle"

(* Mutant of Target: LSET -1. *)
TargetTail(k) == Len(ledger)

(* LSET overwrites the entry at the position that was popped. *)
Target(k) == worker[k].pos

(* LSET of the whole copy. *)
Store(k) ==
    LET copy == worker[k].copy IN
    /\ worker[k].at = "store"
    /\ ledger' = [ledger EXCEPT ![Target(k)] = copy]
    /\ BreakWatches
    /\ IF AfterStore(copy.status) = "idle" THEN Done(k) ELSE Goto(k, AfterStore(copy.status))
    /\ UNCHANGED <<queue, faults, health, buffer, unchangedByWorker>>

(* Health turns good, then the signed entry is offered to S3 sync; a       *)
(* failure of that push is swallowed.                                      *)
Publish(k) ==
    /\ worker[k].at = "publish"
    /\ Report(k, TRUE)
    /\ \/ buffer' = Append(buffer, worker[k].copy) /\ UNCHANGED faults
       \/ Fault /\ UNCHANGED buffer
    /\ Done(k)
    /\ UNCHANGED <<ledger, queue, watchOk, unchangedByWorker>>

(* After the retry delay. *)
Requeue(k) ==
    /\ worker[k].at = "requeue"
    /\ queue' = Append(queue, worker[k].pos)
    /\ Done(k)
    /\ UNCHANGED <<ledger, watchOk, faults, health, buffer, unchangedByWorker>>

(* A Redis call raises into the handler of the loop: the position in hand  *)
(* is dropped.                                                             *)
WorkerRaises(k) ==
    /\ worker[k].at \notin {"load", "publish"}
    /\ Fault
    /\ Done(k)
    /\ Report(k, FALSE)
    /\ UNCHANGED <<ledger, queue, watchOk, buffer, unchangedByWorker>>

(* The process dies and is started again. *)
WorkerCrash(k) ==
    /\ worker[k].at # "load"
    /\ Fault
    /\ worker' = [worker EXCEPT ![k] = At("load")]
    /\ Report(k, TRUE)
    /\ UNCHANGED <<ledger, queue, watchOk, buffer, unchangedByWorker>>

WorkerStep(k) ==
    \/ LoadSigner(k) \/ LoadFails(k) \/ Pop(k) \/ Read(k) \/ Approve(k) \/ Disapprove(k)
    \/ SignOk(k) \/ SignFails(k) \/ Store(k) \/ Publish(k) \/ Requeue(k)

WorkerFault(k) == WorkerRaises(k) \/ WorkerCrash(k)

LedgerNext == Next /\ UNCHANGED signerVars

SNext == LedgerNext \/ \E k \in Workers : WorkerStep(k) \/ WorkerFault(k)

SSpec == SInit /\ [][SNext]_vars

(* Every call in flight goes on, and every worker does, once its key can   *)
(* be loaded: each is a task of an event loop that keeps running it.       *)
Fairness ==
    /\ \A w \in Writers :
         WF_vars((WriterStep(w) /\ ~Begin(w)) /\ UNCHANGED signerVars)
    /\ \A k \in Workers :
         WF_vars(LoadSigner(k)) /\ WF_vars(WorkerStep(k) /\ ~LoadFails(k))

FairSpec == SSpec /\ Fairness

-----------------------------------------------------------------------------
WorkerPcs == {"load", "idle", "read", "approve", "sign", "store", "publish", "requeue"}

(* The shapes of the state; a worker has a position in hand from BLPOP     *)
(* until it lets go of it.                                                 *)
STypeOK ==
    /\ TypeOK
    /\ health \in [Workers -> BOOLEAN]
    /\ IsSeq(buffer)
    /\ DOMAIN worker = Workers
    /\ \A k \in Workers :
         /\ DOMAIN worker[k] = {"at", "pos", "copy"}
         /\ worker[k].at \in WorkerPcs
         /\ Held(k) \subseteq DOMAIN ledger
         /\ worker[k].at \in {"load", "idle"} <=> worker[k].pos = 0

(* Every position has one ticket, wherever it is: in the queue, in the     *)
(* debt of a writer, or in the hand of one worker.  No two workers ever    *)
(* work on the same entry, and none on one that nobody was told of.        *)
OneTicket ==
    /\ SingleTicket
    /\ \A k \in Workers : Held(k) \cap (Elems(queue) \cup unanswered) = {}
    /\ \A k \in Workers, w \in Writers : Held(k) \cap Debt(w) = {}
    /\ \A j, k \in Workers : j # k => Held(j) \cap Held(k) = {}

(* What holds a ticket is still to be signed, until its worker has signed  *)
(* it and has only to publish it.                                          *)
TicketsPending ==
    /\ \A i \in Elems(queue) \cup UNION {Debt(w) : w \in Writers} : ledger[i].status = Pending
    /\ \A k \in Workers : \A i \in Held(k) :
         ledger[i].status = IF worker[k].at = "publish" THEN Signed ELSE Pending

(* The copy a worker signs and writes back over the entry is not stale: it *)
(* differs from the entry only in what this worker decided, although the   *)
(* entry was read several awaits before.                                   *)
CopyCurrent ==
    \A k \in Workers :
        LET e == ledger[worker[k].pos]
            copy == worker[k].copy
            attempts == e.attempts + 1 IN
        /\ worker[k].at \in {"approve", "sign", "publish", "requeue"} => copy = e
        /\ worker[k].at = "store" =>
             \/ copy = [e EXCEPT !.status = Signed, !.sig = e.hash]
             \/ copy = [e EXCEPT !.attempts = attempts,
                                 !.status = IF attempts = MaxAttempts THEN Failed ELSE Pending]

(* The pipeline's invariant, the ledger's own in it: workers neither fork  *)
(* the chain nor double or share a ticket nor write a stale copy back,     *)
(* although a worker awaits between every two steps (signing_runtime.py).  *)
SigningInv == LedgerInv /\ STypeOK /\ OneTicket /\ TicketsPending /\ CopyCurrent

(* An entry is given up exactly when it has used all its attempts, no      *)
(* entry is ever found to mismatch its hash, and a signature is over the   *)
(* hash the entry has in the chain.                                        *)
VerdictsSound ==
    \A i \in DOMAIN ledger :
        LET e == ledger[i] IN
        /\ e.status # Mismatch
        /\ e.status = Failed <=> e.attempts = MaxAttempts
        /\ e.attempts <= MaxAttempts
        /\ e.sig = IF e.status = Signed THEN e.hash ELSE NoHash

(* Pending entries that no writer, queue or worker will bring forward.     *)
Forgotten == Stranded \ UNION {Held(k) : k \in Workers}

(* Only faults leave an entry unsigned for good: one leaves at most the    *)
(* entry of a call and the anchor entry of its recursive call.             *)
ForgottenOnlyByFaults == Cardinality(Forgotten) <= 2 * faults

(* What S3 sync receives is the signed entry as it stays in the ledger; no *)
(* event is sent twice, not even one that was appended again after a lost  *)
(* reply, and only faults keep a signed entry from it.                     *)
BufferFaithful ==
    /\ \A e \in Elems(buffer) : e.status = Signed /\ e \in Elems(ledger)
    /\ \A i, j \in DOMAIN buffer : buffer[i].req = buffer[j].req => i = j
    /\ Cardinality({i \in DOMAIN ledger :
          /\ ledger[i].status = Signed
          /\ ledger[i] \notin Elems(buffer)
          /\ \A k \in Workers : worker[k].pos # i}) <= faults

(* Entries a call may append after its one look at the backlog. *)
Admitted == IF Interval > 0 /\ MerkleEnabled /\ AnchorsEnabled THEN 2 ELSE 1

(* The backlog is read before the append and a worker requeues without     *)
(* reading it, so the queue can pass its limit; by no more than what the   *)
(* calls in flight had been admitted to append and the workers hold.       *)
BacklogBound ==
    Len(queue) < MaxQueue + Admitted * Cardinality(Writers) + Cardinality(Workers)

(* Without faults every appended entry is signed or given up in the end.   *)
EverySettled ==
    \A i \in 1 .. 2 * MaxRequests :
        i \in DOMAIN ledger ~> (i \in DOMAIN ledger /\ ledger[i].status # Pending)
=============================================================================
