---------------------------- MODULE AuditLedger ----------------------------
(***************************************************************************)
(* Writers of the audit ledger (chimera/ledger_write.py and                *)
(* ledger_primitives.py).  A writer is one call in flight of               *)
(* create_unsigned_ledger_entry, in any of the server processes; every     *)
(* step between two awaits is one action.  The Redis lists                 *)
(* apex:audit_ledger, apex:audit_checkpoints and the signing queue are     *)
(* shared; WATCH is optimistic: any write of the ledger key by anybody     *)
(* makes the watcher's EXEC fail.                                          *)
(***************************************************************************)
EXTENDS LedgerTypes, FiniteSets

CONSTANTS
    Writers,         \* calls that may be in flight together
    MaxQueue,        \* APEX_MAX_UNSIGNED_QUEUE
    Interval,        \* APEX_LEDGER_CHECKPOINT_INTERVAL, 0 switches checkpoints off
    MaxRetries,      \* max_retries, 8 in the code
    MerkleEnabled,   \* APEX_ENABLE_MERKLE_CHECKPOINTS
    AnchorsEnabled,  \* APEX_ENABLE_ANCHOR_ENTRIES
    BucketSet,       \* APEX_LEDGER_CHECKPOINT_BUCKET is configured
    MaxRequests,     \* bound of the model: calls begun
    MaxFaults        \* bound of the model: crashes and failed calls of Redis or S3

ASSUME LedgerAssumption ==
    /\ IsFiniteSet(Writers)
    /\ MaxQueue \in Nat /\ Interval \in Nat /\ MaxRetries \in Nat \ {0}
    /\ MerkleEnabled \in BOOLEAN /\ AnchorsEnabled \in BOOLEAN /\ BucketSet \in BOOLEAN
    /\ MaxRequests \in Nat /\ MaxFaults \in Nat

VARIABLES
    ledger,       \* apex:audit_ledger
    unanswered,   \* positions appended by an EXEC whose reply was lost
    idIndex,      \* apex:ledger:index:{entry_id}: pairs <<entry_id, position>>
    checkpoints,  \* apex:audit_checkpoints
    queue,        \* apex:signing_queue: positions
    pc,           \* where each writer is
    call,         \* the local variables of each writer
    watchOk,      \* nobody wrote the ledger key since the writer's WATCH
    issued,       \* payloads made so far, by callers and for anchors
    faults        \* faults so far

ledgerVars == <<ledger, unanswered, idIndex, checkpoints, queue, pc, call, watchOk, issued, faults>>

(* Locals of create_unsigned_ledger_entry: payload, loop variable,         *)
(* prev_hash and index.  While the recursive call for an anchor runs,      *)
(* nested holds, window is what the anchor records, and inner is the       *)
(* recursive call's own index.                                             *)
IdleCall == [req |-> 0, attempt |-> 0, seen |-> NoHash, slot |-> 0,
             inner |-> 0, window |-> NoWindow, nested |-> FALSE]

Init ==
    /\ ledger = <<>> /\ unanswered = {} /\ idIndex = {} /\ checkpoints = <<>> /\ queue = <<>>
    /\ pc = [w \in Writers |-> "idle"]
    /\ call = [w \in Writers |-> IdleCall]
    /\ watchOk = [w \in Writers |-> FALSE]
    /\ issued = 0 /\ faults = 0

(* Any write of apex:audit_ledger invalidates every WATCH of it. *)
BreakWatches == watchOk' = [w \in Writers |-> FALSE]

Fault == faults < MaxFaults /\ faults' = faults + 1

(* Mutant of Critical: the limit is tested one entry late. *)
CriticalLate == Len(queue) > MaxQueue

(* get_unsigned_backlog_status: is_critical. *)
Critical == Len(queue) >= MaxQueue

(***************************************************************************)
(* The call.  It reads the backlog once; a critical backlog raises         *)
(* LedgerBackpressureError and changes nothing.                            *)
(***************************************************************************)
Begin(w) ==
    /\ pc[w] = "idle"
    /\ issued < MaxRequests
    /\ ~Critical
    /\ issued' = issued + 1
    /\ call' = [call EXCEPT ![w] = [IdleCall EXCEPT !.req = issued + 1]]
    /\ pc' = [pc EXCEPT ![w] = "watch"]
    /\ UNCHANGED <<ledger, unanswered, idIndex, checkpoints, queue, watchOk, faults>>

(* WATCH and LINDEX -1.  A write between the two is a write after WATCH,   *)
(* so reading both at once loses no behaviour.                             *)
Watch(w) ==
    /\ pc[w] = "watch"
    /\ call' = [call EXCEPT ![w] = [@ EXCEPT !.seen = LastHash(ledger)]]
    /\ watchOk' = [watchOk EXCEPT ![w] = TRUE]
    /\ pc' = [pc EXCEPT ![w] = "exec"]
    /\ UNCHANGED <<ledger, unanswered, idIndex, checkpoints, queue, issued, faults>>

(* Mutant of WatchHolds: RPUSH without WATCH. *)
Unwatched(w) == TRUE

(* EXEC succeeds only while nobody has written the key since WATCH. *)
WatchHolds(w) == watchOk[w]

NewEntry(w) ==
    [req      |-> call[w].req,
     try      |-> call[w].attempt,
     window   |-> call[w].window,
     prev     |-> call[w].seen,
     hash     |-> Hash(<<call[w].req, call[w].attempt>>, call[w].seen),
     status   |-> Pending,
     attempts |-> 0,
     sig      |-> NoHash]

(* allow_checkpoint and the length is a multiple of the interval. *)
CheckpointDue(w, length) ==
    /\ ~call[w].nested
    /\ Interval > 0
    /\ length % Interval = 0

(* Mutant of AfterAppend: retries although EXEC succeeded. *)
RetryAfterAppend(w, length) == "watch"

AfterAppend(w, length) == IF CheckpointDue(w, length) THEN "checkpoint" ELSE "enqueue"

(* apex:ledger:index:{entry_id}. *)
IndexItem(w, length) == <<<<call[w].req, call[w].attempt>>, length>>

(* MULTI, RPUSH, EXEC while the watch holds, then the best-effort          *)
(* SET NX of the entry_id index, whose failure is a fault of its own.      *)
ExecAppend(w) ==
    LET length == Len(ledger) + 1 IN
    /\ pc[w] = "exec"
    /\ WatchHolds(w)
    /\ ledger' = Append(ledger, NewEntry(w))
    /\ BreakWatches
    /\ \/ idIndex' = idIndex \cup {IndexItem(w, length)} /\ UNCHANGED faults
       \/ Fault /\ UNCHANGED idIndex
    /\ call' = [call EXCEPT ![w] = IF @.nested THEN [@ EXCEPT !.inner = length]
                                               ELSE [@ EXCEPT !.slot = length]]
    /\ pc' = [pc EXCEPT ![w] = AfterAppend(w, length)]
    /\ UNCHANGED <<unanswered, checkpoints, queue, issued>>

(* Mutant of AfterAnchor: the recursive call's index is kept. *)
AnchorKeepsInner(w) == [call[w] EXCEPT !.nested = FALSE, !.window = NoWindow]

(* The locals once the recursive call has returned or raised: the caller   *)
(* swallows its exceptions and goes on to enqueue its own index.           *)
AfterAnchor(w) == [call[w] EXCEPT !.nested = FALSE, !.inner = 0, !.window = NoWindow]

(* Mutant of Again: every attempt writes the id of the first. *)
SameId(w) == [call[w] EXCEPT !.seen = NoHash]

(* The locals of the next attempt. *)
Again(w) == [call[w] EXCEPT !.attempt = call[w].attempt + 1, !.seen = NoHash]

(* except WatchError: back off and retry; the last retry raises            *)
(* RuntimeError.                                                           *)
Retry(w) ==
    IF call[w].attempt + 1 < MaxRetries
    THEN /\ call' = [call EXCEPT ![w] = Again(w)]
         /\ pc' = [pc EXCEPT ![w] = "watch"]
    ELSE /\ call' = [call EXCEPT ![w] = IF @.nested THEN AfterAnchor(w) ELSE IdleCall]
         /\ pc' = [pc EXCEPT ![w] = IF call[w].nested THEN "enqueue" ELSE "idle"]

(* EXEC finds that the key was written since WATCH. *)
ExecConflict(w) ==
    /\ pc[w] = "exec"
    /\ ~WatchHolds(w)
    /\ Retry(w)
    /\ UNCHANGED <<ledger, unanswered, idIndex, checkpoints, queue, watchOk, issued, faults>>

(* While a key is watched redis-py turns a ConnectionError or TimeoutError *)
(* of LINDEX or EXEC into a WatchError too.  Here nothing was appended.    *)
ConnectionLost(w) ==
    /\ pc[w] = "exec"
    /\ Fault
    /\ Retry(w)
    /\ UNCHANGED <<ledger, unanswered, idIndex, checkpoints, queue, watchOk, issued>>

(* Here EXEC took effect and only its reply was lost: the entry is in the  *)
(* ledger, nobody knows its position, and the request is appended again.   *)
ReplyLost(w) ==
    /\ pc[w] = "exec"
    /\ WatchHolds(w)
    /\ Fault
    /\ ledger' = Append(ledger, NewEntry(w))
    /\ unanswered' = unanswered \cup {Len(ledger) + 1}
    /\ BreakWatches
    /\ Retry(w)
    /\ UNCHANGED <<idIndex, checkpoints, queue, issued>>

-----------------------------------------------------------------------------
(* max(0, index - interval + 1), counted from 1. *)
WindowStart(index) == IF index < Interval THEN 1 ELSE index - Interval + 1

(* Mutant of WindowAt: the window reaches to the end of the list. *)
WindowToTail(index) == [first |-> WindowStart(index), last |-> Len(ledger),
                        root |-> Leaves(ledger, WindowStart(index), Len(ledger))]

WindowAt(index) ==
    IF MerkleEnabled
    THEN [first |-> WindowStart(index), last |-> index,
          root  |-> Leaves(ledger, WindowStart(index), index)]
    ELSE NoWindow

CheckpointOf(index, window) == [count |-> index, window |-> window]

(* LRANGE of the window, the Merkle root, write_checkpoint.  The range is  *)
(* read in the step that pushes the checkpoint: hashes never change.       *)
Checkpoint(w) ==
    LET window == WindowAt(call[w].slot) IN
    /\ pc[w] = "checkpoint"
    /\ checkpoints' = Append(checkpoints, CheckpointOf(call[w].slot, window))
    /\ call' = [call EXCEPT ![w] = [@ EXCEPT !.window = window]]
    /\ pc' = [pc EXCEPT ![w] = IF AnchorsEnabled /\ MerkleEnabled THEN "anchor" ELSE "enqueue"]
    /\ UNCHANGED <<ledger, unanswered, idIndex, queue, watchOk, issued, faults>>

(* Reading the window failed: a checkpoint without a root, and no anchor.  *)
CheckpointRootless(w) ==
    /\ pc[w] = "checkpoint"
    /\ MerkleEnabled
    /\ Fault
    /\ checkpoints' = Append(checkpoints,
                             CheckpointOf(call[w].slot, [WindowAt(call[w].slot) EXCEPT !.root = <<>>]))
    /\ pc' = [pc EXCEPT ![w] = "enqueue"]
    /\ UNCHANGED <<ledger, unanswered, idIndex, queue, call, watchOk, issued>>

(* The checkpoint is in Redis but its copy to S3 raises: the call ends     *)
(* without queueing the entry it has already appended.                     *)
CheckpointUploadFails(w) ==
    /\ pc[w] = "checkpoint"
    /\ BucketSet
    /\ Fault
    /\ checkpoints' = Append(checkpoints, CheckpointOf(call[w].slot, WindowAt(call[w].slot)))
    /\ call' = [call EXCEPT ![w] = IdleCall]
    /\ pc' = [pc EXCEPT ![w] = "idle"]
    /\ UNCHANGED <<ledger, unanswered, idIndex, queue, watchOk, issued>>

(* The recursive call that appends the MERKLE_ANCHOR entry; it is dropped  *)
(* when the backlog is critical.                                           *)
Anchor(w) ==
    /\ pc[w] = "anchor"
    /\ IF Critical
       THEN /\ call' = [call EXCEPT ![w] = AfterAnchor(w)]
            /\ pc' = [pc EXCEPT ![w] = "enqueue"]
            /\ UNCHANGED issued
       ELSE /\ call' = [call EXCEPT ![w] = [@ EXCEPT !.nested = TRUE, !.req = issued + 1,
                                                     !.attempt = 0, !.seen = NoHash]]
            /\ pc' = [pc EXCEPT ![w] = "watch"]
            /\ issued' = issued + 1
    /\ UNCHANGED <<ledger, unanswered, idIndex, checkpoints, queue, watchOk, faults>>

-----------------------------------------------------------------------------
(* enqueue_for_signing and return, to the caller or, from the recursive    *)
(* call, to the call that made it.                                         *)
Enqueue(w) ==
    /\ pc[w] = "enqueue"
    /\ IF call[w].nested
       THEN /\ queue' = Append(queue, call[w].inner)
            /\ call' = [call EXCEPT ![w] = AfterAnchor(w)]
            /\ UNCHANGED pc
       ELSE /\ queue' = Append(queue, call[w].slot)
            /\ call' = [call EXCEPT ![w] = IdleCall]
            /\ pc' = [pc EXCEPT ![w] = "idle"]
    /\ UNCHANGED <<ledger, unanswered, idIndex, checkpoints, watchOk, issued, faults>>

(* The process dies or its task is cancelled, or a Redis call of the outer *)
(* call that is not under WATCH raises: the call ends where it is.         *)
Abandon(w) ==
    /\ pc[w] # "idle"
    /\ Fault
    /\ call' = [call EXCEPT ![w] = IdleCall]
    /\ watchOk' = [watchOk EXCEPT ![w] = FALSE]
    /\ pc' = [pc EXCEPT ![w] = "idle"]
    /\ UNCHANGED <<ledger, unanswered, idIndex, checkpoints, queue, issued>>

(* A Redis call of the recursive call raises: except Exception: pass.      *)
AnchorRaises(w) ==
    /\ call[w].nested
    /\ Fault
    /\ call' = [call EXCEPT ![w] = AfterAnchor(w)]
    /\ watchOk' = [watchOk EXCEPT ![w] = FALSE]
    /\ pc' = [pc EXCEPT ![w] = "enqueue"]
    /\ UNCHANGED <<ledger, unanswered, idIndex, checkpoints, queue, issued>>

WriterStep(w) ==
    \/ Begin(w) \/ Watch(w) \/ ExecAppend(w) \/ ExecConflict(w)
    \/ Checkpoint(w) \/ Anchor(w) \/ Enqueue(w)

WriterFault(w) ==
    \/ ConnectionLost(w) \/ ReplyLost(w)
    \/ CheckpointRootless(w) \/ CheckpointUploadFails(w)
    \/ Abandon(w) \/ AnchorRaises(w)

Next == \E w \in Writers : WriterStep(w) \/ WriterFault(w)

Spec == Init /\ [][Next]_ledgerVars

-----------------------------------------------------------------------------
WriterPcs == {"idle", "watch", "exec", "checkpoint", "anchor", "enqueue"}

(* Positions a writer has appended and not yet queued. *)
Debt(w) == {call[w].slot, call[w].inner} \ {0}

EntryFields == {"req", "try", "window", "prev", "hash", "status", "attempts", "sig"}

CallFields == {"req", "attempt", "seen", "slot", "inner", "window", "nested"}

EntryOK(e) ==
    /\ DOMAIN e = EntryFields
    /\ e.status \in Statuses
    /\ e.attempts \in Nat
    /\ e.req \in 1 .. issued /\ e.try \in 0 .. (MaxRetries - 1)

(* The locals each program point has.                                      *)
CallOK(w) ==
    /\ DOMAIN call[w] = CallFields
    /\ call[w].req \in 0 .. issued
    /\ call[w].attempt \in 0 .. (MaxRetries - 1)
    /\ call[w].nested \in BOOLEAN
    /\ call[w].slot \in Nat /\ call[w].inner \in Nat
    /\ Debt(w) \subseteq DOMAIN ledger
    /\ pc[w] # "idle" => call[w].req # 0
    /\ pc[w] = "idle" => call[w].slot = 0
    /\ pc[w] \in {"checkpoint", "anchor", "enqueue"} => call[w].slot # 0
    /\ pc[w] \in {"watch", "exec"} => (call[w].nested <=> call[w].slot # 0)
    /\ call[w].nested => pc[w] \in {"watch", "exec", "enqueue"}
    /\ call[w].inner # 0 <=> call[w].nested /\ pc[w] = "enqueue"

(* The shapes of the state: positions in the queue and in the locals point *)
(* into the ledger, and the locals are the ones each program point has.    *)
TypeOK ==
    /\ IsSeq(ledger) /\ IsSeq(queue) /\ IsSeq(checkpoints)
    /\ \A i \in DOMAIN ledger : EntryOK(ledger[i])
    /\ Elems(queue) \subseteq DOMAIN ledger
    /\ unanswered \subseteq DOMAIN ledger
    /\ idIndex \subseteq ((1 .. issued) \X (0 .. (MaxRetries - 1))) \X DOMAIN ledger
    /\ pc \in [Writers -> WriterPcs]
    /\ watchOk \in [Writers -> BOOLEAN]
    /\ issued \in Nat /\ faults \in 0 .. MaxFaults
    /\ DOMAIN call = Writers
    /\ \A w \in Writers : CallOK(w)

(* The hash chain: every entry is linked to its predecessor.  Concurrent   *)
(* calls in several processes, retries and signing updates must not fork   *)
(* or break it (create_unsigned_ledger_entry, WATCH to EXEC).              *)
ChainIntact == \A i \in DOMAIN ledger : LinkOK(ledger, i)

(* An event is appended again only after an append whose reply was lost:   *)
(* a call learns of at most one entry, its last, however often it is       *)
(* retried, and no two entries share an entry_id (the retry loop of        *)
(* create_unsigned_ledger_entry).                                          *)
RepeatsOnlyUnanswered ==
    \A i, j \in DOMAIN ledger :
        /\ i < j /\ ledger[i].req = ledger[j].req => i \in unanswered
        /\ Id(ledger[i]) = Id(ledger[j]) => i = j

(* create_unsigned_ledger_entry promises in its docstring one entry_id per *)
(* logical event: two entries of one event would carry the same id.  The   *)
(* loop makes a new one for each attempt.                                  *)
OneIdPerEvent ==
    \A i, j \in DOMAIN ledger :
        ledger[i].req = ledger[j].req => Id(ledger[i]) = Id(ledger[j])

(* A position is promised to the signer by at most one ticket: a place in  *)
(* the queue or the debt of one writer.  A position nobody was told of has *)
(* none.                                                                   *)
SingleTicket ==
    /\ \A i, j \in DOMAIN queue : queue[i] = queue[j] => i = j
    /\ Elems(queue) \cap unanswered = {}
    /\ \A w \in Writers : Debt(w) \cap (Elems(queue) \cup unanswered) = {}
    /\ \A v, w \in Writers : v # w => Debt(v) \cap Debt(w) = {}
    /\ \A w \in Writers : call[w].slot # 0 => call[w].slot # call[w].inner

(* What makes the above inductive.  The prev_hash a writer is about to use *)
(* is the hash of the tail while its watch holds; the request it is about  *)
(* to append is in no other writer's hands, and in an entry only by an     *)
(* earlier attempt whose reply was lost.                                   *)
SeenFresh ==
    \A w \in Writers : pc[w] = "exec" /\ watchOk[w] => call[w].seen = LastHash(ledger)

Unwritten(w) == pc[w] \in {"watch", "exec"}

RequestsFresh ==
    \A w \in Writers : Unwritten(w) =>
        /\ \A i \in DOMAIN ledger : ledger[i].req = call[w].req =>
              i \in unanswered /\ ledger[i].try < call[w].attempt
        /\ \A v \in Writers \ {w} : Unwritten(v) => call[v].req # call[w].req

(* The inductive invariant of the writers.                                 *)
LedgerInv ==
    /\ TypeOK
    /\ ChainIntact /\ SeenFresh
    /\ RepeatsOnlyUnanswered /\ RequestsFresh
    /\ SingleTicket

(* Pending entries nobody will ever sign.                                  *)
Stranded == {i \in DOMAIN ledger : /\ ledger[i].status = Pending
                                   /\ i \notin Elems(queue)
                                   /\ \A w \in Writers : i \notin Debt(w)}

(* Every checkpoint with a window covers one full interval that ends at    *)
(* the entry that triggered it, its root is the root of the hashes that    *)
(* are in the ledger now, and no two checkpoints are for the same entry.   *)
CheckpointsFaithful ==
    /\ \A c \in Elems(checkpoints) :
         /\ c.count \in DOMAIN ledger
         /\ c.count % Interval = 0
         /\ c.window # NoWindow =>
              /\ c.window.last = c.count
              /\ c.window.first = c.count - Interval + 1
              /\ c.window.root \in {<<>>, Leaves(ledger, c.window.first, c.window.last)}
    /\ \A i, j \in DOMAIN checkpoints : checkpoints[i].count = checkpoints[j].count => i = j

(* An anchor entry comes after the window it anchors, repeats a checkpoint *)
(* that is already written, and its root is the one GET /verify recomputes *)
(* from the ledger (ledger_verify_routes.py).                              *)
AnchorsFaithful ==
    \A i \in DOMAIN ledger :
        LET window == ledger[i].window IN
        window # NoWindow =>
            /\ window.last < i
            /\ CheckpointOf(window.last, window) \in Elems(checkpoints)
            /\ window.root = Leaves(ledger, window.first, window.last)

(* Where a checkpoint is due it is written, or being written, unless the   *)
(* entry there is itself an anchor or a fault ended the call.              *)
CheckpointsWhereDue ==
    (faults = 0 /\ Interval > 0) =>
        \A i \in DOMAIN ledger : i % Interval = 0 =>
            \/ ledger[i].window # NoWindow
            \/ \E c \in Elems(checkpoints) : c.count = i
            \/ \E w \in Writers : pc[w] = "checkpoint" /\ call[w].slot = i

(* The entry_id index leads to the entry of that id.                       *)
LookupSound == \A p \in idIndex : Id(ledger[p[2]]) = p[1]

(* Everything derived from the ledger still agrees with it, although each  *)
(* piece is written some awaits after the entry it describes: checkpoints, *)
(* anchors and the entry_id index (ledger_write.py, ledger_primitives.py). *)
(* And without a fault no checkpoint that is due is missing.               *)
DerivedDataFaithful ==
    CheckpointsFaithful /\ CheckpointsWhereDue /\ AnchorsFaithful /\ LookupSound

(* The ledger as a log of settled and pending entries. *)
LogView == [i \in 1 .. Len(ledger) |->
              [req |-> ledger[i].req, try |-> ledger[i].try, prev |-> ledger[i].prev,
               hash |-> ledger[i].hash, status |-> ledger[i].status]]

Abstract == INSTANCE AuditLog WITH log <- LogView, unanswered <- unanswered

(* The writers implement the abstract log.                                 *)
ImplementsLog == Abstract!Spec
=============================================================================
