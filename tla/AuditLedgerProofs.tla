-------------------------- MODULE AuditLedgerProofs --------------------------
(***************************************************************************)
(* Theorems about the ledger writers, for any number of them and any       *)
(* values of the constants.                                                *)
(***************************************************************************)
EXTENDS AuditLedger, SequenceTheorems, TLAPS

(* What the operators on Redis lists do to a sequence: RPUSH is Append,    *)
(* LPOP is Head and Tail, LSET is EXCEPT.  The lemmas are about sequences  *)
(* of any values, because a hash contains the hashes before it and so has  *)
(* no type.                                                                *)

(* The domain of a sequence is 1 .. Len. *)
LEMMA SeqFacts ==
    ASSUME NEW s, IsSeq(s)
    PROVE  /\ Len(s) \in Nat
           /\ DOMAIN s = 1 .. Len(s)
           /\ s = <<>> <=> Len(s) = 0
BY DEF IsSeq

(* A function on 1 .. n is a sequence of length n. *)
LEMMA SeqFromFunction ==
    ASSUME NEW n \in Nat, NEW f, f = [i \in 1 .. n |-> f[i]]
    PROVE  IsSeq(f) /\ Len(f) = n
<1>1. f \in [1 .. n -> Elems(f)]
  BY DEF Elems
<1>2. f \in Seq(Elems(f))
  BY <1>1, IsASeq
<1> QED
  BY <1>2 DEF IsSeq

(* The empty list is a sequence without elements. *)
LEMMA EmptyFacts ==
    ASSUME NEW s, s = <<>>
    PROVE  IsSeq(s) /\ Len(s) = 0 /\ DOMAIN s = {} /\ Elems(s) = {}
<1>1. s \in Seq({}) /\ Len(s) = 0 /\ DOMAIN s = {}
  OBVIOUS
<1>2. Elems(s) = {}
  BY <1>1 DEF Elems
<1> QED
  BY <1>1, <1>2 DEF IsSeq

(* RPUSH adds one element at the end and keeps the others. *)
LEMMA AppendFacts ==
    ASSUME NEW s, IsSeq(s), NEW e
    PROVE  /\ IsSeq(Append(s, e))
           /\ Len(Append(s, e)) = Len(s) + 1
           /\ DOMAIN Append(s, e) = 1 .. Len(s) + 1
           /\ Append(s, e)[Len(s) + 1] = e
           /\ \A i \in 1 .. Len(s) : Append(s, e)[i] = s[i]
           /\ Elems(Append(s, e)) = Elems(s) \cup {e}
<1> DEFINE S == Elems(s) \cup {e}
           t == Append(s, e)
<1>1. s \in Seq(S) /\ Len(s) \in Nat /\ DOMAIN s = 1 .. Len(s)
  BY DEF IsSeq
<1>2. /\ t \in Seq(S) /\ Len(t) = Len(s) + 1 /\ t[Len(s) + 1] = e
      /\ \A i \in 1 .. Len(s) : t[i] = s[i]
  BY <1>1
<1>3. DOMAIN t = 1 .. Len(s) + 1
  BY <1>1, <1>2
<1>4. Elems(t) = S
  <2>1. ASSUME NEW x \in Elems(t) PROVE x \in S
    BY <1>1, <1>2, <1>3, <2>1 DEF Elems
  <2>2. ASSUME NEW i \in DOMAIN s PROVE s[i] \in Elems(t)
    BY <1>1, <1>2, <1>3 DEF Elems
  <2>3. e \in Elems(t)
    BY <1>1, <1>2, <1>3 DEF Elems
  <2> QED
    BY <2>1, <2>2, <2>3 DEF Elems
<1>5. IsSeq(t)
  BY <1>2, <1>4 DEF IsSeq
<1> QED
  BY <1>1, <1>2, <1>3, <1>4, <1>5

(* BLPOP takes the head; the tail holds the other elements, in order. *)
LEMMA TailFacts ==
    ASSUME NEW s, IsSeq(s), s # <<>>
    PROVE  /\ IsSeq(Tail(s))
           /\ Head(s) = s[1] /\ 1 \in DOMAIN s
           /\ Len(Tail(s)) = Len(s) - 1 /\ DOMAIN Tail(s) = 1 .. Len(s) - 1
           /\ \A i \in 1 .. Len(s) - 1 : Tail(s)[i] = s[i + 1]
           /\ Elems(Tail(s)) \subseteq Elems(s)
<1> DEFINE S == Elems(s)
           t == Tail(s)
<1>1. s \in Seq(S) /\ Len(s) \in Nat /\ DOMAIN s = 1 .. Len(s) /\ Len(s) # 0
  BY DEF IsSeq
<1>2. /\ t \in Seq(S) /\ Len(t) = Len(s) - 1 /\ Head(s) = s[1]
      /\ \A i \in 1 .. Len(s) - 1 : t[i] = s[i + 1]
  BY <1>1
<1>3. DOMAIN t = 1 .. Len(s) - 1
  BY <1>1, <1>2
<1>4. IsSeq(t)
  <2>1. t \in [1 .. Len(t) -> S] /\ Len(t) \in Nat
    BY <1>1, <1>2, LenProperties
  <2> QED
    BY <2>1, SeqFromFunction
<1>5. Elems(t) \subseteq Elems(s)
  BY <1>1, <1>2, <1>3 DEF Elems
<1> QED
  BY <1>1, <1>2, <1>3, <1>4, <1>5

(* LSET leaves a sequence of the same length.                              *)
LEMMA SetFacts ==
    ASSUME NEW s, IsSeq(s), NEW t, t = [i \in DOMAIN s |-> t[i]]
    PROVE  IsSeq(t) /\ Len(t) = Len(s) /\ DOMAIN t = DOMAIN s
<1>1. Len(s) \in Nat /\ DOMAIN s = 1 .. Len(s)
  BY SeqFacts
<1> QED
  BY <1>1, SeqFromFunction

-----------------------------------------------------------------------------

(* The locals of a writer without a call.                                  *)
LEMMA IdleFacts ==
    /\ DOMAIN IdleCall = CallFields /\ IdleCall.req = 0 /\ IdleCall.attempt = 0
    /\ IdleCall.nested \in BOOLEAN /\ ~IdleCall.nested
    /\ IdleCall.slot = 0 /\ IdleCall.inner = 0
BY DEF IdleCall, CallFields

(* Empty lists and idle writers have the right shapes.                     *)
LEMMA InitType == LedgerAssumption /\ Init => TypeOK
<1> SUFFICES ASSUME LedgerAssumption, Init PROVE TypeOK
  OBVIOUS
<1>1. \A w \in Writers : CallOK(w)
  <2> TAKE w \in Writers
  <2>1. call[w] = IdleCall /\ pc[w] = "idle" /\ issued = 0
    BY DEF Init
  <2>2. 0 \in 0 .. MaxRetries - 1
    BY DEF LedgerAssumption
  <2> QED
    BY <2>1, <2>2, IdleFacts DEF CallOK, Debt
<1>2. /\ IsSeq(ledger) /\ DOMAIN ledger = {} /\ IsSeq(queue) /\ Elems(queue) = {}
      /\ IsSeq(checkpoints)
  BY EmptyFacts DEF Init
<1> QED
  BY <1>1, <1>2 DEF LedgerAssumption, Init, TypeOK, WriterPcs

(* A call that a step of another does not touch keeps its shape while the  *)
(* ledger and the payload counter grow.                                    *)
LEMMA CallStable ==
    ASSUME NEW v, CallOK(v), issued \in Nat, issued' \in Nat, issued <= issued',
           DOMAIN ledger \subseteq DOMAIN ledger',
           UNCHANGED <<pc[v], call[v]>>
    PROVE  CallOK(v)'
BY DEF CallOK, Debt

(* A writer that becomes idle or begins its first attempt.                 *)
LEMMA FreshCallType ==
    ASSUME LedgerAssumption, issued' \in Nat, NEW w,
           \/ pc'[w] = "idle" /\ call'[w] = IdleCall
           \/ pc'[w] = "watch" /\ call'[w] = [IdleCall EXCEPT !.req = issued'] /\ issued' # 0
    PROVE  CallOK(w)'
<1>1. /\ DOMAIN call'[w] = CallFields /\ call'[w].attempt = 0
      /\ ~call'[w].nested /\ call'[w].slot = 0 /\ call'[w].inner = 0
      /\ \/ pc'[w] = "idle" /\ call'[w].req = 0
         \/ pc'[w] = "watch" /\ call'[w].req = issued' /\ issued' # 0
  BY IdleFacts DEF CallFields
<1>2. Debt(w)' = {} /\ 0 \in 0 .. MaxRetries - 1
  BY <1>1 DEF Debt, LedgerAssumption
<1>3. call'[w].nested \in BOOLEAN
  BY IdleFacts DEF CallFields
<1> QED
  BY <1>1, <1>2, <1>3 DEF CallOK

(* A writer whose recursive call has ended: only its own index is left.    *)
LEMMA AnchorDoneType ==
    ASSUME NEW w, CallOK(w), pc[w] # "idle", call[w].slot # 0,
           UNCHANGED issued, DOMAIN ledger \subseteq DOMAIN ledger',
           pc'[w] = "enqueue", call'[w] = AfterAnchor(w)
    PROVE  CallOK(w)'
<1>1. /\ DOMAIN call'[w] = CallFields
      /\ call'[w].req = call[w].req /\ call'[w].attempt = call[w].attempt
      /\ call'[w].slot = call[w].slot /\ call'[w].inner = 0
  BY DEF CallOK, CallFields, AfterAnchor
<1>2. ~call'[w].nested /\ call'[w].nested \in BOOLEAN
  BY DEF CallOK, CallFields, AfterAnchor
<1>3. Debt(w)' \subseteq Debt(w)
  BY <1>1 DEF Debt
<1> QED
  BY <1>1, <1>2, <1>3 DEF CallOK

(* A new call has a fresh payload and no index yet.                        *)
LEMMA BeginType ==
    ASSUME LedgerAssumption, TypeOK, NEW w \in Writers, Begin(w)
    PROVE  TypeOK'
<1>1. /\ issued' \in Nat /\ issued <= issued' /\ 0 < issued'
      /\ pc' \in [Writers -> WriterPcs] /\ pc'[w] = "watch"
      /\ call'[w] = [IdleCall EXCEPT !.req = issued'] /\ DOMAIN call' = Writers
  BY DEF TypeOK, WriterPcs, Begin
<1>2. CallOK(w)'
  BY <1>1, FreshCallType
<1>3. \A v \in Writers \ {w} : CallOK(v)'
  BY <1>1, CallStable DEF TypeOK, Begin
<1> QED
  BY <1>1, <1>2, <1>3 DEF TypeOK, EntryOK, Begin

(* WATCH and LINDEX only set prev_hash.                                    *)
LEMMA WatchType ==
    ASSUME LedgerAssumption, TypeOK, NEW w \in Writers, Watch(w)
    PROVE  TypeOK'
<1> USE DEF Watch, LedgerAssumption
<1>1. pc' \in [Writers -> WriterPcs] /\ watchOk' \in [Writers -> BOOLEAN]
  BY DEF TypeOK, WriterPcs
<1>2. CallOK(w)'
  <2>1. /\ DOMAIN call'[w] = CallFields /\ call'[w].req = call[w].req
        /\ call'[w].attempt = call[w].attempt /\ call'[w].nested \in BOOLEAN /\ (call'[w].nested <=> call[w].nested)
        /\ call'[w].slot = call[w].slot /\ call'[w].inner = call[w].inner
        /\ pc'[w] = "exec"
    BY DEF TypeOK, CallOK, CallFields
  <2> QED
    BY <2>1 DEF TypeOK, CallOK, Debt
<1>3. \A v \in Writers \ {w} : CallOK(v)'
  BY CallStable DEF TypeOK
<1> QED
  BY <1>1, <1>2, <1>3 DEF TypeOK, EntryOK

(* What a writer is about to append has the shape of an entry.             *)
LEMMA NewEntryOK ==
    ASSUME TypeOK, NEW w \in Writers, pc[w] = "exec"
    PROVE  /\ EntryOK(NewEntry(w))
           /\ <<call[w].req, call[w].attempt>> \in (1 .. issued) \X (0 .. (MaxRetries - 1))
<1>1. /\ DOMAIN NewEntry(w) = EntryFields /\ NewEntry(w).status = Pending
      /\ NewEntry(w).attempts = 0 /\ NewEntry(w).req = call[w].req
      /\ NewEntry(w).try = call[w].attempt
  BY DEF NewEntry, EntryFields
<1>2. call[w].req \in 1 .. issued /\ Pending \in Statuses
  BY SMTT(30) DEF Statuses, TypeOK, CallOK
<1>3. call[w].attempt \in 0 .. (MaxRetries - 1)
  BY DEF TypeOK, CallOK
<1> QED
  BY <1>1, <1>2, <1>3 DEF EntryOK

(* EXEC adds an entry of the right shape and gives the call its index.     *)
LEMMA ExecAppendType ==
    ASSUME LedgerAssumption, TypeOK, NEW w \in Writers, ExecAppend(w)
    PROVE  TypeOK'
<1> DEFINE length == Len(ledger) + 1
<1>1. /\ IsSeq(ledger') /\ DOMAIN ledger' = 1 .. length /\ length \in Nat
      /\ DOMAIN ledger = 1 .. Len(ledger) /\ Len(ledger) \in Nat
      /\ ledger'[length] = NewEntry(w)
      /\ \A i \in DOMAIN ledger : ledger'[i] = ledger[i]
  BY AppendFacts, SeqFacts DEF TypeOK, ExecAppend
<1>2. (\A i \in DOMAIN ledger : EntryOK(ledger[i]))'
  <2>1. issued' = issued /\ \A i \in DOMAIN ledger : EntryOK(ledger[i])
    BY DEF TypeOK, ExecAppend
  <2>2. EntryOK(NewEntry(w))
    BY NewEntryOK DEF ExecAppend
  <2>3. \A i \in DOMAIN ledger' : EntryOK(ledger'[i])
    BY <1>1, <2>1, <2>2
  <2> QED
    BY <2>1, <2>3 DEF EntryOK
<1>3. /\ idIndex' \subseteq ((1 .. issued') \X (0 .. (MaxRetries - 1))) \X DOMAIN ledger'
      /\ faults' \in 0 .. MaxFaults /\ unanswered' \subseteq DOMAIN ledger'
  <2> DEFINE Ids == (1 .. issued) \X (0 .. (MaxRetries - 1))
  <2>1. <<call[w].req, call[w].attempt>> \in Ids
    BY NewEntryOK, Zenon DEF ExecAppend
  <2> HIDE DEF Ids
  <2>2. IndexItem(w, length) \in Ids \X DOMAIN ledger' /\ issued' = issued
    <3>1. length \in DOMAIN ledger'
      BY <1>1
    <3> HIDE DEF length
    <3>2. IndexItem(w, length) \in Ids \X DOMAIN ledger'
      BY <2>1, <3>1, Zenon DEF IndexItem
    <3> QED
      BY <3>2 DEF ExecAppend
  <2>3. idIndex \subseteq Ids \X DOMAIN ledger'
    BY <1>1 DEF TypeOK, Ids
  <2>4. idIndex' \subseteq Ids \X DOMAIN ledger'
    BY <2>2, <2>3 DEF ExecAppend
  <2> QED
    BY <1>1, <2>2, <2>4 DEF TypeOK, ExecAppend, Fault, LedgerAssumption, Ids
<1>4. /\ pc' = [pc EXCEPT ![w] = AfterAppend(w, length)]
      /\ AfterAppend(w, length) \in {"checkpoint", "enqueue"}
      /\ call[w].nested => AfterAppend(w, length) = "enqueue"
  BY DEF ExecAppend, AfterAppend, CheckpointDue
<1>5a. CallOK(w) /\ pc[w] = "exec" /\ issued' = issued
  BY DEF TypeOK, ExecAppend
<1>5b. length \in DOMAIN ledger' /\ length \in Nat \ {0} /\ Debt(w) \subseteq DOMAIN ledger'
  BY <1>1, <1>5a DEF CallOK, TypeOK, IsSeq
<1>5. CallOK(w)'
  <2>1. CASE call[w].nested
    <3>1. /\ DOMAIN call'[w] = CallFields /\ call'[w].req = call[w].req
          /\ call'[w].attempt = call[w].attempt /\ call'[w].nested \in BOOLEAN /\ (call'[w].nested <=> call[w].nested)
          /\ call'[w].slot = call[w].slot /\ call'[w].inner = length
          /\ pc'[w] = "enqueue"
      BY <1>4, <2>1 DEF TypeOK, CallOK, CallFields, ExecAppend
    <3>2. Debt(w)' \subseteq DOMAIN ledger'
      BY <1>5a, <1>5b, <3>1 DEF Debt
    <3> QED
      BY <1>5a, <2>1, <3>1, <3>2 DEF CallOK
  <2>2. CASE ~call[w].nested
    <3>1. /\ DOMAIN call'[w] = CallFields /\ call'[w].req = call[w].req
          /\ call'[w].attempt = call[w].attempt /\ call'[w].nested \in BOOLEAN /\ (call'[w].nested <=> call[w].nested)
          /\ call'[w].slot = length /\ call'[w].inner = call[w].inner
          /\ pc'[w] \in {"checkpoint", "enqueue"}
      BY <1>4, <2>2 DEF TypeOK, CallOK, CallFields, ExecAppend
    <3>2. Debt(w)' \subseteq DOMAIN ledger'
      BY <1>5a, <1>5b, <3>1 DEF Debt
    <3> QED
      BY <1>5a, <2>2, <3>1, <3>2 DEF CallOK
  <2> QED
    BY <2>1, <2>2
<1>6. \A v \in Writers \ {w} : CallOK(v)'
  BY <1>1, CallStable DEF TypeOK, ExecAppend
<1>7. pc' \in [Writers -> WriterPcs] /\ watchOk' \in [Writers -> BOOLEAN] /\ DOMAIN call' = Writers
  BY <1>4 DEF TypeOK, WriterPcs, ExecAppend, BreakWatches
<1> QED
  BY SMTT(30), <1>1, <1>2, <1>3, <1>5, <1>6, <1>7 DEF TypeOK, ExecAppend

(* A writer that tries again, or gives up its call or the anchor of it.    *)
LEMMA RetryType ==
    ASSUME LedgerAssumption, TypeOK, NEW w \in Writers, pc[w] = "exec", Retry(w),
           UNCHANGED issued, DOMAIN ledger \subseteq DOMAIN ledger'
    PROVE  /\ \A v \in Writers : CallOK(v)'
           /\ pc' \in [Writers -> WriterPcs] /\ DOMAIN call' = Writers
<1>1. CallOK(w)'
  <2>1. CASE call[w].attempt + 1 < MaxRetries
    <3> DEFINE c == Again(w)
    <3>1. /\ pc[w] = "exec" /\ UNCHANGED issued
          /\ pc' = [pc EXCEPT ![w] = "watch"]
          /\ call' = [call EXCEPT ![w] = c]
      BY <2>1 DEF Retry
    <3>2. /\ DOMAIN c = CallFields /\ c.req = call[w].req /\ c.attempt = call[w].attempt + 1
          /\ c.slot = call[w].slot /\ c.inner = call[w].inner
          /\ c.nested \in BOOLEAN /\ (c.nested <=> call[w].nested)
      BY DEF TypeOK, CallOK, CallFields, Again
    <3> HIDE DEF c
    <3>3. call'[w] = c /\ pc'[w] = "watch"
      BY <3>1 DEF TypeOK
    <3> QED
      BY <2>1, <3>1, <3>2, <3>3 DEF TypeOK, CallOK, Debt, LedgerAssumption
  <2>2. CASE call[w].attempt + 1 >= MaxRetries /\ call[w].nested
    BY <2>2, AnchorDoneType DEF TypeOK, CallOK, Retry, LedgerAssumption
  <2>3. CASE call[w].attempt + 1 >= MaxRetries /\ ~call[w].nested
    BY <2>3, FreshCallType DEF TypeOK, CallOK, Retry, LedgerAssumption
  <2> QED
    BY <2>1, <2>2, <2>3 DEF TypeOK, CallOK, LedgerAssumption
<1>2. \A v \in Writers \ {w} : CallOK(v)'
  BY CallStable DEF TypeOK, Retry
<1>3. pc' \in [Writers -> WriterPcs] /\ DOMAIN call' = Writers
  BY DEF TypeOK, WriterPcs, Retry
<1> QED
  BY <1>1, <1>2, <1>3

(* A conflict or a lost connection appends nothing.                        *)
LEMMA NotAppendedType ==
    ASSUME LedgerAssumption, TypeOK, NEW w \in Writers, ExecConflict(w) \/ ConnectionLost(w)
    PROVE  TypeOK'
<1>1. /\ pc[w] = "exec" /\ Retry(w)
      /\ UNCHANGED <<ledger, unanswered, idIndex, checkpoints, queue, watchOk, issued>>
  BY DEF ExecConflict, ConnectionLost
<1>2. /\ \A v \in Writers : CallOK(v)'
      /\ pc' \in [Writers -> WriterPcs] /\ DOMAIN call' = Writers
  BY <1>1, RetryType
<1>3. faults' \in 0 .. MaxFaults
  BY DEF TypeOK, ExecConflict, ConnectionLost, Fault, LedgerAssumption
<1> QED
  BY <1>1, <1>2, <1>3 DEF TypeOK, EntryOK

(* A lost reply leaves one entry more, which nobody was told of.           *)
LEMMA ReplyLostType ==
    ASSUME LedgerAssumption, TypeOK, NEW w \in Writers, ReplyLost(w)
    PROVE  TypeOK'
<1> DEFINE n == Len(ledger) + 1
<1>1. /\ pc[w] = "exec" /\ Retry(w) /\ BreakWatches
      /\ UNCHANGED <<idIndex, checkpoints, queue, issued>>
      /\ unanswered' = unanswered \cup {n}
  BY DEF ReplyLost
<1>2. /\ IsSeq(ledger') /\ DOMAIN ledger' = 1 .. n /\ ledger'[n] = NewEntry(w)
      /\ DOMAIN ledger = 1 .. Len(ledger) /\ Len(ledger) \in Nat
      /\ \A i \in DOMAIN ledger : ledger'[i] = ledger[i]
  BY AppendFacts, SeqFacts DEF TypeOK, ReplyLost
<1>3. \A i \in DOMAIN ledger' : EntryOK(ledger'[i])
  <2>1. EntryOK(NewEntry(w)) /\ \A i \in DOMAIN ledger : EntryOK(ledger[i])
    BY <1>1, NewEntryOK DEF TypeOK
  <2> QED
    BY <1>2, <2>1
<1>4. /\ \A v \in Writers : CallOK(v)'
      /\ pc' \in [Writers -> WriterPcs] /\ DOMAIN call' = Writers
  BY <1>1, <1>2, RetryType
<1>5. faults' \in 0 .. MaxFaults /\ watchOk' \in [Writers -> BOOLEAN]
  BY <1>1 DEF TypeOK, ReplyLost, Fault, BreakWatches, LedgerAssumption
<1>6. DOMAIN ledger \subseteq DOMAIN ledger' /\ unanswered' \subseteq DOMAIN ledger'
  BY <1>1, <1>2 DEF TypeOK
<1>7. Elems(queue) \subseteq DOMAIN ledger'
      /\ idIndex \subseteq ((1 .. issued) \X (0 .. (MaxRetries - 1))) \X DOMAIN ledger'
  BY <1>6 DEF TypeOK
<1> QED
  BY <1>1, <1>2, <1>3, <1>4, <1>5, <1>6, <1>7 DEF TypeOK, EntryOK

(* Writing a checkpoint leaves the ledger and the indices alone.           *)
LEMMA CheckpointType ==
    ASSUME LedgerAssumption, TypeOK, NEW w \in Writers,
           Checkpoint(w) \/ CheckpointRootless(w)
    PROVE  TypeOK'
<1>1. /\ DOMAIN call'[w] = CallFields /\ call'[w].req = call[w].req
      /\ call'[w].attempt = call[w].attempt
      /\ call'[w].slot = call[w].slot /\ call'[w].inner = call[w].inner
      /\ pc'[w] \in {"anchor", "enqueue"}
  BY SMTT(30) DEF TypeOK, CallOK, CallFields, Checkpoint, CheckpointRootless
<1>2. call'[w].nested \in BOOLEAN /\ (call'[w].nested <=> call[w].nested)
  <2>1. /\ DOMAIN call = Writers /\ DOMAIN call[w] = CallFields
        /\ "nested" \in CallFields /\ "nested" # "window" /\ call[w].nested \in BOOLEAN
    BY DEF TypeOK, CallOK, CallFields
  <2>2. CASE Checkpoint(w)
    <3>1. PICK x : call' = [call EXCEPT ![w] = [@ EXCEPT !.window = x]]
      BY <2>2 DEF Checkpoint
    <3>2. call'[w].nested = call[w].nested
      BY <2>1, <3>1
    <3> QED
      BY <2>1, <3>2
  <2>3. CASE CheckpointRootless(w)
    <3>1. call' = call
      BY <2>3 DEF CheckpointRootless
    <3> QED
      BY <2>1, <3>1
  <2> QED
    BY <2>2, <2>3
<1>3. pc[w] = "checkpoint" /\ UNCHANGED <<ledger, unanswered, idIndex, queue, watchOk, issued>>
  BY DEF Checkpoint, CheckpointRootless
<1>4. CallOK(w)'
  BY <1>1, <1>2, <1>3 DEF TypeOK, CallOK, Debt
<1>5. \A v \in Writers \ {w} : CallOK(v)'
  BY CallStable DEF TypeOK, Checkpoint, CheckpointRootless
<1>6. pc' \in [Writers -> WriterPcs] /\ DOMAIN call' = Writers
  BY DEF TypeOK, WriterPcs, Checkpoint, CheckpointRootless
<1>7. IsSeq(checkpoints')
  <2>1. \E c : checkpoints' = Append(checkpoints, c)
    BY DEF Checkpoint, CheckpointRootless
  <2> QED
    BY <2>1, AppendFacts DEF TypeOK
<1>8. faults' \in 0 .. MaxFaults
  BY DEF TypeOK, Checkpoint, CheckpointRootless, Fault, LedgerAssumption
<1> QED
  BY <1>3, <1>4, <1>5, <1>6, <1>7, <1>8 DEF TypeOK, EntryOK

(* The two ways of ending a call early.                                    *)
LEMMA EndedType ==
    ASSUME LedgerAssumption, TypeOK, NEW w \in Writers,
           CheckpointUploadFails(w) \/ Abandon(w)
    PROVE  TypeOK'
<1>1. /\ pc' = [pc EXCEPT ![w] = "idle"] /\ call' = [call EXCEPT ![w] = IdleCall]
      /\ UNCHANGED <<ledger, unanswered, idIndex, queue, issued>>
  BY DEF CheckpointUploadFails, Abandon
<1>2. IsSeq(checkpoints')
  <2>1. CASE CheckpointUploadFails(w)
    BY <2>1, AppendFacts DEF TypeOK, CheckpointUploadFails
  <2>2. CASE Abandon(w)
    BY <2>2 DEF TypeOK, Abandon
  <2> QED
    BY <2>1, <2>2
<1>3. faults' \in 0 .. MaxFaults /\ watchOk' \in [Writers -> BOOLEAN]
  <2>1. UNCHANGED watchOk \/ watchOk' = [watchOk EXCEPT ![w] = FALSE]
    BY DEF CheckpointUploadFails, Abandon
  <2>2. Fault
    BY DEF CheckpointUploadFails, Abandon
  <2>3. watchOk \in [Writers -> BOOLEAN] /\ faults \in 0 .. MaxFaults
    BY DEF TypeOK
  <2>4. watchOk' \in [Writers -> BOOLEAN]
    BY <2>1, <2>3
  <2> QED
    BY <2>2, <2>3, <2>4 DEF Fault, LedgerAssumption
<1>4. pc' \in [Writers -> WriterPcs] /\ DOMAIN call' = Writers
  BY <1>1 DEF TypeOK, WriterPcs
<1>5. CallOK(w)'
  BY <1>1, FreshCallType DEF TypeOK
<1>6. \A v \in Writers \ {w} : CallOK(v)'
  BY <1>1, CallStable DEF TypeOK
<1> QED
  BY <1>1, <1>2, <1>3, <1>4, <1>5, <1>6 DEF TypeOK, EntryOK

(* The recursive call keeps the index of its caller.                       *)
LEMMA AnchorType ==
    ASSUME LedgerAssumption, TypeOK, NEW w \in Writers, Anchor(w)
    PROVE  TypeOK'
<1>1. issued' \in Nat /\ issued <= issued'
  BY DEF TypeOK, Anchor
<1>2. CallOK(w)'
  <2>1. CASE Critical
    BY <2>1, AnchorDoneType DEF TypeOK, CallOK, Anchor
  <2>2. CASE ~Critical
    <3>1. /\ call'[w] = [call[w] EXCEPT !.nested = TRUE, !.req = issued + 1,
                                        !.attempt = 0, !.seen = NoHash]
          /\ issued' = issued + 1 /\ pc'[w] = "watch" /\ pc[w] = "anchor" /\ UNCHANGED ledger
      BY <2>2 DEF TypeOK, Anchor
    <3>2. /\ DOMAIN call'[w] = CallFields /\ call'[w].req = issued + 1 /\ call'[w].attempt = 0
          /\ call'[w].slot = call[w].slot /\ call'[w].inner = call[w].inner
      BY <3>1 DEF TypeOK, CallOK, CallFields
    <3>3. call'[w].nested \in BOOLEAN /\ call'[w].nested
      BY <3>1 DEF TypeOK, CallOK, CallFields
    <3>4. 0 \in 0 .. MaxRetries - 1
      BY DEF LedgerAssumption
    <3> QED
      BY <1>1, <3>1, <3>2, <3>3, <3>4 DEF TypeOK, CallOK, Debt
  <2> QED
    BY <2>1, <2>2
<1>3. \A v \in Writers \ {w} : CallOK(v)'
  BY <1>1, CallStable DEF TypeOK, Anchor
<1>4. pc' \in [Writers -> WriterPcs] /\ DOMAIN call' = Writers
  BY DEF TypeOK, WriterPcs, Anchor
<1> QED
  BY <1>1, <1>2, <1>3, <1>4 DEF TypeOK, EntryOK, Anchor

(* What is queued is a position of the ledger.                             *)
LEMMA EnqueueType ==
    ASSUME LedgerAssumption, TypeOK, NEW w \in Writers, Enqueue(w)
    PROVE  TypeOK'
<1>1. CallOK(w)'
  BY AnchorDoneType, FreshCallType DEF TypeOK, CallOK, Enqueue
<1>2. \A v \in Writers \ {w} : CallOK(v)'
  BY CallStable DEF TypeOK, Enqueue
<1>3. pc' \in [Writers -> WriterPcs] /\ DOMAIN call' = Writers
  BY DEF TypeOK, WriterPcs, Enqueue
<1>4. PICK i \in Debt(w) : queue' = Append(queue, i)
  BY DEF TypeOK, CallOK, Debt, Enqueue
<1>5. IsSeq(queue') /\ Elems(queue') \subseteq DOMAIN ledger
  BY <1>4, AppendFacts DEF TypeOK, CallOK
<1> QED
  BY <1>1, <1>2, <1>3, <1>5 DEF TypeOK, EntryOK, Enqueue

(* A recursive call that raised leaves the caller's own index only.        *)
LEMMA AnchorRaisesType ==
    ASSUME LedgerAssumption, TypeOK, NEW w \in Writers, AnchorRaises(w)
    PROVE  TypeOK'
<1>1. pc[w] \in {"watch", "exec", "enqueue"} /\ call[w].slot # 0
  BY DEF TypeOK, CallOK, AnchorRaises
<1>2. CallOK(w)'
  BY <1>1, AnchorDoneType DEF TypeOK, AnchorRaises
<1>3. \A v \in Writers \ {w} : CallOK(v)'
  BY CallStable DEF TypeOK, AnchorRaises
<1>4. /\ pc' \in [Writers -> WriterPcs] /\ DOMAIN call' = Writers
      /\ watchOk' \in [Writers -> BOOLEAN] /\ faults' \in 0 .. MaxFaults
  BY DEF TypeOK, WriterPcs, AnchorRaises, Fault, LedgerAssumption
<1> QED
  BY <1>2, <1>3, <1>4 DEF TypeOK, EntryOK, AnchorRaises

(* Every step keeps the shapes.                                            *)
LEMMA TypeStep == LedgerAssumption /\ TypeOK /\ Next => TypeOK'
BY BeginType, WatchType, ExecAppendType, NotAppendedType, ReplyLostType, CheckpointType, EndedType,
   AnchorType, EnqueueType, AnchorRaisesType
   DEF Next, WriterStep, WriterFault

(* So does a step that changes nothing.                                    *)
LEMMA TypeStutter == TypeOK /\ UNCHANGED ledgerVars => TypeOK'
BY DEF TypeOK, CallOK, EntryOK, Debt, ledgerVars

(* In every reachable state the shapes of TypeOK hold.                     *)
THEOREM TypeCorrect == Spec => []TypeOK
<1>1. Init => TypeOK
  BY LedgerAssumption, InitType
<1>2. TypeOK /\ [Next]_ledgerVars => TypeOK'
  BY LedgerAssumption, TypeStep, TypeStutter
<1> QED
  BY <1>1, <1>2, PTL DEF Spec

-----------------------------------------------------------------------------
(***************************************************************************)
(* What a step of one writer leaves alone.  Only EXEC writes the ledger,   *)
(* only WATCH leads to it, and a request in hand is the one before or new. *)
(***************************************************************************)
WriterMoves(w) == WriterStep(w) \/ WriterFault(w)

(* EXEC took effect, whether its reply arrived or not. *)
Appends(w) == ExecAppend(w) \/ ReplyLost(w)

(* A step of w leaves the locals of v alone; it may break its watch, never set it. *)
LEMMA OthersUntouched ==
    ASSUME TypeOK, NEW w \in Writers, WriterMoves(w), NEW v \in Writers \ {w}
    PROVE  UNCHANGED <<pc[v], call[v]>> /\ (watchOk'[v] => watchOk[v])
<1>1. /\ DOMAIN pc = Writers /\ DOMAIN call = Writers /\ DOMAIN watchOk = Writers
  BY DEF TypeOK
<1>2. UNCHANGED pc \/ \E p : pc' = [pc EXCEPT ![w] = p]
  BY DEF WriterMoves, WriterStep, WriterFault, Begin, Watch, ExecAppend, ExecConflict, ConnectionLost, ReplyLost, Retry, Checkpoint, CheckpointRootless,
         CheckpointUploadFails, Anchor, Enqueue, Abandon, AnchorRaises
<1>3. UNCHANGED call \/ \E c : call' = [call EXCEPT ![w] = c]
  BY DEF WriterMoves, WriterStep, WriterFault, Begin, Watch, ExecAppend, ExecConflict, ConnectionLost, ReplyLost, Retry, Checkpoint, CheckpointRootless,
         CheckpointUploadFails, Anchor, Enqueue, Abandon, AnchorRaises
<1>4. \/ UNCHANGED watchOk
      \/ \E b : watchOk' = [watchOk EXCEPT ![w] = b]
      \/ BreakWatches
  BY DEF WriterMoves, WriterStep, WriterFault, Begin, Watch, ExecAppend, ExecConflict, ConnectionLost, ReplyLost, Retry, Checkpoint, CheckpointRootless,
         CheckpointUploadFails, Anchor, Enqueue, Abandon, AnchorRaises
<1> QED
  BY <1>1, <1>2, <1>3, <1>4 DEF BreakWatches

(* Nothing but a successful EXEC writes the ledger.                        *)
LEMMA OnlyExecWrites ==
    ASSUME NEW w \in Writers, WriterMoves(w)
    PROVE  Appends(w) \/ (UNCHANGED <<ledger, unanswered>> /\ ~Appends(w))
BY DEF Appends, WriterMoves, WriterStep, WriterFault, Begin, Watch, ExecAppend, ExecConflict, ConnectionLost, ReplyLost, Retry, Checkpoint, CheckpointRootless,
         CheckpointUploadFails, Anchor, Enqueue, Abandon, AnchorRaises

(* The writer about to EXEC has just done its WATCH.                       *)
LEMMA OnlyWatchLeadsToExec ==
    ASSUME TypeOK, NEW w \in Writers, WriterMoves(w), pc'[w] = "exec"
    PROVE  Watch(w)
<1>1. pc \in [Writers -> WriterPcs] /\ (call[w].nested => pc[w] \in {"watch", "exec", "enqueue"})
  BY DEF TypeOK, CallOK
<1> QED
  BY <1>1 DEF WriterMoves, WriterStep, WriterFault, AfterAppend, Begin, Watch, ExecAppend, ExecConflict, ConnectionLost, ReplyLost, Retry, Checkpoint, CheckpointRootless,
         CheckpointUploadFails, Anchor, Enqueue, Abandon, AnchorRaises

(* A writer that tries again keeps its request and counts the attempt.     *)
LEMMA RetryKeeps ==
    ASSUME TypeOK, NEW w \in Writers, pc[w] = "exec", Retry(w), Unwritten(w)'
    PROVE  call'[w].req = call[w].req /\ call'[w].attempt = call[w].attempt + 1
<1>1. /\ pc \in [Writers -> WriterPcs] /\ DOMAIN call = Writers /\ DOMAIN call[w] = CallFields
  BY DEF TypeOK, CallOK
<1>2. call[w].attempt + 1 < MaxRetries
  BY <1>1 DEF Retry, Unwritten
<1>3. call'[w] = Again(w)
  BY <1>1, <1>2 DEF Retry
<1> QED
  BY <1>1, <1>3 DEF Again, CallFields

(* A request not yet written was in the writer's hands before, or is new.  *)
LEMMA RequestKeptOrNew ==
    ASSUME TypeOK, NEW w \in Writers, WriterMoves(w), ~ReplyLost(w), Unwritten(w)'
    PROVE  /\ UNCHANGED <<ledger, unanswered>>
           /\ \/ /\ Unwritten(w) /\ call'[w].req = call[w].req /\ UNCHANGED issued
                 /\ call'[w].attempt \in {call[w].attempt, call[w].attempt + 1}
              \/ call'[w].req = issued + 1 /\ issued' = issued + 1
<1>1. pc \in [Writers -> WriterPcs] /\ DOMAIN call = Writers /\ DOMAIN call[w] = CallFields
  BY DEF TypeOK, CallOK
<1>2. ~Appends(w)
  BY <1>1 DEF Appends, Unwritten, ExecAppend, AfterAppend
<1>3. UNCHANGED <<ledger, unanswered>>
  BY <1>2, OnlyExecWrites
<1>4. CASE Begin(w)
  BY <1>1, <1>4 DEF Begin, IdleCall
<1>5. CASE Watch(w)
  BY <1>1, <1>3, <1>5 DEF Watch, Unwritten, CallFields
<1>6. CASE ExecConflict(w) \/ ConnectionLost(w)
  <2>1. pc[w] = "exec" /\ UNCHANGED issued /\ Retry(w)
    BY <1>6 DEF ExecConflict, ConnectionLost
  <2> QED
    BY <1>3, <2>1, RetryKeeps DEF Unwritten
<1>7. CASE Anchor(w)
  <2>1. issued' = issued + 1 /\ pc'[w] = "watch"
    BY <1>1, <1>7 DEF Anchor, Unwritten
  <2>2. call' = [call EXCEPT ![w] = [@ EXCEPT !.nested = TRUE, !.req = issued + 1,
                                              !.attempt = 0, !.seen = NoHash]]
    BY <1>1, <1>7, <2>1 DEF Anchor
  <2>3. call'[w].req = issued + 1
    BY <1>1, <2>2 DEF CallFields
  <2> QED
    BY <1>3, <2>1, <2>3
<1>8. Begin(w) \/ Watch(w) \/ ExecConflict(w) \/ ConnectionLost(w) \/ Anchor(w)
  BY <1>1, <1>2 DEF Appends, Unwritten, WriterMoves, WriterStep, WriterFault, Begin, Watch, ExecAppend, ExecConflict, ConnectionLost, ReplyLost, Retry, Checkpoint, CheckpointRootless,
         CheckpointUploadFails, Anchor, Enqueue, Abandon, AnchorRaises
<1> QED
  BY <1>3, <1>4, <1>5, <1>6, <1>7, <1>8

-----------------------------------------------------------------------------
(***************************************************************************)
(* The chain.  While a writer's watch holds nobody has written the ledger  *)
(* since its LINDEX, so the prev_hash it holds is still the tail's hash.   *)
(***************************************************************************)
LEMMA NewEntryFields ==
    ASSUME NEW w
    PROVE  /\ NewEntry(w).req = call[w].req /\ NewEntry(w).try = call[w].attempt
           /\ NewEntry(w).prev = call[w].seen
           /\ NewEntry(w).hash = Hash(Id(NewEntry(w)), call[w].seen)
           /\ NewEntry(w).status = Pending /\ NewEntry(w).window = call[w].window
BY DEF NewEntry, Id

(* After EXEC the ledger is what it was and the new entry at its end.      *)
LEMMA NewEntryFacts ==
    ASSUME TypeOK, NEW w \in Writers, Appends(w)
    PROVE  /\ DOMAIN ledger = 1 .. Len(ledger) /\ Len(ledger) \in Nat
           /\ DOMAIN ledger' = 1 .. Len(ledger) + 1 /\ Len(ledger') = Len(ledger) + 1
           /\ ledger'[Len(ledger) + 1] = NewEntry(w)
           /\ \A i \in DOMAIN ledger : ledger'[i] = ledger[i]
           /\ unanswered' \in {unanswered, unanswered \cup {Len(ledger) + 1}}
BY AppendFacts, SeqFacts DEF TypeOK, Appends, ExecAppend, ReplyLost

(* A step keeps the chain and the promise of every unbroken watch.         *)
LEMMA ChainStep ==
    ASSUME TypeOK, ChainIntact, SeenFresh, NEW w \in Writers, WriterMoves(w)
    PROVE  ChainIntact' /\ SeenFresh'
<1>1. CASE Appends(w)
  <2> DEFINE n == Len(ledger) + 1
  <2>1. call[w].seen = LastHash(ledger) /\ watchOk' = [v \in Writers |-> FALSE]
    BY <1>1 DEF Appends, ExecAppend, ReplyLost, WatchHolds, SeenFresh, BreakWatches
  <2>2. LinkOK(ledger', n)
    <3>1. /\ ledger'[n].prev = LastHash(ledger)
          /\ ledger'[n].hash = Hash(Id(ledger'[n]), ledger'[n].prev)
      BY <1>1, <2>1, NewEntryFacts, NewEntryFields
    <3>2. LastHash(ledger) = IF n = 1 THEN NoHash ELSE ledger'[n - 1].hash
      BY <1>1, NewEntryFacts, SeqFacts DEF LastHash, TypeOK
    <3> QED
      BY <3>1, <3>2 DEF LinkOK
  <2>3. ASSUME NEW i \in DOMAIN ledger PROVE LinkOK(ledger', i)
    BY <1>1, NewEntryFacts DEF LinkOK, ChainIntact
  <2>4. ChainIntact'
    BY <1>1, <2>2, <2>3, NewEntryFacts DEF ChainIntact
  <2>5. SeenFresh'
    BY <2>1 DEF SeenFresh
  <2> QED
    BY <2>4, <2>5
<1>2. CASE UNCHANGED ledger
  <2>1. ChainIntact'
    BY <1>2 DEF ChainIntact
  <2>2. ASSUME NEW v \in Writers, pc'[v] = "exec", watchOk'[v]
        PROVE  call'[v].seen = LastHash(ledger')
    <3>1. CASE v # w
      BY <1>2, <2>2, <3>1, OthersUntouched DEF SeenFresh
    <3>2. CASE v = w
      <4>1. Watch(w)
        BY <2>2, <3>2, OnlyWatchLeadsToExec
      <4>2. DOMAIN call = Writers /\ DOMAIN call[w] = CallFields
        BY DEF TypeOK, CallOK
      <4>3. call'[w].seen = LastHash(ledger)
        BY <4>1, <4>2 DEF Watch, CallFields
      <4> QED
        BY <1>2, <3>2, <4>3
    <3> QED
      BY <3>1, <3>2
  <2> QED
    BY <2>1, <2>2 DEF SeenFresh
<1> QED
  BY <1>1, <1>2, OnlyExecWrites

(* So does a step that changes nothing.                                    *)
LEMMA ChainStutter ==
    ChainIntact /\ SeenFresh /\ UNCHANGED ledgerVars => ChainIntact' /\ SeenFresh'
BY DEF ChainIntact, SeenFresh, ledgerVars

(* The empty ledger is a chain.                                            *)
LEMMA ChainInit == Init => ChainIntact /\ SeenFresh
BY EmptyFacts DEF Init, ChainIntact, SeenFresh

(* Concurrent calls, retries and anchors never fork or break the chain.    *)
THEOREM ChainSafe == Spec => []ChainIntact
<1>1. TypeOK /\ ChainIntact /\ SeenFresh /\ [Next]_ledgerVars => ChainIntact' /\ SeenFresh'
  BY ChainStep, ChainStutter DEF Next, WriterMoves
<1> QED
  BY <1>1, ChainInit, TypeCorrect, PTL DEF Spec

-----------------------------------------------------------------------------
(***************************************************************************)
(* One answered entry per request.  The request a writer is about to       *)
(* append is in nobody else's hands, and the entries it already has are    *)
(* those of its earlier attempts whose reply was lost.                     *)
(***************************************************************************)
LEMMA IdFacts ==
    ASSUME NEW d, NEW e
    PROVE  Id(d) = Id(e) <=> d.req = e.req /\ d.try = e.try
BY DEF Id

(* A new entry repeats only entries nobody was told of.                    *)
LEMMA AppendedRequest ==
    ASSUME TypeOK, RepeatsOnlyUnanswered, RequestsFresh, NEW w \in Writers, Appends(w)
    PROVE  /\ RepeatsOnlyUnanswered'
           /\ \A v \in Writers \ {w} : Unwritten(v)' =>
                Unwritten(v) /\ call'[v] = call[v] /\ call[v].req # call[w].req
<1> DEFINE n == Len(ledger) + 1
<1>1. Unwritten(w) /\ WriterMoves(w)
  BY DEF Appends, ExecAppend, ReplyLost, Unwritten, WriterMoves, WriterStep, WriterFault
<1>2. /\ DOMAIN ledger = 1 .. Len(ledger) /\ Len(ledger) \in Nat /\ DOMAIN ledger' = 1 .. n
      /\ ledger'[n].req = call[w].req /\ ledger'[n].try = call[w].attempt
      /\ \A i \in DOMAIN ledger : ledger'[i] = ledger[i]
      /\ unanswered \subseteq unanswered'
  BY NewEntryFacts, NewEntryFields
<1>3. \A i \in DOMAIN ledger : /\ ledger[i].try \in Nat
                               /\ ledger[i].req = call[w].req =>
                                    i \in unanswered /\ ledger[i].try < call[w].attempt
  BY <1>1 DEF RequestsFresh, TypeOK, EntryOK
<1>4. ASSUME NEW i \in DOMAIN ledger', NEW j \in DOMAIN ledger'
      PROVE  /\ i < j /\ ledger'[i].req = ledger'[j].req => i \in unanswered'
             /\ Id(ledger'[i]) = Id(ledger'[j]) => i = j
  <2>1. CASE i \in DOMAIN ledger /\ j \in DOMAIN ledger
    BY <1>2, <2>1 DEF RepeatsOnlyUnanswered
  <2>2. CASE i \in DOMAIN ledger /\ j = n
    BY <1>2, <1>3, <2>2, IdFacts
  <2>3. CASE i = n /\ j \in DOMAIN ledger
    BY <1>2, <1>3, <2>3, IdFacts
  <2>4. CASE i = n /\ j = n
    BY <1>2, <2>4
  <2> QED
    BY <1>2, <2>1, <2>2, <2>3, <2>4
<1>5. RepeatsOnlyUnanswered'
  BY <1>4 DEF RepeatsOnlyUnanswered
<1>6. ASSUME NEW v \in Writers \ {w}, Unwritten(v)'
      PROVE  Unwritten(v) /\ call'[v] = call[v] /\ call[v].req # call[w].req
  <2>1. Unwritten(v) /\ call'[v] = call[v]
    BY <1>1, <1>6, OthersUntouched DEF Unwritten
  <2> QED
    BY <1>1, <2>1 DEF RequestsFresh
<1> QED
  BY <1>5, <1>6

(* A step keeps requests apart.                                            *)
LEMMA RequestStep ==
    ASSUME TypeOK, RepeatsOnlyUnanswered, RequestsFresh, NEW w \in Writers, WriterMoves(w)
    PROVE  RepeatsOnlyUnanswered' /\ RequestsFresh'
<1>1. ASSUME NEW v \in Writers, Unwritten(v)
      PROVE  /\ call[v].req <= issued /\ call[v].req \in Nat /\ issued \in Nat
             /\ call[v].attempt \in Nat
  BY DEF TypeOK, CallOK, LedgerAssumption
<1>2. \A i \in DOMAIN ledger : /\ ledger[i].req \in Nat /\ ledger[i].req <= issued
                               /\ ledger[i].try \in Nat
  BY DEF TypeOK, EntryOK
<1>3. CASE Appends(w)
  <2> DEFINE n == Len(ledger) + 1
  <2>1. /\ RepeatsOnlyUnanswered'
        /\ \A v \in Writers \ {w} : Unwritten(v)' =>
             Unwritten(v) /\ call'[v] = call[v] /\ call[v].req # call[w].req
    BY <1>3, AppendedRequest
  <2>2. /\ Unwritten(w) /\ DOMAIN ledger = 1 .. Len(ledger) /\ DOMAIN ledger' = 1 .. n
        /\ ledger'[n].req = call[w].req /\ ledger'[n].try = call[w].attempt
        /\ \A i \in DOMAIN ledger : ledger'[i] = ledger[i]
        /\ unanswered \subseteq unanswered' /\ Len(ledger) \in Nat
    BY <1>3, NewEntryFacts, NewEntryFields DEF Appends, ExecAppend, ReplyLost, Unwritten
  <2>3. Unwritten(w)' => /\ n \in unanswered'
                         /\ call'[w].req = call[w].req /\ call'[w].attempt = call[w].attempt + 1
    <3>1. CASE ExecAppend(w)
      BY <3>1 DEF ExecAppend, Unwritten, AfterAppend, TypeOK
    <3>2. CASE ReplyLost(w)
      BY <3>2, RetryKeeps DEF ReplyLost
    <3> QED
      BY <1>3, <3>1, <3>2 DEF Appends
  <2>4. ASSUME NEW v \in Writers, Unwritten(v)', NEW i \in DOMAIN ledger', ledger'[i].req = call'[v].req
        PROVE  i \in unanswered' /\ ledger'[i].try < call'[v].attempt
    <3>1. CASE v = w /\ i = n
      BY <1>1, <2>2, <2>3, <2>4, <3>1
    <3>2. CASE v = w /\ i \in DOMAIN ledger
      <4>1. ledger[i].req = call[w].req
        BY <2>2, <2>3, <2>4, <3>2
      <4>2. i \in unanswered /\ ledger[i].try < call[w].attempt
        BY <2>2, <3>2, <4>1 DEF RequestsFresh
      <4> QED
        BY <1>1, <1>2, <2>2, <2>3, <2>4, <3>2, <4>2
    <3>3. CASE v # w /\ i = n
      BY <2>1, <2>2, <2>4, <3>3
    <3>4. CASE v # w /\ i \in DOMAIN ledger
      <4>1. Unwritten(v) /\ call'[v] = call[v] /\ ledger[i].req = call[v].req
        BY <2>1, <2>2, <2>4, <3>4
      <4> QED
        BY <2>2, <3>4, <4>1 DEF RequestsFresh
    <3> QED
      BY <2>2, <3>1, <3>2, <3>3, <3>4
  <2>5. ASSUME NEW u \in Writers, NEW v \in Writers \ {u}, Unwritten(u)', Unwritten(v)'
        PROVE  call'[u].req # call'[v].req
    <3>1. CASE u = w
      BY <2>1, <2>3, <2>5, <3>1
    <3>2. CASE v = w
      BY <2>1, <2>3, <2>5, <3>2
    <3>3. CASE u # w /\ v # w
      BY <2>1, <2>5, <3>3 DEF RequestsFresh
    <3> QED
      BY <3>1, <3>2, <3>3
  <2>6. RequestsFresh'
    BY <2>4, <2>5 DEF RequestsFresh
  <2> QED
    BY <2>1, <2>6
<1>4. CASE UNCHANGED <<ledger, unanswered>> /\ ~Appends(w)
  <2>1. RepeatsOnlyUnanswered'
    BY <1>4 DEF RepeatsOnlyUnanswered
  <2>2. ASSUME NEW v \in Writers, Unwritten(v)'
        PROVE  \/ /\ Unwritten(v) /\ call'[v].req = call[v].req
                  /\ call'[v].attempt \in {call[v].attempt, call[v].attempt + 1}
               \/ v = w /\ call'[v].req = issued + 1
    <3>1. CASE v = w
      BY <1>4, <2>2, <3>1, RequestKeptOrNew DEF Appends
    <3>2. CASE v # w
      BY <2>2, <3>2, OthersUntouched DEF Unwritten
    <3> QED
      BY <3>1, <3>2
  <2>3. issued \in Nat
    BY DEF TypeOK
  <2>4. RequestsFresh'
    <3>1. ASSUME NEW v \in Writers, Unwritten(v)', NEW i \in DOMAIN ledger, ledger[i].req = call'[v].req
          PROVE  i \in unanswered /\ ledger[i].try < call'[v].attempt
      <4>1. /\ Unwritten(v) /\ call'[v].req = call[v].req
            /\ call'[v].attempt \in {call[v].attempt, call[v].attempt + 1}
        BY <1>2, <2>2, <2>3, <3>1
      <4>2. i \in unanswered /\ ledger[i].try < call[v].attempt
        BY <3>1, <4>1 DEF RequestsFresh
      <4> QED
        BY <1>1, <1>2, <4>1, <4>2
    <3>2. ASSUME NEW u \in Writers, NEW v \in Writers, u # v, Unwritten(u)', Unwritten(v)'
          PROVE  call'[u].req # call'[v].req
      BY <1>1, <2>2, <2>3, <3>2 DEF RequestsFresh
    <3> QED
      BY <1>4, <3>1, <3>2 DEF RequestsFresh
  <2> QED
    BY <2>1, <2>4
<1> QED
  BY <1>3, <1>4, OnlyExecWrites

(* A step that changes nothing keeps requests apart.                       *)
LEMMA RequestStutter ==
    RepeatsOnlyUnanswered /\ RequestsFresh /\ UNCHANGED ledgerVars
        => RepeatsOnlyUnanswered' /\ RequestsFresh'
BY DEF RepeatsOnlyUnanswered, RequestsFresh, Unwritten, ledgerVars

(* At first no request exists.                                             *)
LEMMA RequestInit == Init => RepeatsOnlyUnanswered /\ RequestsFresh
BY EmptyFacts DEF Init, RepeatsOnlyUnanswered, RequestsFresh, Unwritten

(* create_unsigned_ledger_entry, the retry loop: an event is in the ledger *)
(* again only after an append whose reply was lost, so that a call learns  *)
(* of one entry at most, and every entry has an id of its own.             *)
THEOREM RepeatsUnanswered == Spec => []RepeatsOnlyUnanswered
<1>1. TypeOK /\ RepeatsOnlyUnanswered /\ RequestsFresh /\ [Next]_ledgerVars
          => RepeatsOnlyUnanswered' /\ RequestsFresh'
  BY RequestStep, RequestStutter DEF Next, WriterMoves
<1> QED
  BY <1>1, RequestInit, TypeCorrect, PTL DEF Spec

-----------------------------------------------------------------------------
(***************************************************************************)
(* Tickets.  An append makes a debt no one else has, Enqueue turns it into *)
(* a place in the queue, and every other step keeps or forgets it.         *)
(***************************************************************************)
LEMMA AfterAnchorFacts ==
    ASSUME NEW w, DOMAIN call[w] = CallFields
    PROVE  AfterAnchor(w).slot = call[w].slot /\ AfterAnchor(w).inner = 0
BY DEF AfterAnchor, CallFields

(* A call that has just begun owes no position.                            *)
LEMMA BegunFacts ==
    LET c == [IdleCall EXCEPT !.req = issued + 1] IN c.slot = 0 /\ c.inner = 0
BY DEF IdleCall

(* Any step other than EXEC and Enqueue keeps or drops debts, and queues nothing. *)
LEMMA DebtKeptOrDropped ==
    ASSUME TypeOK, NEW w \in Writers, WriterMoves(w), ~ExecAppend(w), ~Enqueue(w)
    PROVE  /\ UNCHANGED queue
           /\ call'[w].slot \in {0, call[w].slot}
           /\ call'[w].slot # 0 => call'[w].inner \in {0, call[w].inner}
           /\ Debt(w)' \subseteq Debt(w)
<1>1. DOMAIN call = Writers /\ DOMAIN call[w] = CallFields
  BY DEF TypeOK, CallOK
<1>2. UNCHANGED queue
  BY DEF WriterMoves, WriterStep, WriterFault, Begin, Watch, ExecAppend, ExecConflict, ConnectionLost, ReplyLost, Retry, Checkpoint, CheckpointRootless,
         CheckpointUploadFails, Anchor, Enqueue, Abandon, AnchorRaises
<1>3. \A c : c \in {IdleCall, AfterAnchor(w), [IdleCall EXCEPT !.req = issued + 1]}
          => c.slot \in {0, call[w].slot} /\ c.inner = 0
  BY <1>1, IdleFacts, AfterAnchorFacts, BegunFacts
<1>4. CASE call'[w] \in {IdleCall, AfterAnchor(w), [IdleCall EXCEPT !.req = issued + 1]}
  <2>1. call'[w].slot \in {0, call[w].slot} /\ call'[w].inner = 0
    BY <1>3, <1>4
  <2> QED
    BY <1>2, <2>1 DEF Debt
<1>5. CASE call'[w].slot = call[w].slot /\ call'[w].inner = call[w].inner
  BY <1>2, <1>5 DEF Debt
<1>6. CASE Begin(w) \/ CheckpointUploadFails(w) \/ Abandon(w) \/ AnchorRaises(w)
  BY <1>1, <1>4, <1>6 DEF Begin, CheckpointUploadFails, Abandon, AnchorRaises
<1>7. CASE Watch(w) \/ Checkpoint(w) \/ CheckpointRootless(w)
  BY <1>1, <1>5, <1>7 DEF Watch, Checkpoint, CheckpointRootless, CallFields
<1>8. CASE ExecConflict(w) \/ ConnectionLost(w) \/ ReplyLost(w)
  <2> DEFINE c == Again(w)
  <2>1. c.slot = call[w].slot /\ c.inner = call[w].inner
    BY <1>1 DEF Again, CallFields
  <2> HIDE DEF c
  <2>2. call'[w] \in {c, AfterAnchor(w), IdleCall}
    <3>1. Retry(w)
      BY <1>8 DEF ExecConflict, ConnectionLost, ReplyLost
    <3> QED
      BY <1>1, <3>1 DEF Retry, c
  <2> QED
    BY <1>4, <1>5, <2>1, <2>2
<1>9. CASE Anchor(w)
  <2> DEFINE c == [call[w] EXCEPT !.nested = TRUE, !.req = issued + 1, !.attempt = 0, !.seen = NoHash]
  <2>1. c.slot = call[w].slot /\ c.inner = call[w].inner
    BY <1>1 DEF CallFields
  <2>2. call'[w] \in {c, AfterAnchor(w)}
    BY <1>1, <1>9 DEF Anchor
  <2> QED
    BY <1>4, <1>5, <2>1, <2>2
<1> QED
  BY <1>6, <1>7, <1>8, <1>9 DEF WriterMoves, WriterStep, WriterFault

(* EXEC gives the writer one debt more, the new position.                  *)
LEMMA AppendMakesDebt ==
    ASSUME TypeOK, NEW w \in Writers, ExecAppend(w)
    PROVE  /\ Debt(w)' \subseteq Debt(w) \cup {Len(ledger) + 1}
           /\ call'[w].slot # 0 => call'[w].slot # call'[w].inner
<1>1. /\ DOMAIN call = Writers /\ DOMAIN call[w] = CallFields
      /\ call[w].slot \in Nat /\ Debt(w) \subseteq 1 .. Len(ledger) /\ Len(ledger) \in Nat
      /\ call[w].inner = 0
  BY SeqFacts DEF TypeOK, CallOK, ExecAppend
<1>2. \/ call'[w].slot = call[w].slot /\ call'[w].inner = Len(ledger) + 1
      \/ call'[w].slot = Len(ledger) + 1 /\ call'[w].inner = call[w].inner
  BY <1>1 DEF ExecAppend, CallFields
<1> QED
  BY <1>1, <1>2 DEF Debt

(* Enqueue moves one debt of the writer to the queue.                      *)
LEMMA EnqueueMovesDebt ==
    ASSUME TypeOK, SingleTicket, NEW w \in Writers, Enqueue(w)
    PROVE  \E i \in Debt(w) :
               /\ queue' = Append(queue, i)
               /\ Debt(w)' \subseteq Debt(w) \ {i}
               /\ call'[w].slot # 0 => call'[w].slot # call'[w].inner
<1>1. /\ DOMAIN call = Writers /\ DOMAIN call[w] = CallFields
      /\ call[w].slot # 0 /\ (call[w].inner # 0 <=> call[w].nested)
      /\ call[w].slot # call[w].inner
  BY DEF TypeOK, CallOK, SingleTicket, Enqueue
<1>2. CASE call[w].nested
  <2>1. call'[w].slot = call[w].slot /\ call'[w].inner = 0
    <3>1. call'[w] = AfterAnchor(w)
      BY <1>1, <1>2 DEF Enqueue
    <3> QED
      BY <1>1, <3>1, AfterAnchorFacts
  <2>2. call[w].inner \in Debt(w) /\ Debt(w)' \subseteq Debt(w) \ {call[w].inner}
    BY <1>1, <1>2, <2>1 DEF Debt
  <2> QED
    BY <1>1, <1>2, <2>1, <2>2 DEF Enqueue
<1>3. CASE ~call[w].nested
  <2>1. call'[w].slot = 0 /\ call'[w].inner = 0
    BY <1>1, <1>3 DEF Enqueue, IdleCall
  <2>2. call[w].slot \in Debt(w) /\ Debt(w)' = {}
    BY <1>1, <2>1 DEF Debt
  <2> QED
    BY <1>3, <2>1, <2>2 DEF Enqueue
<1> QED
  BY <1>2, <1>3

(* A step keeps tickets unique.                                            *)
LEMMA TicketStep ==
    ASSUME TypeOK, SingleTicket, NEW w \in Writers, WriterMoves(w)
    PROVE  SingleTicket'
<1>1. \A v \in Writers \ {w} : Debt(v)' = Debt(v) /\ call'[v] = call[v]
  BY OthersUntouched DEF Debt
<1>2. /\ Len(ledger) + 1 \notin DOMAIN ledger
      /\ \A v \in Writers : Debt(v) \subseteq DOMAIN ledger
      /\ Elems(queue) \subseteq DOMAIN ledger /\ unanswered \subseteq DOMAIN ledger
  BY SeqFacts DEF TypeOK, CallOK
<1>3. CASE ExecAppend(w)
  <2>1. UNCHANGED <<queue, unanswered>>
    BY <1>3 DEF ExecAppend
  <2> QED
    BY <1>1, <1>2, <1>3, <2>1, AppendMakesDebt DEF SingleTicket
<1>4. CASE Enqueue(w)
  <2>1. PICK i \in Debt(w) :
            /\ queue' = Append(queue, i)
            /\ Debt(w)' \subseteq Debt(w) \ {i}
            /\ call'[w].slot # 0 => call'[w].slot # call'[w].inner
    BY <1>4, EnqueueMovesDebt
  <2>2. /\ DOMAIN queue = 1 .. Len(queue) /\ DOMAIN queue' = 1 .. Len(queue) + 1
        /\ queue'[Len(queue) + 1] = i /\ Elems(queue') = Elems(queue) \cup {i}
        /\ \A j \in DOMAIN queue : queue'[j] = queue[j]
    BY <2>1, AppendFacts, SeqFacts DEF TypeOK
  <2>3. \A j \in DOMAIN queue : queue[j] # i
    BY <2>1 DEF SingleTicket, Elems
  <2>4. \A j, k \in DOMAIN queue' : queue'[j] = queue'[k] => j = k
    BY <2>2, <2>3 DEF SingleTicket
  <2>5. /\ \A v \in Writers : Debt(v)' \cap (Elems(queue') \cup unanswered') = {}
        /\ Elems(queue') \cap unanswered' = {}
    <3>1. UNCHANGED unanswered
      BY <1>4 DEF Enqueue
    <3> QED
      BY <1>1, <2>1, <2>2, <3>1 DEF SingleTicket
  <2>6. \A u, v \in Writers : u # v => Debt(u)' \cap Debt(v)' = {}
    BY <1>1, <2>1 DEF SingleTicket
  <2>7. \A v \in Writers : call'[v].slot # 0 => call'[v].slot # call'[v].inner
    BY <1>1, <2>1 DEF SingleTicket
  <2> QED
    BY <2>4, <2>5, <2>6, <2>7 DEF SingleTicket
<1>5. CASE ~ExecAppend(w) /\ ~Enqueue(w)
  <2>1. /\ UNCHANGED queue /\ Debt(w)' \subseteq Debt(w)
        /\ call'[w].slot \in {0, call[w].slot}
        /\ call'[w].slot # 0 => call'[w].inner \in {0, call[w].inner}
    BY <1>5, DebtKeptOrDropped
  <2>2. unanswered' \subseteq unanswered \cup {Len(ledger) + 1}
    BY OnlyExecWrites, NewEntryFacts
  <2>3. /\ \A v \in Writers : Debt(v)' \subseteq Debt(v) /\ Debt(v) \subseteq DOMAIN ledger
        /\ Elems(queue) \subseteq DOMAIN ledger /\ Len(ledger) + 1 \notin DOMAIN ledger
    BY <1>1, <1>2, <2>1
  <2>4. /\ \A v \in Writers : Debt(v)' \cap (Elems(queue') \cup unanswered') = {}
        /\ Elems(queue') \cap unanswered' = {}
    BY <2>1, <2>2, <2>3 DEF SingleTicket
  <2> QED
    BY <1>1, <2>1, <2>4 DEF SingleTicket
<1> QED
  BY <1>3, <1>4, <1>5

(* So does a step that changes nothing.                                    *)
LEMMA TicketStutter == SingleTicket /\ UNCHANGED ledgerVars => SingleTicket'
BY DEF SingleTicket, Debt, ledgerVars

(* At first there are no tickets.                                          *)
LEMMA TicketInit == Init => SingleTicket
<1> SUFFICES ASSUME Init PROVE SingleTicket
  OBVIOUS
<1>1. \A w \in Writers : call[w] = IdleCall
  BY DEF Init
<1>2. \A w \in Writers : call[w].slot = 0 /\ Debt(w) = {}
  BY <1>1, IdleFacts DEF Debt
<1> QED
  BY <1>2, EmptyFacts DEF Init, SingleTicket

(* No position is handed to the signer twice.                              *)
THEOREM TicketsUnique == Spec => []SingleTicket
<1>1. TypeOK /\ SingleTicket /\ [Next]_ledgerVars => SingleTicket'
  BY TicketStep, TicketStutter DEF Next, WriterMoves
<1> QED
  BY <1>1, TicketInit, TypeCorrect, PTL DEF Spec

(* The invariant the runs check, in full.                                  *)
THEOREM InvariantHolds == Spec => []LedgerInv
<1>1. Init => LedgerInv
  BY LedgerAssumption, InitType, ChainInit, RequestInit, TicketInit DEF LedgerInv
<1>2. LedgerInv /\ [Next]_ledgerVars => LedgerInv'
  <2> SUFFICES ASSUME LedgerInv, [Next]_ledgerVars PROVE LedgerInv'
    OBVIOUS
  <2>1. CASE UNCHANGED ledgerVars
    BY <2>1, TypeStutter, ChainStutter, RequestStutter, TicketStutter DEF LedgerInv
  <2>2. CASE Next
    BY <2>2, LedgerAssumption, TypeStep, ChainStep, RequestStep, TicketStep
       DEF LedgerInv, Next, WriterMoves
  <2> QED
    BY <2>1, <2>2
<1> QED
  BY <1>1, <1>2, PTL DEF Spec

-----------------------------------------------------------------------------
(***************************************************************************)
(* The refinement: EXEC is the abstract append, every other step of a      *)
(* writer leaves the log as it is.                                         *)
(***************************************************************************)
LEMMA LogViewFacts ==
    ASSUME IsSeq(ledger)
    PROVE  /\ Len(LogView) = Len(ledger) /\ DOMAIN LogView = DOMAIN ledger
           /\ \A i \in DOMAIN ledger :
                /\ LogView[i].req = ledger[i].req /\ LogView[i].try = ledger[i].try
                /\ LogView[i].prev = ledger[i].prev
                /\ LogView[i].hash = ledger[i].hash /\ LogView[i].status = ledger[i].status
<1>1. Len(ledger) \in Nat /\ DOMAIN ledger = 1 .. Len(ledger)
  BY SeqFacts
<1>2. LogView = [i \in 1 .. Len(ledger) |-> LogView[i]] /\ DOMAIN LogView = 1 .. Len(ledger)
  BY DEF LogView
<1>3. Len(LogView) = Len(ledger)
  BY <1>1, <1>2, SeqFromFunction
<1> QED
  BY <1>1, <1>2, <1>3 DEF LogView

(* EXEC appends one fresh, linked, pending entry to the log.               *)
LEMMA AppendRefines ==
    ASSUME LedgerInv, LedgerInv', NEW w \in Writers, Appends(w)
    PROVE  Abstract!AppendEntry
<1> DEFINE n == Len(ledger) + 1
<1>1. /\ IsSeq(ledger) /\ IsSeq(ledger')
  BY DEF LedgerInv, TypeOK
<1>2. /\ Len(LogView) = Len(ledger) /\ DOMAIN LogView = 1 .. Len(ledger)
      /\ Len(LogView') = n /\ DOMAIN LogView' = 1 .. n /\ Len(ledger) \in Nat
  BY <1>1, LogViewFacts, NewEntryFacts, SeqFacts DEF LogView, LedgerInv
<1>3. \A i \in 1 .. Len(ledger) : LogView'[i] = LogView[i]
  BY NewEntryFacts DEF LogView, LedgerInv
<1>4. \A i \in 1 .. n : /\ LogView'[i].req = ledger'[i].req /\ LogView'[i].try = ledger'[i].try
                       /\ LogView'[i].prev = ledger'[i].prev
                       /\ LogView'[i].hash = ledger'[i].hash /\ LogView'[i].status = ledger'[i].status
  BY NewEntryFacts DEF LogView, LedgerInv
<1>5. \A i \in 1 .. Len(ledger) : /\ Abstract!Id(LogView[i]) # Abstract!Id(LogView'[n])
                                  /\ LogView[i].req = LogView'[n].req => i \in unanswered
  <2>1. ASSUME NEW i \in 1 .. Len(ledger)
        PROVE  /\ Id(ledger'[i]) # Id(ledger'[n])
               /\ ledger'[i].req = ledger'[n].req => i \in unanswered
    <3>1. i \in DOMAIN ledger' /\ n \in DOMAIN ledger' /\ i < n /\ i # n
      BY <1>2, NewEntryFacts DEF LedgerInv
    <3>2. unanswered' \in {unanswered, unanswered \cup {n}}
      BY NewEntryFacts DEF LedgerInv
    <3> QED
      BY <3>1, <3>2 DEF LedgerInv, RepeatsOnlyUnanswered
  <2> QED
    BY <1>2, <1>3, <1>4, <2>1 DEF Id, Abstract!Id
<1>6. LogView'[n].status = Pending
  BY <1>2, <1>4, NewEntryFacts, NewEntryFields DEF LedgerInv
<1>7. Abstract!LinkOK(LogView', n)
  <2>1. LinkOK(ledger', n)
    BY NewEntryFacts DEF LedgerInv, ChainIntact
  <2> QED
    BY <1>2, <1>4, <2>1 DEF LinkOK, Hash, NoHash, Id, Abstract!LinkOK, Abstract!Hash, Abstract!NoHash, Abstract!Id
<1>8. Abstract!Pending = Pending
  BY DEF Pending, Abstract!Pending
<1>9. unanswered' \in {unanswered, unanswered \cup {n}}
  BY NewEntryFacts DEF LedgerInv
<1> QED
  BY <1>2, <1>3, <1>5, <1>6, <1>7, <1>8, <1>9 DEF Abstract!AppendEntry

(* The writers implement the abstract append-only, chained log.            *)
THEOREM WritersRefineLog == Spec => ImplementsLog
<1>1. Init => Abstract!Init
  BY EmptyFacts DEF Init, Abstract!Init, LogView
<1>2. LedgerInv /\ LedgerInv' /\ [Next]_ledgerVars => [Abstract!Next]_<<LogView, unanswered>>
  <2> SUFFICES ASSUME LedgerInv, LedgerInv', [Next]_ledgerVars
               PROVE  Abstract!AppendEntry \/ UNCHANGED <<LogView, unanswered>>
    BY DEF Abstract!Next
  <2>1. CASE UNCHANGED <<ledger, unanswered>>
    BY <2>1 DEF LogView
  <2>2. CASE \E w \in Writers : Appends(w)
    BY <2>2, AppendRefines
  <2> QED
    BY <2>1, <2>2, OnlyExecWrites DEF Next, WriterMoves, ledgerVars
<1> QED
  BY <1>1, <1>2, InvariantHolds, PTL DEF Spec, ImplementsLog, Abstract!Spec

-----------------------------------------------------------------------------
(***************************************************************************)
(* What is derived from the ledger.  Checkpoints, anchors and the index    *)
(* are written some awaits after the entry they describe: until then the   *)
(* position, or the window, is in the locals of the call.                  *)
(***************************************************************************)
Backed(window) ==
    /\ window.last \in DOMAIN ledger
    /\ CheckpointOf(window.last, window) \in Elems(checkpoints)
    /\ window.root = Leaves(ledger, window.first, window.last)

(* The window of an anchor that is still to be written repeats a           *)
(* checkpoint that is, and a call has one in hand when it needs it.        *)
WindowsInHand ==
    \A w \in Writers :
        /\ call[w].window # NoWindow => Backed(call[w].window)
        /\ pc[w] = "anchor" \/ (call[w].nested /\ Unwritten(w)) => call[w].window # NoWindow
        /\ pc[w] = "checkpoint" \/ (Unwritten(w) /\ ~call[w].nested) => call[w].window = NoWindow

(* A call is about to write a checkpoint that is due and that nobody has   *)
(* written.                                                                *)
CheckpointsAhead ==
    /\ checkpoints # <<>> => Interval > 0
    /\ \A w \in Writers : pc[w] = "checkpoint" =>
          /\ Interval > 0 /\ call[w].slot % Interval = 0 /\ ~call[w].nested
          /\ \A c \in Elems(checkpoints) : c.count # call[w].slot

DerivedInv == DerivedDataFaithful /\ WindowsInHand /\ CheckpointsAhead

(* A full interval ends at a multiple of it.                               *)
LEMMA MultipleIsLarge ==
    ASSUME NEW n \in Nat \ {0}, NEW k \in Nat \ {0}, n % k = 0
    PROVE  n >= k
<1>1. n < k => n % k = n
  BY Z3
<1> QED
  BY <1>1

(* Entries stay as they were written, and so do the hashes in a window.    *)
LEMMA LedgerGrows ==
    ASSUME TypeOK, NEW w \in Writers, WriterMoves(w)
    PROVE  /\ DOMAIN ledger \subseteq DOMAIN ledger'
           /\ \A i \in DOMAIN ledger : ledger'[i] = ledger[i]
           /\ \A first \in Nat \ {0}, last \in DOMAIN ledger :
                 Leaves(ledger', first, last) = Leaves(ledger, first, last)
<1>1. DOMAIN ledger \subseteq DOMAIN ledger' /\ \A i \in DOMAIN ledger : ledger'[i] = ledger[i]
  BY NewEntryFacts, OnlyExecWrites
<1>2. DOMAIN ledger = 1 .. Len(ledger) /\ Len(ledger) \in Nat
  BY SeqFacts DEF TypeOK
<1>3. ASSUME NEW first \in Nat \ {0}, NEW last \in DOMAIN ledger
      PROVE  Leaves(ledger', first, last) = Leaves(ledger, first, last)
  <2>1. last \in Nat /\ \A i \in 1 .. last - first + 1 : first + i - 1 \in DOMAIN ledger
    BY <1>2
  <2> QED
    BY <1>1, <2>1 DEF Leaves
<1> QED
  BY <1>1, <1>3

(* What a checkpoint says of its window.                                   *)
LEMMA CheckpointFacts ==
    ASSUME TypeOK, CheckpointsFaithful, CheckpointsAhead, NEW c \in Elems(checkpoints)
    PROVE  /\ c.count \in DOMAIN ledger /\ c.count \in Nat /\ Interval \in Nat \ {0}
           /\ c.count % Interval = 0
           /\ c.window # NoWindow => /\ c.window.last = c.count /\ c.window.first \in Nat \ {0}
                                     /\ c.window.first = c.count - Interval + 1
                                     /\ c.window.root \in {<<>>, Leaves(ledger, c.window.first, c.window.last)}
<1>1. checkpoints # <<>>
  BY EmptyFacts
<1>2. Interval \in Nat \ {0}
  BY <1>1, LedgerAssumption DEF CheckpointsAhead, LedgerAssumption
<1>3. DOMAIN ledger = 1 .. Len(ledger) /\ Len(ledger) \in Nat
  BY SeqFacts DEF TypeOK
<1>4. c.count \in DOMAIN ledger /\ c.count \in Nat \ {0} /\ c.count % Interval = 0
  BY <1>3 DEF CheckpointsFaithful
<1>5. c.count >= Interval
  BY <1>2, <1>4, MultipleIsLarge
<1>6. c.window # NoWindow => /\ c.window.last = c.count /\ c.window.first = c.count - Interval + 1
                             /\ c.window.root \in {<<>>, Leaves(ledger, c.window.first, c.window.last)}
  BY DEF CheckpointsFaithful
<1> QED
  BY <1>2, <1>4, <1>5, <1>6

(* A window that repeats a checkpoint goes on to, and its root stays true. *)
LEMMA BackedStays ==
    ASSUME TypeOK, CheckpointsFaithful, CheckpointsAhead, NEW w \in Writers, WriterMoves(w),
           Elems(checkpoints) \subseteq Elems(checkpoints'),
           NEW window, window # NoWindow, Backed(window)
    PROVE  /\ window.last \in DOMAIN ledger'
           /\ CheckpointOf(window.last, window) \in Elems(checkpoints')
           /\ window.root = Leaves(ledger', window.first, window.last)
<1> DEFINE c == CheckpointOf(window.last, window)
<1>1. c \in Elems(checkpoints) /\ c.window = window /\ c.count = window.last
  BY DEF Backed, CheckpointOf
<1>2. window.first \in Nat \ {0} /\ window.last \in DOMAIN ledger
  BY <1>1, CheckpointFacts
<1> QED
  BY <1>2, LedgerGrows DEF Backed

(* So the checkpoints, anchors, windows and index there are stay true.     *)
LEMMA OldStays ==
    ASSUME TypeOK, DerivedInv, NEW w \in Writers, WriterMoves(w),
           Elems(checkpoints) \subseteq Elems(checkpoints')
    PROVE  /\ \A c \in Elems(checkpoints) :
                /\ c.count \in DOMAIN ledger' /\ c.count % Interval = 0
                /\ c.window # NoWindow =>
                     /\ c.window.last = c.count /\ c.window.first = c.count - Interval + 1
                     /\ c.window.root \in {<<>>, Leaves(ledger', c.window.first, c.window.last)}
           /\ \A i \in DOMAIN ledger : ledger'[i].window # NoWindow =>
                /\ ledger'[i].window.last < i
                /\ CheckpointOf(ledger'[i].window.last, ledger'[i].window) \in Elems(checkpoints')
                /\ ledger'[i].window.root = Leaves(ledger', ledger'[i].window.first, ledger'[i].window.last)
           /\ \A v \in Writers \ {w} : call'[v].window # NoWindow =>
                /\ call'[v].window.last \in DOMAIN ledger'
                /\ CheckpointOf(call'[v].window.last, call'[v].window) \in Elems(checkpoints')
                /\ call'[v].window.root = Leaves(ledger', call'[v].window.first, call'[v].window.last)
<1>1. CheckpointsFaithful /\ AnchorsFaithful /\ CheckpointsAhead /\ WindowsInHand
  BY DEF DerivedInv, DerivedDataFaithful
<1>2. ASSUME NEW c \in Elems(checkpoints)
      PROVE  /\ c.count \in DOMAIN ledger' /\ c.count % Interval = 0
             /\ c.window # NoWindow =>
                  /\ c.window.last = c.count /\ c.window.first = c.count - Interval + 1
                  /\ c.window.root \in {<<>>, Leaves(ledger', c.window.first, c.window.last)}
  BY <1>1, CheckpointFacts, LedgerGrows
<1>3. ASSUME NEW i \in DOMAIN ledger, ledger'[i].window # NoWindow
      PROVE  /\ ledger'[i].window.last < i
             /\ CheckpointOf(ledger'[i].window.last, ledger'[i].window) \in Elems(checkpoints')
             /\ ledger'[i].window.root = Leaves(ledger', ledger'[i].window.first, ledger'[i].window.last)
  <2> DEFINE window == ledger[i].window
  <2>1. ledger'[i].window = window /\ window # NoWindow
    BY <1>3, LedgerGrows
  <2>2. window.last < i /\ CheckpointOf(window.last, window) \in Elems(checkpoints)
        /\ window.root = Leaves(ledger, window.first, window.last)
    BY <1>1, <2>1 DEF AnchorsFaithful
  <2>3. window.last \in DOMAIN ledger
    <3>1. CheckpointOf(window.last, window).count = window.last
      BY DEF CheckpointOf
    <3> QED
      BY <1>1, <2>2, <3>1, CheckpointFacts
  <2> QED
    BY <1>1, <2>1, <2>2, <2>3, BackedStays DEF Backed
<1>4. ASSUME NEW v \in Writers \ {w}, call'[v].window # NoWindow
      PROVE  /\ call'[v].window.last \in DOMAIN ledger'
             /\ CheckpointOf(call'[v].window.last, call'[v].window) \in Elems(checkpoints')
             /\ call'[v].window.root = Leaves(ledger', call'[v].window.first, call'[v].window.last)
  <2>1. call'[v] = call[v]
    BY OthersUntouched
  <2>2. Backed(call[v].window)
    BY <1>1, <1>4, <2>1 DEF WindowsInHand
  <2> QED
    BY <1>1, <1>4, <2>1, <2>2, BackedStays
<1> QED
  BY <1>2, <1>3, <1>4

(* After EXEC the call goes on: to the checkpoint that is due, to queue    *)
(* the entry, or, if the reply was lost, to its next attempt or its end.   *)
LEMMA AfterAppendFacts ==
    ASSUME TypeOK, WindowsInHand, NEW w \in Writers, Appends(w)
    PROVE  /\ pc'[w] \in {"checkpoint", "enqueue", "watch", "idle"}
           /\ call'[w].window \in {NoWindow, call[w].window}
           /\ pc'[w] = "checkpoint" => /\ ~call[w].nested /\ ~call'[w].nested /\ Interval > 0
                                       /\ (Len(ledger) + 1) % Interval = 0
                                       /\ call'[w].slot = Len(ledger) + 1
                                       /\ call'[w].window = NoWindow
           /\ pc'[w] = "watch" => /\ call'[w].window = call[w].window
                                  /\ call'[w].nested = call[w].nested
           /\ faults' = 0 /\ ~call[w].nested /\ Interval > 0 /\ (Len(ledger) + 1) % Interval = 0
                => pc'[w] = "checkpoint"
<1> DEFINE n == Len(ledger) + 1
<1>1. /\ DOMAIN pc = Writers /\ DOMAIN call = Writers /\ DOMAIN call[w] = CallFields
      /\ pc[w] = "exec" /\ faults \in Nat
  BY DEF TypeOK, CallOK, Appends, ExecAppend, ReplyLost
<1>2. CASE ExecAppend(w)
  <2>1. /\ pc'[w] = AfterAppend(w, n)
        /\ call'[w].window = call[w].window /\ call'[w].nested = call[w].nested
        /\ ~call[w].nested => call'[w].slot = n
    BY <1>1, <1>2 DEF CallFields, ExecAppend
  <2>2. ~call[w].nested => call[w].window = NoWindow
    BY <1>1 DEF WindowsInHand, Unwritten
  <2> QED
    BY <2>1, <2>2 DEF AfterAppend, CheckpointDue
<1>3. CASE ReplyLost(w)
  <2>1. Retry(w) /\ faults' = faults + 1
    BY <1>3 DEF ReplyLost, Fault
  <2>2. CASE call[w].attempt + 1 < MaxRetries
    <3>1. call'[w] = Again(w) /\ pc'[w] = "watch"
      BY <1>1, <2>1, <2>2 DEF Retry
    <3>2. call'[w].window = call[w].window /\ call'[w].nested = call[w].nested
      BY <1>1, <3>1 DEF Again, CallFields
    <3> QED
      BY <1>1, <2>1, <3>1, <3>2
  <2>3. CASE ~(call[w].attempt + 1 < MaxRetries)
    <3>1. call'[w] \in {AfterAnchor(w), IdleCall} /\ pc'[w] \in {"enqueue", "idle"}
      BY <1>1, <2>1, <2>3 DEF Retry
    <3>2. IdleCall.window = NoWindow /\ AfterAnchor(w).window = NoWindow
      BY <1>1 DEF IdleCall, AfterAnchor, CallFields
    <3>3. call'[w].window = NoWindow
      BY <3>1, <3>2
    <3> QED
      BY <1>1, <2>1, <3>1, <3>3
  <2> QED
    BY <2>2, <2>3
<1> QED
  BY <1>2, <1>3 DEF Appends

(* EXEC adds an entry: an anchor that has a checkpoint behind it, or an    *)
(* entry where a checkpoint that is due comes next, unless the reply was   *)
(* lost.                                                                   *)
LEMMA AppendKeepsDerived ==
    ASSUME TypeOK, DerivedInv, NEW w \in Writers, Appends(w)
    PROVE  DerivedInv'
<1> DEFINE n == Len(ledger) + 1
<1>1. /\ CheckpointsFaithful /\ AnchorsFaithful /\ CheckpointsAhead /\ WindowsInHand
      /\ CheckpointsWhereDue /\ LookupSound
  BY DEF DerivedInv, DerivedDataFaithful
<1>2. /\ DOMAIN ledger = 1 .. Len(ledger) /\ Len(ledger) \in Nat /\ DOMAIN ledger' = 1 .. n
      /\ ledger'[n].window = call[w].window
      /\ Id(ledger'[n]) = <<call[w].req, call[w].attempt>>
      /\ \A i \in DOMAIN ledger : ledger'[i] = ledger[i]
  BY NewEntryFacts, NewEntryFields DEF Id
<1>3. /\ pc[w] = "exec" /\ UNCHANGED checkpoints /\ WriterMoves(w)
      /\ idIndex' \subseteq idIndex \cup {<<<<call[w].req, call[w].attempt>>, n>>}
  BY DEF Appends, ExecAppend, ReplyLost, IndexItem, WriterMoves, WriterStep, WriterFault
<1>4. \A v \in Writers \ {w} : UNCHANGED <<pc[v], call[v]>>
  BY <1>3, OthersUntouched
<1>5. /\ \A c \in Elems(checkpoints) :
                /\ c.count \in DOMAIN ledger' /\ c.count % Interval = 0
                /\ c.window # NoWindow =>
                     /\ c.window.last = c.count /\ c.window.first = c.count - Interval + 1
                     /\ c.window.root \in {<<>>, Leaves(ledger', c.window.first, c.window.last)}
      /\ \A i \in DOMAIN ledger : ledger'[i].window # NoWindow =>
                /\ ledger'[i].window.last < i
                /\ CheckpointOf(ledger'[i].window.last, ledger'[i].window) \in Elems(checkpoints')
                /\ ledger'[i].window.root = Leaves(ledger', ledger'[i].window.first, ledger'[i].window.last)
      /\ \A v \in Writers \ {w} : call'[v].window # NoWindow =>
                /\ call'[v].window.last \in DOMAIN ledger'
                /\ CheckpointOf(call'[v].window.last, call'[v].window) \in Elems(checkpoints')
                /\ call'[v].window.root = Leaves(ledger', call'[v].window.first, call'[v].window.last)
  BY <1>3, OldStays
<1>6. call[w].window # NoWindow =>
         /\ call[w].window.last \in DOMAIN ledger /\ call[w].window.last \in DOMAIN ledger'
         /\ CheckpointOf(call[w].window.last, call[w].window) \in Elems(checkpoints')
         /\ call[w].window.root = Leaves(ledger', call[w].window.first, call[w].window.last)
  <2>1. call[w].window # NoWindow => Backed(call[w].window)
    BY <1>1 DEF WindowsInHand
  <2> QED
    BY <1>1, <1>3, <2>1, BackedStays DEF Backed
<1>7. CheckpointsFaithful'
  BY <1>1, <1>3, <1>5 DEF CheckpointsFaithful
<1>8. AnchorsFaithful'
  BY <1>2, <1>5, <1>6 DEF AnchorsFaithful
<1>9. /\ pc'[w] \in {"checkpoint", "enqueue", "watch", "idle"}
      /\ call'[w].window \in {NoWindow, call[w].window}
      /\ pc'[w] = "checkpoint" => /\ ~call'[w].nested /\ Interval > 0 /\ n % Interval = 0
                                  /\ call'[w].slot = n /\ call'[w].window = NoWindow
      /\ pc'[w] = "watch" => call'[w].window = call[w].window /\ call'[w].nested = call[w].nested
      /\ faults' = 0 /\ ~call[w].nested /\ Interval > 0 /\ n % Interval = 0
           => pc'[w] = "checkpoint" /\ call'[w].slot = n
  BY <1>1, AfterAppendFacts
<1>10. CheckpointsWhereDue'
  <2> SUFFICES ASSUME faults' = 0, Interval > 0, NEW i \in DOMAIN ledger', i % Interval = 0
               PROVE  \/ ledger'[i].window # NoWindow
                      \/ \E c \in Elems(checkpoints') : c.count = i
                      \/ \E v \in Writers : pc'[v] = "checkpoint" /\ call'[v].slot = i
    BY DEF CheckpointsWhereDue
  <2>1. faults = 0
    BY DEF Appends, ExecAppend, ReplyLost, Fault, TypeOK
  <2>2. CASE i = n
    <3>1. call[w].nested => call[w].window # NoWindow
      BY <1>1, <1>3 DEF WindowsInHand, Unwritten
    <3> QED
      BY <1>2, <1>3, <1>9, <2>2, <3>1
  <2>3. CASE i \in DOMAIN ledger
    <3>1. \/ ledger[i].window # NoWindow
          \/ \E c \in Elems(checkpoints) : c.count = i
          \/ \E v \in Writers : pc[v] = "checkpoint" /\ call[v].slot = i
      BY <1>1, <2>1, <2>3 DEF CheckpointsWhereDue
    <3> QED
      BY <1>2, <1>3, <1>4, <2>3, <3>1
  <2> QED
    BY <1>2, <2>2, <2>3
<1>11. LookupSound'
  <2>1. \A p \in idIndex : p[2] \in DOMAIN ledger
    BY DEF TypeOK
  <2>2. ASSUME NEW p \in idIndex' PROVE Id(ledger'[p[2]]) = p[1]
    <3>1. CASE p \in idIndex
      BY <1>1, <1>2, <2>1, <3>1 DEF LookupSound
    <3>2. CASE p = <<<<call[w].req, call[w].attempt>>, n>>
      BY <1>2, <3>2
    <3> QED
      BY <1>3, <3>1, <3>2
  <2> QED
    BY <2>2 DEF LookupSound
<1>12. WindowsInHand'
  BY <1>1, <1>3, <1>4, <1>5, <1>6, <1>9 DEF WindowsInHand, Backed, Unwritten
<1>13. CheckpointsAhead'
  <2>1. \A c \in Elems(checkpoints) : c.count # n
    BY <1>1, <1>2 DEF CheckpointsFaithful
  <2> QED
    BY <1>1, <1>3, <1>4, <1>9, <2>1 DEF CheckpointsAhead
<1> QED
  BY <1>7, <1>8, <1>10, <1>11, <1>12, <1>13 DEF DerivedInv, DerivedDataFaithful

(* The three ends of the step that writes a checkpoint.                    *)
WritesCheckpoint(w) == Checkpoint(w) \/ CheckpointRootless(w) \/ CheckpointUploadFails(w)

(* It writes the window that ends at the entry of the call.                *)
LEMMA WindowFacts ==
    ASSUME TypeOK, CheckpointsAhead, NEW w \in Writers, WritesCheckpoint(w)
    PROVE  LET slot == call[w].slot IN
           /\ slot \in DOMAIN ledger /\ slot % Interval = 0 /\ Interval \in Nat \ {0}
           /\ \E x : /\ checkpoints' = Append(checkpoints, CheckpointOf(slot, x))
                     /\ x # NoWindow => /\ x.last = slot /\ x.first = slot - Interval + 1
                                        /\ x.root \in {<<>>, Leaves(ledger, x.first, x.last)}
                     /\ Checkpoint(w) /\ x # NoWindow => x.root = Leaves(ledger, x.first, x.last)
                     /\ MerkleEnabled /\ Checkpoint(w) => x # NoWindow
                     /\ Checkpoint(w) => x = WindowAt(slot)
<1> DEFINE slot == call[w].slot
<1>1. pc[w] = "checkpoint" /\ DOMAIN call = Writers
  BY DEF WritesCheckpoint, Checkpoint, CheckpointRootless, CheckpointUploadFails, TypeOK
<1>2. /\ slot \in DOMAIN ledger /\ slot \in Nat \ {0} /\ slot % Interval = 0
      /\ Interval \in Nat \ {0}
  BY <1>1, LedgerAssumption DEF TypeOK, CallOK, Debt, CheckpointsAhead, LedgerAssumption
<1>3. WindowStart(slot) = slot - Interval + 1
  <2>1. slot >= Interval
    BY <1>2, MultipleIsLarge
  <2> QED
    BY <1>2, <2>1 DEF WindowStart
<1>4. CASE MerkleEnabled
  <2> DEFINE x == WindowAt(slot)
             y == [WindowAt(slot) EXCEPT !.root = <<>>]
  <2>1. x = [first |-> slot - Interval + 1, last |-> slot, root |-> Leaves(ledger, slot - Interval + 1, slot)]
    BY <1>3, <1>4 DEF WindowAt
  <2>2. /\ x.last = slot /\ x.first = slot - Interval + 1 /\ x.root = Leaves(ledger, x.first, x.last)
        /\ y.last = slot /\ y.first = slot - Interval + 1 /\ y.root = <<>>
    <3> HIDE DEF slot
    <3> QED
      BY <2>1
  <2>3. x # NoWindow
    BY <1>2, <2>2 DEF NoWindow
  <2>4. CASE Checkpoint(w)
    BY <1>2, <2>2, <2>3, <2>4 DEF Checkpoint
  <2>5. CASE CheckpointUploadFails(w) /\ ~Checkpoint(w)
    BY <1>2, <2>2, <2>5 DEF CheckpointUploadFails
  <2>6. CASE CheckpointRootless(w) /\ ~Checkpoint(w)
    BY <1>2, <2>2, <2>6 DEF CheckpointRootless
  <2> QED
    BY <2>4, <2>5, <2>6 DEF WritesCheckpoint
<1>5. CASE ~MerkleEnabled
  <2>1. WindowAt(slot) = NoWindow
    BY <1>5 DEF WindowAt
  <2>2. checkpoints' = Append(checkpoints, CheckpointOf(slot, NoWindow))
    BY <1>5, <2>1 DEF WritesCheckpoint, Checkpoint, CheckpointRootless, CheckpointUploadFails
  <2> QED
    BY <1>2, <1>5, <2>1, <2>2
<1> QED
  BY <1>4, <1>5

(* A checkpoint is written: it is true, the only one of its entry, and its *)
(* window is at hand for the anchor.                                       *)
LEMMA CheckpointKeepsDerived ==
    ASSUME TypeOK, SingleTicket, DerivedInv, NEW w \in Writers, WritesCheckpoint(w)
    PROVE  DerivedInv'
<1> DEFINE slot == call[w].slot
<1>1. /\ CheckpointsFaithful /\ AnchorsFaithful /\ CheckpointsAhead /\ WindowsInHand
      /\ CheckpointsWhereDue /\ LookupSound
  BY DEF DerivedInv, DerivedDataFaithful
<1>2. /\ slot \in DOMAIN ledger /\ slot % Interval = 0 /\ Interval \in Nat \ {0}
      /\ \E x : /\ checkpoints' = Append(checkpoints, CheckpointOf(slot, x))
                /\ x # NoWindow => /\ x.last = slot /\ x.first = slot - Interval + 1
                                   /\ x.root \in {<<>>, Leaves(ledger, x.first, x.last)}
                /\ Checkpoint(w) /\ x # NoWindow => x.root = Leaves(ledger, x.first, x.last)
                /\ MerkleEnabled /\ Checkpoint(w) => x # NoWindow
                /\ Checkpoint(w) => x = WindowAt(slot)
  BY <1>1, WindowFacts
<1>3. PICK x : /\ checkpoints' = Append(checkpoints, CheckpointOf(slot, x))
               /\ x # NoWindow => /\ x.last = slot /\ x.first = slot - Interval + 1
                                  /\ x.root \in {<<>>, Leaves(ledger, x.first, x.last)}
               /\ Checkpoint(w) /\ x # NoWindow => x.root = Leaves(ledger, x.first, x.last)
               /\ MerkleEnabled /\ Checkpoint(w) => x # NoWindow
               /\ Checkpoint(w) => x = WindowAt(slot)
  BY <1>2
<1> DEFINE c == CheckpointOf(slot, x)
<1>4. /\ DOMAIN checkpoints = 1 .. Len(checkpoints) /\ Len(checkpoints) \in Nat
      /\ DOMAIN checkpoints' = 1 .. Len(checkpoints) + 1 /\ checkpoints'[Len(checkpoints) + 1] = c
      /\ \A i \in DOMAIN checkpoints : checkpoints'[i] = checkpoints[i]
      /\ Elems(checkpoints') = Elems(checkpoints) \cup {c} /\ c.count = slot /\ c.window = x
  <2>1. c.count = slot /\ c.window = x
    BY DEF CheckpointOf
  <2> HIDE DEF c
  <2> QED
    BY <1>3, <2>1, AppendFacts, SeqFacts DEF TypeOK, c
<1>5. /\ DOMAIN pc = Writers /\ DOMAIN call = Writers /\ DOMAIN call[w] = CallFields
      /\ pc[w] = "checkpoint" /\ ~call[w].nested
      /\ UNCHANGED <<ledger, idIndex>> /\ WriterMoves(w)
      /\ \A v \in Writers \ {w} : UNCHANGED <<pc[v], call[v]>>
  <2>1. WriterMoves(w)
    BY DEF WriterMoves, WriterStep, WriterFault, WritesCheckpoint
  <2> QED
    BY <1>1, <2>1, OthersUntouched
       DEF WritesCheckpoint, Checkpoint, CheckpointRootless, CheckpointUploadFails, TypeOK, CallOK,
           CheckpointsAhead
<1>6. \A d \in Elems(checkpoints) : d.count # slot
  BY <1>1, <1>5 DEF CheckpointsAhead
<1>7. CheckpointsFaithful'
  <2>1. \A i \in DOMAIN checkpoints : checkpoints[i].count # slot
    BY <1>6 DEF Elems
  <2>2. \A i, j \in DOMAIN checkpoints' : checkpoints'[i].count = checkpoints'[j].count => i = j
    <3> HIDE DEF c, slot
    <3> QED
      BY <1>1, <1>4, <2>1 DEF CheckpointsFaithful
  <2>3. \A d \in Elems(checkpoints') :
          /\ d.count \in DOMAIN ledger' /\ d.count % Interval = 0
          /\ d.window # NoWindow =>
               /\ d.window.last = d.count /\ d.window.first = d.count - Interval + 1
               /\ d.window.root \in {<<>>, Leaves(ledger', d.window.first, d.window.last)}
    <3>1. \A d \in Elems(checkpoints) :
          /\ d.count \in DOMAIN ledger' /\ d.count % Interval = 0
          /\ d.window # NoWindow =>
               /\ d.window.last = d.count /\ d.window.first = d.count - Interval + 1
               /\ d.window.root \in {<<>>, Leaves(ledger', d.window.first, d.window.last)}
      BY <1>1, <1>5 DEF CheckpointsFaithful
    <3> HIDE DEF c, slot
    <3> QED
      BY <1>2, <1>3, <1>4, <1>5, <3>1
  <2> QED
    BY <2>2, <2>3 DEF CheckpointsFaithful
<1>8. AnchorsFaithful' /\ LookupSound'
  BY <1>1, <1>4, <1>5 DEF AnchorsFaithful, LookupSound
<1>9. CheckpointsWhereDue'
  <2> SUFFICES ASSUME faults' = 0, Interval > 0, NEW i \in DOMAIN ledger', i % Interval = 0
               PROVE  \/ ledger'[i].window # NoWindow
                      \/ \E d \in Elems(checkpoints') : d.count = i
                      \/ \E v \in Writers : pc'[v] = "checkpoint" /\ call'[v].slot = i
    BY DEF CheckpointsWhereDue
  <2>1. faults = 0
    BY DEF WritesCheckpoint, Checkpoint, CheckpointRootless, CheckpointUploadFails, Fault, TypeOK
  <2>2. \/ ledger[i].window # NoWindow
        \/ \E d \in Elems(checkpoints) : d.count = i
        \/ \E v \in Writers : pc[v] = "checkpoint" /\ call[v].slot = i
    BY <1>1, <1>5, <2>1 DEF CheckpointsWhereDue
  <2> QED
    BY <1>4, <1>5, <2>2
<1>10. \/ call'[w].window = NoWindow /\ pc'[w] \in {"enqueue", "idle"}
       \/ /\ Checkpoint(w) /\ call'[w].window = x /\ pc'[w] \in {"anchor", "enqueue"}
          /\ pc'[w] = "anchor" => x # NoWindow
  <2>1. call[w].window = NoWindow
    BY <1>1, <1>5 DEF WindowsInHand
  <2>2. CASE Checkpoint(w)
    BY <1>3, <1>5, <2>2 DEF Checkpoint, CallFields
  <2>3. CASE CheckpointRootless(w) \/ CheckpointUploadFails(w)
    BY <1>5, <2>1, <2>3 DEF CheckpointRootless, CheckpointUploadFails, IdleCall
  <2> QED
    BY <2>2, <2>3 DEF WritesCheckpoint
<1>11. \A v \in Writers \ {w} : call'[v].window # NoWindow =>
                /\ call'[v].window.last \in DOMAIN ledger'
                /\ CheckpointOf(call'[v].window.last, call'[v].window) \in Elems(checkpoints')
                /\ call'[v].window.root = Leaves(ledger', call'[v].window.first, call'[v].window.last)
  BY <1>4, <1>5, OldStays
<1>12. WindowsInHand'
  <2>1. call'[w].window # NoWindow =>
                /\ call'[w].window.last \in DOMAIN ledger'
                /\ CheckpointOf(call'[w].window.last, call'[w].window) \in Elems(checkpoints')
                /\ call'[w].window.root = Leaves(ledger', call'[w].window.first, call'[w].window.last)
    BY <1>2, <1>3, <1>4, <1>5, <1>10
  <2>2. /\ pc'[w] \in {"anchor", "enqueue", "idle"}
        /\ pc'[w] = "anchor" => call'[w].window # NoWindow
    BY <1>10
  <2> QED
    BY <1>1, <1>5, <1>11, <2>1, <2>2 DEF WindowsInHand, Backed, Unwritten
<1>13. CheckpointsAhead'
  <2>1. pc'[w] # "checkpoint" /\ Interval > 0
    BY <1>2, <1>10
  <2>2. ASSUME NEW v \in Writers \ {w}, pc[v] = "checkpoint"
        PROVE  call[v].slot # slot
    <3>1. call[v].slot # 0 /\ slot # 0
      BY <1>5, <2>2 DEF TypeOK, CallOK
    <3> QED
      BY <3>1 DEF SingleTicket, Debt
  <2> QED
    BY <1>1, <1>4, <1>5, <2>1, <2>2 DEF CheckpointsAhead
<1> QED
  BY <1>7, <1>8, <1>9, <1>12, <1>13 DEF DerivedInv, DerivedDataFaithful

(* Every other step leaves the ledger and what is derived from it alone.   *)
LEMMA OthersKeepDerived ==
    ASSUME TypeOK, DerivedInv, NEW w \in Writers, WriterMoves(w), ~Appends(w), ~WritesCheckpoint(w)
    PROVE  DerivedInv'
<1>1. /\ CheckpointsFaithful /\ AnchorsFaithful /\ CheckpointsAhead /\ WindowsInHand
      /\ CheckpointsWhereDue /\ LookupSound
  BY DEF DerivedInv, DerivedDataFaithful
<1>2. /\ \/ Begin(w) \/ Watch(w) \/ ExecConflict(w) \/ ConnectionLost(w) \/ Anchor(w)
         \/ Enqueue(w) \/ Abandon(w) \/ AnchorRaises(w)
      /\ UNCHANGED <<ledger, checkpoints, idIndex>>
  BY DEF Appends, WriterMoves, WriterStep, WriterFault, WritesCheckpoint, Begin, Watch, ExecConflict,
         ConnectionLost, Anchor, Enqueue, Abandon, AnchorRaises
<1>3. /\ DOMAIN pc = Writers /\ DOMAIN call = Writers /\ DOMAIN call[w] = CallFields
      /\ \A v \in Writers \ {w} : UNCHANGED <<pc[v], call[v]>>
  BY OthersUntouched DEF TypeOK, CallOK
<1>4. IdleCall.window = NoWindow /\ ~IdleCall.nested /\ AfterAnchor(w).window = NoWindow
      /\ ~AfterAnchor(w).nested
  BY <1>3 DEF IdleCall, AfterAnchor, CallFields
<1>5. /\ pc'[w] # "checkpoint"
      /\ call'[w].window \in {NoWindow, call[w].window}
      /\ pc'[w] # "anchor"
      /\ call'[w].nested /\ Unwritten(w)' => call'[w].window # NoWindow
      /\ ~call'[w].nested /\ Unwritten(w)' => call'[w].window = NoWindow
  <2>1. CASE Begin(w)
    BY <1>3, <1>4, <2>1 DEF Begin, IdleCall
  <2>2. CASE Watch(w)
    BY <1>1, <1>3, <2>2 DEF Watch, CallFields, WindowsInHand, Unwritten
  <2>3. CASE ExecConflict(w) \/ ConnectionLost(w)
    <3>0. Retry(w) /\ pc[w] = "exec"
      BY <2>3 DEF ExecConflict, ConnectionLost
    <3>1. CASE call[w].attempt + 1 < MaxRetries
      <4>1. /\ call'[w].window = call[w].window /\ call'[w].nested = call[w].nested
            /\ pc'[w] = "watch" /\ Unwritten(w)
        BY <1>3, <3>0, <3>1 DEF Retry, Again, CallFields, Unwritten
      <4> QED
        BY <1>1, <4>1 DEF WindowsInHand
    <3>2. CASE ~(call[w].attempt + 1 < MaxRetries)
      <4>1. call'[w] \in {AfterAnchor(w), IdleCall} /\ pc'[w] \in {"enqueue", "idle"}
        BY <1>3, <3>0, <3>2 DEF Retry
      <4> QED
        BY <1>4, <4>1 DEF Unwritten
    <3> QED
      BY <3>1, <3>2
  <2>4. CASE Anchor(w)
    <3>1. CASE Critical
      <4>1. call'[w] = AfterAnchor(w) /\ pc'[w] = "enqueue"
        BY <1>3, <2>4, <3>1 DEF Anchor
      <4> QED
        BY <1>4, <4>1 DEF Unwritten
    <3>2. CASE ~Critical
      <4>1. call'[w].window = call[w].window /\ call'[w].nested /\ pc'[w] = "watch"
            /\ pc[w] = "anchor"
        <5>1. /\ pc' = [pc EXCEPT ![w] = "watch"] /\ pc[w] = "anchor"
              /\ call' = [call EXCEPT ![w] = [@ EXCEPT !.nested = TRUE, !.req = issued + 1,
                                                      !.attempt = 0, !.seen = NoHash]]
          BY <2>4, <3>2, Zenon DEF Anchor
        <5>2. call'[w] = [call[w] EXCEPT !.nested = TRUE, !.req = issued + 1,
                                         !.attempt = 0, !.seen = NoHash]
          BY <1>3, <5>1
        <5>3. "window" \in DOMAIN call[w] /\ "nested" \in DOMAIN call[w]
          BY <1>3, Zenon DEF CallFields
        <5>4. call'[w].window = call[w].window /\ call'[w].nested
          BY <5>2, <5>3
        <5> QED
          BY <1>3, <5>1, <5>4
      <4> QED
        BY <1>1, <4>1 DEF WindowsInHand
    <3> QED
      BY <3>1, <3>2
  <2>5. CASE Enqueue(w)
    <3>1. call'[w] = IF call[w].nested THEN AfterAnchor(w) ELSE IdleCall
      BY <1>3, <2>5 DEF Enqueue
    <3>2. pc'[w] \in {"idle", "enqueue"}
      BY <1>3, <2>5 DEF Enqueue, TypeOK
    <3> QED
      BY <1>4, <3>1, <3>2 DEF Unwritten
  <2>6. CASE Abandon(w)
    <3>1. call'[w] = IdleCall /\ pc'[w] = "idle"
      BY <1>3, <2>6 DEF Abandon
    <3> QED
      BY <1>4, <3>1 DEF Unwritten
  <2>7. CASE AnchorRaises(w)
    <3>1. call'[w] = AfterAnchor(w) /\ pc'[w] = "enqueue"
      BY <1>3, <2>7 DEF AnchorRaises
    <3> QED
      BY <1>4, <3>1 DEF Unwritten
  <2> QED
    BY <1>2, <2>1, <2>2, <2>3, <2>4, <2>5, <2>6, <2>7
<1>6. faults' = 0 => faults = 0 /\ pc[w] # "checkpoint"
  BY <1>2 DEF Begin, Watch, ExecConflict, ConnectionLost, Anchor, Enqueue, Abandon, AnchorRaises, Fault, TypeOK
<1>7. CheckpointsFaithful' /\ AnchorsFaithful' /\ LookupSound'
  BY <1>1, <1>2 DEF CheckpointsFaithful, AnchorsFaithful, LookupSound
<1>8. CheckpointsWhereDue'
  BY <1>1, <1>2, <1>3, <1>6 DEF CheckpointsWhereDue
<1>9. WindowsInHand'
  BY <1>1, <1>2, <1>3, <1>5 DEF WindowsInHand, Backed, Unwritten
<1>10. CheckpointsAhead'
  BY <1>1, <1>2, <1>3, <1>5 DEF CheckpointsAhead
<1> QED
  BY <1>7, <1>8, <1>9, <1>10 DEF DerivedInv, DerivedDataFaithful

(* At first nothing is derived.                                            *)
LEMMA DerivedInit == Init => DerivedInv
<1> SUFFICES ASSUME Init PROVE DerivedInv
  OBVIOUS
<1>1. DOMAIN ledger = {} /\ DOMAIN checkpoints = {} /\ Elems(checkpoints) = {} /\ checkpoints = <<>>
  BY EmptyFacts DEF Init
<1>2. \A w \in Writers : pc[w] = "idle" /\ call[w].window = NoWindow /\ ~call[w].nested
  BY DEF Init, IdleCall
<1>3. CheckpointsFaithful /\ AnchorsFaithful /\ CheckpointsWhereDue /\ LookupSound
  BY <1>1 DEF Init, CheckpointsFaithful, AnchorsFaithful, CheckpointsWhereDue, LookupSound
<1>4. WindowsInHand /\ CheckpointsAhead
  BY <1>1, <1>2 DEF WindowsInHand, CheckpointsAhead, Unwritten
<1> QED
  BY <1>3, <1>4 DEF DerivedInv, DerivedDataFaithful

(* ledger_write.py, lines 305 to 400: checkpoints, anchors and the index   *)
(* agree with the ledger although each is written awaits after its entry,  *)
(* and without a fault none that is due is missing.                        *)
THEOREM DerivedFaithful == Spec => []DerivedDataFaithful
<1>1. LedgerInv /\ DerivedInv /\ [Next]_ledgerVars => DerivedInv'
  <2> SUFFICES ASSUME LedgerInv, DerivedInv, [Next]_ledgerVars PROVE DerivedInv'
    OBVIOUS
  <2>1. CASE UNCHANGED ledgerVars
    <3>1. UNCHANGED <<ledger, idIndex, checkpoints, pc, call, faults>>
      BY <2>1 DEF ledgerVars
    <3>2. DerivedDataFaithful'
      BY <3>1 DEF DerivedInv, DerivedDataFaithful, CheckpointsFaithful, AnchorsFaithful,
                  CheckpointsWhereDue, LookupSound
    <3>3. WindowsInHand' /\ CheckpointsAhead'
      BY <3>1 DEF DerivedInv, WindowsInHand, CheckpointsAhead, Backed, Unwritten
    <3> QED
      BY <3>2, <3>3 DEF DerivedInv
  <2>2. CASE Next
    BY <2>2, AppendKeepsDerived, CheckpointKeepsDerived, OthersKeepDerived DEF Next, WriterMoves, LedgerInv
  <2> QED
    BY <2>1, <2>2
<1>2. DerivedInv => DerivedDataFaithful
  BY DEF DerivedInv
<1> QED
  BY <1>1, <1>2, DerivedInit, InvariantHolds, PTL DEF Spec
=============================================================================
