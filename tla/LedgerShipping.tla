-------------------------- MODULE LedgerShipping --------------------------
(***************************************************************************)
(* Copying the signed ledger to S3 (chimera/ledger_s3_sync.py) and the     *)
(* check of the copy (verify_ledger_from_s3, ledger_verify_helpers.py).    *)
(* The signing worker pushes every entry it has signed on a Redis list.    *)
(* Each shipper is one s3_ledger_sync_loop: it pops the list into a batch  *)
(* in memory and now and then appends the batch to the object of the day,  *)
(* by reading the object and writing it back longer.  Whether 60 seconds   *)
(* have passed since the last flush is left open: it may be so at any time.*)
(***************************************************************************)
EXTENDS Naturals, Sequences, SequencesExt, FiniteSets

CONSTANTS
    Shippers,       \* the sync loops there may be, in one process or in several
    ShipEntries,    \* signed entries: position n follows position n - 1 in the chain
    ShipDays,       \* days, in order; each has its object
    MaxShipMishaps  \* bound of the model: lost replies, errors, stops, crashes

ASSUME ShippingAssumption ==
    /\ ShipEntries \in Nat /\ ShipDays \in Nat \ {0}
    /\ MaxShipMishaps \in Nat /\ IsFiniteSet(Shippers)

Days == 1 .. ShipDays

VARIABLES
    loops,          \* the sync loops that were started; no entry point starts one
    offered,        \* the entries pushed so far, in the order of the pushes
    shipBuffer,     \* apex:signed_ledger_buffer
    today,          \* the date
    object,         \* the S3 object of each day
    shipper,        \* each loop: [at, batch, day, copy]
    shipMishaps,    \* faults so far
    overlaps        \* flushes that began while another loop was flushing

shipVars == <<loops, offered, shipBuffer, today, object, shipper, shipMishaps, overlaps>>

ShipInit ==
    /\ loops \in SUBSET Shippers
    /\ offered = <<>> /\ shipBuffer = <<>> /\ today = 1
    /\ object = [d \in Days |-> <<>>]
    /\ shipper = [s \in Shippers |-> [at |-> "pop", batch |-> <<>>, day |-> 1, copy |-> <<>>]]
    /\ shipMishaps = 0 /\ overlaps = 0

ShipMishap == shipMishaps < MaxShipMishaps /\ shipMishaps' = shipMishaps + 1

(* The worker signs in the order of its queue, which re-queued positions   *)
(* leave: any entry may be the next.                                       *)
Offer(e) ==
    /\ e \notin ToSet(offered)
    /\ offered' = Append(offered, e)
    /\ shipBuffer' = Append(shipBuffer, e)
    /\ UNCHANGED <<loops, today, object, shipper, shipMishaps, overlaps>>

(* LPOP; with nothing to pop the loop still looks whether to flush.        *)
ShipPop(s) ==
    /\ shipper[s].at = "pop"
    /\ \/ /\ shipBuffer # <<>>
          /\ shipBuffer' = Tail(shipBuffer)
          /\ shipper' = [shipper EXCEPT ![s].at = "decide", ![s].batch = Append(@, Head(shipBuffer))]
       \/ /\ shipBuffer = <<>> /\ shipper[s].batch # <<>>
          /\ shipper' = [shipper EXCEPT ![s].at = "decide"]
          /\ UNCHANGED shipBuffer
    /\ UNCHANGED <<loops, offered, today, object, shipMishaps, overlaps>>

(* The reply of the LPOP is lost: the entry is off the list and nowhere.   *)
ShipPopLost(s) ==
    /\ ShipMishap
    /\ shipper[s].at = "pop" /\ shipBuffer # <<>>
    /\ shipBuffer' = Tail(shipBuffer)
    /\ UNCHANGED <<loops, offered, today, object, shipper, overlaps>>

(* should_flush is false; or it is true and the S3 client cannot be made,  *)
(* which the loop survives with the batch kept for its next flush.  So the *)
(* loop may go on whatever the length and the age of its batch.            *)
ShipGoOn(s) ==
    /\ shipper[s].at = "decide"
    /\ shipper' = [shipper EXCEPT ![s].at = "pop"]
    /\ UNCHANGED <<loops, offered, shipBuffer, today, object, shipMishaps, overlaps>>

(* should_flush: the key is of today, the existing object is read.         *)
ShipFlush(s) ==
    /\ shipper[s].at = "decide" /\ shipper[s].batch # <<>>
    /\ shipper' = [shipper EXCEPT ![s].at = "put", ![s].day = today, ![s].copy = object[today]]
    /\ overlaps' = overlaps + Cardinality({o \in loops : shipper[o].at = "put"})
    /\ UNCHANGED <<loops, offered, shipBuffer, today, object, shipMishaps>>

(* Mutant of BodyOf: the object is replaced by the batch. *)
OnlyTheBatch(s) == shipper[s].batch

BodyOf(s)     == shipper[s].copy \o shipper[s].batch
AfterFlush(s) == [shipper[s] EXCEPT !.at = "pop", !.batch = <<>>, !.copy = <<>>]

(* put_object of the body read and the batch; then the batch is new.       *)
ShipPut(s) ==
    /\ shipper[s].at = "put"
    /\ object' = [object EXCEPT ![shipper[s].day] = BodyOf(s)]
    /\ shipper' = [shipper EXCEPT ![s] = AfterFlush(s)]
    /\ UNCHANGED <<loops, offered, shipBuffer, today, shipMishaps, overlaps>>

(* No bucket, or an error of S3, which upload_to_s3 swallows: the batch is *)
(* dropped all the same.                                                   *)
ShipPutFails(s) ==
    /\ ShipMishap
    /\ shipper[s].at = "put"
    /\ shipper' = [shipper EXCEPT ![s] = AfterFlush(s)]
    /\ UNCHANGED <<loops, offered, shipBuffer, today, object, overlaps>>

(* The stop event, a cancellation or a crash, and the loop of the next     *)
(* process: what the batch held is gone.                                   *)
ShipRestart(s) ==
    /\ ShipMishap
    /\ shipper' = [shipper EXCEPT ![s] = AfterFlush(s)]
    /\ UNCHANGED <<loops, offered, shipBuffer, today, object, overlaps>>

ShipNextDay ==
    /\ today < ShipDays
    /\ today' = today + 1
    /\ UNCHANGED <<loops, offered, shipBuffer, object, shipper, shipMishaps, overlaps>>

ShipNext ==
    \/ \E e \in 1 .. ShipEntries : Offer(e)
    \/ \E s \in loops : ShipPop(s) \/ ShipPopLost(s) \/ ShipGoOn(s) \/ ShipFlush(s)
                             \/ ShipPut(s) \/ ShipPutFails(s) \/ ShipRestart(s)
    \/ ShipNextDay

---------------------------------------------------------------------------
(* verify_ledger_from_s3: the objects in the order of their keys, and each *)
(* entry has to name the one before it, the first none.                    *)
LastBefore(day) ==
    LET full == {d \in Days : d < day /\ object[d] # <<>>}
    IN  IF full = {} THEN 0
        ELSE LET d == CHOOSE d \in full : \A c \in full : c <= d IN object[d][Len(object[d])]
S3Verifies ==
    \A d \in Days : \A i \in DOMAIN object[d] :
        object[d][i] = 1 + (IF i = 1 THEN LastBefore(d) ELSE object[d][i - 1])

(* The entries of a sequence follow the entry n in the chain.              *)
Follow(seq, n) == \A i \in DOMAIN seq : seq[i] = n + i

(* The copy tells the truth about the ledger.  No entry is ever on S3      *)
(* twice, whatever fails and however the loops interleave.  An entry that  *)
(* was signed is on the list, in a batch or on S3, unless a fault or two   *)
(* flushes at once lost it.  And when one loop alone shipped a ledger that *)
(* was signed in the order of its chain, the check of the copy passes, and *)
(* the batch goes on where it ends, the list where the batch ends, as far  *)
(* as entries were signed.                                                 *)
ShippedOnce ==
    \A c, d \in Days : \A i \in DOMAIN object[c], j \in DOMAIN object[d] :
        object[c][i] = object[d][j] => c = d /\ i = j
NothingLost ==
    shipMishaps = 0 /\ overlaps = 0 =>
        ToSet(offered) = ToSet(shipBuffer) \cup (UNION {ToSet(object[d]) : d \in Days})
                           \cup (UNION {ToSet(shipper[s].batch) : s \in loops})
ChainShipped ==
    shipMishaps = 0 /\ Cardinality(loops) = 1 /\ Follow(offered, 0) =>
        /\ S3Verifies
        /\ \A s \in loops :
              LET last == LastBefore(ShipDays + 1) then == last + Len(shipper[s].batch)
              IN  /\ Follow(shipper[s].batch, last) /\ Follow(shipBuffer, then)
                  /\ Len(offered) = then + Len(shipBuffer)
ReplicaFaithful == ShippedOnce /\ NothingLost /\ ChainShipped

ShipSpec == ShipInit /\ [][ShipNext]_shipVars

(* The inductive invariant.  An entry is in one place: on the list, in the *)
(* batch of one loop, or of one day, whose entries are those that its      *)
(* object has or a flush will write to it; and there it is once.           *)
Flushing(s) == shipper[s].at = "put"
DayEntries(d) ==
    ToSet(object[d]) \cup
    (UNION {ToSet(shipper[s].copy) : s \in {o \in Shippers : Flushing(o) /\ shipper[o].day = d}})
ShipPlaces == {<<"list", 0>>} \cup {<<"batch", s>> : s \in Shippers} \cup {<<"day", d>> : d \in Days}
Holds(place) ==
    CASE place[1] = "list"  -> ToSet(shipBuffer)
      [] place[1] = "batch" -> ToSet(shipper[place[2]].batch)
      [] place[1] = "day"   -> DayEntries(place[2])

ShipTypeOK ==
    /\ loops \subseteq Shippers /\ today \in Days /\ shipMishaps \in Nat /\ overlaps \in Nat
    /\ offered \in Seq(1 .. ShipEntries) /\ shipBuffer \in Seq(1 .. ShipEntries)
    /\ object \in [Days -> Seq(1 .. ShipEntries)]
    /\ shipper \in [Shippers -> [at : {"pop", "decide", "put"}, batch : Seq(1 .. ShipEntries),
                                 day : Days, copy : Seq(1 .. ShipEntries)]]
    /\ \A s \in Shippers \ loops : ~Flushing(s)

InOnePlace ==
    \A p \in ShipPlaces : /\ Holds(p) \subseteq ToSet(offered)
                          /\ \A q \in ShipPlaces \ {p} : Holds(p) \cap Holds(q) = {}
OnceThere ==
    /\ IsInjective(shipBuffer) /\ \A d \in Days : IsInjective(object[d])
    /\ \A s \in Shippers : IsInjective(shipper[s].batch) /\ (Flushing(s) => IsInjective(shipper[s].copy))

(* Without two flushes at once a flush has read what is in the object.     *)
CopiesCurrent ==
    overlaps = 0 => \A s \in Shippers : Flushing(s) =>
        /\ shipper[s].copy = object[shipper[s].day]
        /\ \A o \in Shippers \ {s} : ~Flushing(o)

(* One loop writes the objects in the order of their days.                 *)
OneLoopInOrder ==
    \A s \in loops : loops = {s} =>
        /\ overlaps = 0
        /\ shipper[s].day <= today
        /\ \A d \in Days : d > (IF Flushing(s) THEN shipper[s].day ELSE today) => object[d] = <<>>

ShipInv ==
    /\ ShipTypeOK /\ InOnePlace /\ OnceThere /\ CopiesCurrent /\ OneLoopInOrder
    /\ NothingLost /\ ChainShipped
=============================================================================
