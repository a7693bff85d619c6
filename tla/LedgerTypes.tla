---------------------------- MODULE LedgerTypes ----------------------------
(***************************************************************************)
(* The data every ledger module talks about.  A SHA-256 hash is modelled   *)
(* as what it was computed from, which makes it free of collisions; a      *)
(* Merkle root is modelled as the sequence of leaves it was computed from, *)
(* for the same reason.  Positions count from 1, one more than the indices *)
(* the code uses.                                                          *)
(***************************************************************************)
EXTENDS Integers, Sequences

(* prev_hash = None, the predecessor of the first entry. *)
NoHash == <<>>

(* compute_entry_hash(payload, prev_hash). *)
Hash(payload, prev) == <<payload, prev>>

(* The payload of an entry, known by its entry_id: every attempt to append *)
(* a request makes a fresh UUID and time stamp.                            *)
Id(e) == <<e.req, e.try>>

(* A Merkle window: positions first..last and the root over their hashes.  *)
(* NoWindow stands for an absent one (merkle_* = None).                    *)
NoWindow == [first |-> 0, last |-> 0, root |-> <<>>]

(* extract_entry_hash_leaves over the entries first..last of log. *)
Leaves(log, first, last) == [i \in 1 .. (last - first + 1) |-> log[first + i - 1].hash]

Pending  == "pending_kms"
Signed   == "kms_signed"
Failed   == "kms_failed"
Mismatch == "hash_mismatch"
Statuses == {Pending, Signed, Failed, Mismatch}

LastHash(log) == IF log = <<>> THEN NoHash ELSE log[Len(log)].hash

(* The entry verify_ledger_chain_for_api accepts at position i: its stored *)
(* prev_hash is the hash of its predecessor and its hash recomputes.       *)
LinkOK(log, i) ==
    /\ log[i].prev = IF i = 1 THEN NoHash ELSE log[i - 1].hash
    /\ log[i].hash = Hash(Id(log[i]), log[i].prev)

Elems(s) == {s[i] : i \in DOMAIN s}

(* A finite sequence, of whatever values. *)
IsSeq(s) == s \in Seq(Elems(s))
=============================================================================
