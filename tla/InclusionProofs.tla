-------------------------- MODULE InclusionProofs --------------------------
(***************************************************************************)
(* The Merkle tree over a window of the ledger (chimera/kms_signer.py),    *)
(* the inclusion proof the service gives of an entry (verify_entry_        *)
(* inclusion of ledger_verify_routes.py) and the certificate that          *)
(* verify_proof.py makes of it offline, on a ledger whose stored fields    *)
(* may be changed at any time, before a window is anchored and after.      *)
(* Positions count from 1, and hashes are what they were computed from, as *)
(* in LedgerTypes; an anchor is made of a window that ends at a multiple   *)
(* of the interval, any time after.                                        *)
(***************************************************************************)
EXTENDS LedgerTypes, FiniteSets

CONSTANTS
    Intervals,     \* bound of the model: lengths of a window
    MaxBook,       \* bound of the model: entries
    SearchLimit,   \* positions searched for the anchor of an entry
    MaxDamage      \* bound of the model: stored fields that change

ASSUME ProofsAssumption ==
    Intervals \subseteq Nat \ {0} /\ MaxBook \in Nat /\ SearchLimit \in Nat \ {0} /\ MaxDamage \in Nat

VARIABLES
    bookInterval,  \* APEX_CHECKPOINT_INTERVAL
    book,          \* entries as stored: [payload, prev, hash, signature]
    original,      \* entries as they were appended
    anchored,      \* the leaves each anchor was made of, of other entries none
    damage         \* fields that changed

bookVars == <<bookInterval, book, original, anchored, damage>>

Missing     == <<"no_hash">>
Unsigned    == <<"no_signature">>
Plain(n)    == [id |-> n, window |-> NoWindow]
IsAnchor(e) == e.payload.window # NoWindow
Message(e)  == <<e.payload, e.prev, e.hash>>    \* the canonical JSON that is signed

-----------------------------------------------------------------------------
(* A level of the tree: the last node of an odd number is repeated.        *)
Node(l, r)  == <<"node", l, r>>
Even(level) == IF Len(level) % 2 = 0 THEN level ELSE Append(level, level[Len(level)])
UpperLevel(level) == [i \in 1 .. Len(Even(level)) \div 2 |->
                         Node(Even(level)[2 * i - 1], Even(level)[2 * i])]

(* The levels of the tree over the leaves, and the height at which the     *)
(* loop stops: one node is left.                                           *)
LevelsOf(leaves) ==
    LET level[h \in 0 .. Len(leaves)] == IF h = 0 THEN leaves ELSE UpperLevel(level[h - 1])
    IN  level
Height(leaves) == CHOOSE h \in 0 .. Len(leaves) :
    /\ Len(LevelsOf(leaves)[h]) <= 1
    /\ \A k \in 0 .. h - 1 : Len(LevelsOf(leaves)[k]) > 1

MerkleRoot(leaves) == LevelsOf(leaves)[Height(leaves)][1]

(* compute_merkle_inclusion_proof_hex of the leaf at a position: its index *)
(* on a level, counted from 0, halves from level to level, and its sibling *)
(* there is index ^ 1.                                                     *)
IndexOn(pos, levels) ==
    LET index[h \in 0 .. levels] == IF h = 0 THEN pos - 1 ELSE index[h - 1] \div 2
    IN  index
OwnSibling(index) == IF index % 2 = 0 THEN index ELSE index - 1  \* mutant
Sibling(index)    == IF index % 2 = 0 THEN index + 1 ELSE index - 1
MerkleProof(leaves, pos) ==
    LET index == IndexOn(pos, Len(leaves))
    IN  [h \in 1 .. Height(leaves) |->
            [node |-> Even(LevelsOf(leaves)[h - 1])[Sibling(index[h - 1]) + 1],
             left |-> index[h - 1] % 2 = 1]]

(* merkle_root_from_proof of verify_proof.py, and the hashes on its way.   *)
HashesOf(leaf, proof) ==
    LET hash[h \in 0 .. Len(proof)] ==
          IF h = 0 THEN leaf
          ELSE IF proof[h].left THEN Node(proof[h].node, hash[h - 1])
          ELSE Node(hash[h - 1], proof[h].node)
    IN  hash
RootFrom(leaf, proof) == HashesOf(leaf, proof)[Len(proof)]

-----------------------------------------------------------------------------
(* The hashes a window stores, an entry without one left out.              *)
KeptIn(w) == {k \in w.first .. w.last : book[k].hash # Missing}
Ith(S, i) == CHOOSE k \in S : Cardinality({l \in S : l <= k}) = i
StoredLeaves(w) == [i \in 1 .. Cardinality(KeptIn(w)) |-> book[Ith(KeptIn(w), i)].hash]

BookInit ==
    /\ bookInterval \in Intervals /\ damage = 0
    /\ book = <<>> /\ original = <<>> /\ anchored = <<>>

(* An entry links to the hash the last one stores now, if it stores one.   *)
Append1(payload, leaves) ==
    LET prev == IF book = <<>> \/ book[Len(book)].hash = Missing THEN NoHash
                ELSE book[Len(book)].hash
        e    == [payload |-> payload, prev |-> prev, hash |-> Hash(payload, prev),
                 signature |-> Unsigned]
    IN  /\ Len(book) < MaxBook
        /\ book' = Append(book, e) /\ original' = Append(original, e)
        /\ anchored' = Append(anchored, leaves)
        /\ UNCHANGED <<bookInterval, damage>>

AppendPlain == Append1(Plain(Len(book) + 1), <<>>)

(* The anchor of a window: its root is that of the hashes stored by then,  *)
(* unless none is.                                                         *)
AppendAnchor(n) ==
    LET first  == IF n < bookInterval THEN 1 ELSE n - bookInterval + 1
        bounds == [first |-> first, last |-> n]
    IN  /\ n \in DOMAIN book /\ n % bookInterval = 0
        /\ \A k \in DOMAIN book : IsAnchor(book[k]) => book[k].payload.window.last # n
        /\ KeptIn(bounds) # {}
        /\ Append1([id |-> Len(book) + 1,
                    window |-> [first |-> first, last |-> n, root |-> MerkleRoot(StoredLeaves(bounds))]],
                   StoredLeaves(bounds))

(* The answer to its append was lost: it is appended again, as it was.     *)
AppendAnchorAgain(n) ==
    /\ n \in DOMAIN original /\ IsAnchor(original[n])
    /\ Append1([id |-> Len(book) + 1, window |-> original[n].payload.window], anchored[n])

(* The worker signs what the entry says, if its hash recomputes.           *)
SignEntry(n) ==
    /\ n \in DOMAIN book /\ book[n].signature = Unsigned
    /\ IsAnchor(book[n]) /\ book[n].hash = Hash(book[n].payload, book[n].prev)
    /\ book' = [book EXCEPT ![n].signature = Message(book[n])]
    /\ UNCHANGED <<bookInterval, original, anchored, damage>>

(* A stored field changes: the payload, the hash, its absence, the link.   *)
Spoilt(e, field) ==
    CASE field = "payload" -> [e EXCEPT !.payload.id = 0]
      [] field = "hash"    -> [e EXCEPT !.hash = Hash(Plain(0), NoHash)]
      [] field = "no_hash" -> [e EXCEPT !.hash = Missing]
      [] field = "prev"    -> [e EXCEPT !.prev = Hash(Plain(0), NoHash)]
      [] field = "root"    -> [e EXCEPT !.payload.window.root = Hash(Plain(0), NoHash)]
      [] field = "bounds"  -> [e EXCEPT !.payload.window.first = @ + 1]

Damage(n, field) ==
    /\ damage < MaxDamage /\ damage' = damage + 1
    /\ n \in DOMAIN book
    /\ field \in {"root", "bounds"} => IsAnchor(book[n])
    /\ book' = [book EXCEPT ![n] = Spoilt(book[n], field)]
    /\ UNCHANGED <<bookInterval, original, anchored>>

-----------------------------------------------------------------------------
(* verify_entry_inclusion: the first anchor after the entry whose window   *)
(* holds it, the leaves of that window, as stored or recomputed along the  *)
(* chain, and the proof; None when it answers an error.                    *)
NoResponse == [ok |-> FALSE]

AnchorsOf(n) == {j \in n .. n + SearchLimit - 1 :
                   /\ j \in DOMAIN book /\ IsAnchor(book[j])
                   /\ book[j].payload.window.first <= n /\ n <= book[j].payload.window.last}
FirstOf(S) == CHOOSE j \in S : \A k \in S : j <= k

(* With zero_cache: each entry must link to the hash recomputed before it, *)
(* the first one to what it stores, and a stored hash must recompute.      *)
Recomputed(w) ==
    LET leaf[k \in w.first .. w.last] ==
          Hash(book[k].payload, IF k = w.first THEN book[k].prev ELSE leaf[k - 1])
    IN  leaf
ChainLeaves(w) ==
    LET leaf == Recomputed(w)
    IN  [sound  |-> /\ \A k \in w.first .. w.last : book[k].hash \in {leaf[k], Missing}
                    /\ \A k \in w.first + 1 .. w.last : book[k].prev = leaf[k - 1],
         leaves |-> [i \in 1 .. w.last - w.first + 1 |-> leaf[w.first + i - 1]]]

Response(n, zero) ==
    IF AnchorsOf(n) = {} THEN NoResponse ELSE
    LET anchor == book[FirstOf(AnchorsOf(n))]
        w      == anchor.payload.window
        leaves == IF zero THEN ChainLeaves(w).leaves ELSE StoredLeaves(w)
        pos    == n - w.first + 1
        leaf   == IF zero THEN leaves[pos]
                  ELSE IF book[n].hash = Missing THEN Hash(book[n].payload, book[n].prev)
                  ELSE book[n].hash
    IN  IF \/ zero /\ ~(ChainLeaves(w).sound /\ MerkleRoot(leaves) = w.root)
           \/ pos > Len(leaves)
          THEN NoResponse
          ELSE [ok |-> TRUE, payload |-> book[n].payload, leaf |-> leaf,
                proof |-> MerkleProof(leaves, pos), anchor |-> anchor]

(* verify_signature=true: what the service says of the anchor.             *)
ServerVerifies(a) ==
    /\ a.signature # Unsigned
    /\ a.hash \in {Missing, Hash(a.payload, a.prev)}
    /\ a.signature = Message(a)

(* _build_verification_certificate of verify_proof.py.                     *)
Certified(x) ==
    /\ x.ok
    /\ RootFrom(x.leaf, x.proof) = x.anchor.payload.window.root
    /\ x.anchor.signature # Unsigned
    /\ x.anchor.hash = Hash(x.anchor.payload, x.anchor.prev)
    /\ x.anchor.signature = Message(x.anchor)

-----------------------------------------------------------------------------
BookNext ==
    \/ AppendPlain
    \/ \E n \in DOMAIN book : AppendAnchor(n) \/ AppendAnchorAgain(n) \/ SignEntry(n)
    \/ \E n \in DOMAIN book, f \in {"payload", "hash", "no_hash", "prev", "root", "bounds"} : Damage(n, f)

BookSpec == BookInit /\ [][BookNext]_bookVars

(* The answer about one entry: what a certificate says of it, that service *)
(* and verifier agree, and that it has its certificate.                    *)
ProofSound(n, zero) ==
    LET near   == AnchorsOf(n)
        x      == Response(n, zero)
        leaves == anchored[FirstOf(near)]
        w      == x.anchor.payload.window
        pos    == n - w.first + 1
    IN  /\ Certified(x) =>
             /\ ServerVerifies(x.anchor)
             /\ Len(leaves) = w.last - w.first + 1 =>
                  /\ x.leaf = leaves[pos]
                  /\ zero /\ leaves[pos] = original[n].hash => x.payload = original[n].payload
        /\ x.ok /\ ServerVerifies(x.anchor) /\ zero => Certified(x)
        /\ damage = 0 /\ near # {} /\ book[FirstOf(near)].signature # Unsigned =>
             Certified(x) /\ x.leaf = original[n].hash

(* The proofs of the ledger can be relied on.  A certified leaf is the     *)
(* hash its entry stored when its window was anchored, if every entry of   *)
(* the window stored one then, for windows of every length; and if that is *)
(* the hash the entry was appended with, then with zero_cache the payload  *)
(* that comes with it is the one appended too (the other way the stored    *)
(* hash is taken at its word).  A hash changed before its window is        *)
(* anchored is certified as it was changed.  Service and offline verifier  *)
(* agree on the anchor; and an entry of a ledger without a fault whose     *)
(* anchor is signed and near enough has its certificate, both ways.        *)
CertificatesSound == \A n \in DOMAIN book, zero \in BOOLEAN : ProofSound(n, zero)
=============================================================================
