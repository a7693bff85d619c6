---------------------------- MODULE TenantProofs ----------------------------
(***************************************************************************)
(* Theorems about the data of a session, for any values of the constants   *)
(* and with every part moving at any time: erasures overlap with streams,  *)
(* ingests, searches, the retention loop and each other.                   *)
(***************************************************************************)
EXTENDS TenantData, FunctionTheorems, SequenceTheorems, WellFoundedInduction, TLAPS

StreamPlaces  == {"new", "prompts", "promptsTtl", "vectors", "text", "textTtl", "corpus",
                  "global", "corpusTtl", "globalTtl", "done"}
IngestPlaces  == {"new", "text", "textTtl", "items", "meta", "done"}
ErasurePlaces == {"marker", "prompts", "anchor", "corpus", "load", "texts", "items", "refs",
                  "objects", "cache", "entry", "mapping", "done"}

(* The place of a step in the order of the handler.                        *)
PlaceNo(place) ==
    CASE place = "marker"  -> 1
      [] place = "prompts" -> 2
      [] place = "anchor"  -> 3
      [] place = "corpus"  -> 4
      [] place = "load"    -> 5
      [] place = "texts"   -> 6
      [] place = "items"   -> 7
      [] place = "refs"    -> 8
      [] place = "objects" -> 9
      [] place = "cache"   -> 10
      [] place = "entry"   -> 11
      [] place = "mapping" -> 12
      [] place = "done"    -> 13
      [] OTHER             -> 0

ErasureStates ==
    [at : ErasurePlaces \cup {"new", "refused"}, ask : ErasureKinds \cup {NewErasure.ask},
     id : RequestIds \cup {0}, items : SUBSET Ingests, hurt : BOOLEAN, before : SUBSET Writers,
     listed : SUBSET Ingests, during : SUBSET (Ingests \cup {AsCall(e) : e \in Erasures})]

(* What every step keeps, whatever it is about.                            *)
DbOK ==
    /\ db \in [Keys -> SUBSET Writers] /\ expires \in SUBSET Keys
    /\ db[Key("items")] \subseteq Ingests

WritersOK ==
    /\ stream \in [Streams -> [at : StreamPlaces, risky : BOOLEAN]]
    /\ ingest \in [Ingests -> [at : IngestPlaces, items : SUBSET Ingests]]

ErasuresOK ==
    /\ erasure \in [Erasures -> ErasureStates]
    /\ \A e \in Erasures : erasure[e].at # "new" =>
          erasure[e].ask \in ErasureKinds /\ erasure[e].id \in RequestIds
    /\ \A e \in Erasures : erasure[e].at \in ErasurePlaces => Asked(erasure[e].ask, erasure[e].at)
    /\ \A f \in Erasures : erasure[f].at # "new" => \A e \in 1 .. f - 1 : erasure[e].at # "new"

(* The loop gives an end to keys of the policy only.                       *)
SweepOK == sweep \in [at : Nat, due : BOOLEAN] /\ (sweep.due => SweptKey \in Swept)

TenantTypeOK == DbOK /\ WritersOK /\ ErasuresOK /\ SweepOK

-----------------------------------------------------------------------------
(* The data.                                                               *)

(* Ingests that will not store their text any more.                        *)
Stored == {i \in Ingests : ingest[i].at \in {"meta", "done"}}

Passed(x, place) == PlaceNo(x.at) > PlaceNo(place)

(* Who could still bring back what the erasure x deletes.                  *)
Apart(e) ==
    LET x == erasure[e] IN
    /\ \A s \in Streams : s \in x.before => stream[s].at = "done"
    /\ \A i \in Ingests : i \in x.before => ingest[i].at = "done"
    /\ x.listed \subseteq Stored
    /\ Running(x) => \A i \in Ingests : Running(ingest[i]) => i \in x.during
    /\ Running(x) => \A f \in Erasures \ {e} :
          Running(erasure[f]) /\ erasure[f].ask.dlp => AsCall(f) \in x.during

(* What is gone after each of its steps.                                   *)
GoneSoFar(e) ==
    LET x == erasure[e] alone == x.ask.dlp /\ x.during = {} IN
    ~x.hurt =>
      /\ x.ask.session /\ Passed(x, "prompts") => db[Key("prompts")] \cap x.before = {}
      /\ x.ask.session /\ Passed(x, "anchor")  => db[Key("vectors")] \cap x.before = {}
      /\ x.ask.corpus /\ Passed(x, "corpus")   => db[Key("corpus")] \cap x.before = {}
      /\ alone /\ Running(x) /\ ~Passed(x, "items") => db[Key("items")] = x.listed
      /\ alone /\ x.at = "texts"     => x.items = x.listed
      /\ alone /\ Passed(x, "texts") => \A w \in x.listed : db[Text(w)] = {}
      /\ alone /\ Passed(x, "items") =>
            /\ db[Key("items")] \cap x.before = {}
            /\ \A i \in Ingests : Running(ingest[i]) => ingest[i].items \cap x.before = {}
      /\ Passed(x, "refs") => \A w \in x.before : Text(w) \in x.ask.refs => db[Text(w)] = {}

DataInv ==
    /\ ~VectorBackend => db[Key("vectors")] = {}
    /\ expires \cap {Key("items"), Key("meta"), Key("vectors")} = {}
    /\ db[Key("items")] \subseteq Stored
    /\ \A i \in Ingests : ingest[i].items \subseteq Stored
    /\ \A e \in Erasures : erasure[e].at # "new" => Apart(e) /\ GoneSoFar(e)

-----------------------------------------------------------------------------
(* The proofs of erasures.                                                 *)
Mine(r) == {e \in Erasures : erasure[e].at # "new" /\ erasure[e].id = r}

(* The erasures of a request id that no two calls have used at once.       *)
NoneHurt(r) == \A e \in Mine(r) : ~erasure[e].hurt

OneAtATime(r) ==
    \A e \in Mine(r) : Running(erasure[e]) =>
       /\ \A f \in Mine(r) \ {e} : ~Running(erasure[f]) /\ f < e
       /\ \A l \in Lookups : Running(lookup[l]) => lookup[l].id # r

CacheIsLast(r) ==
    proofCache[r] # 0 =>
       /\ proofCache[r] \in Mine(r) /\ PlaceNo(erasure[proofCache[r]].at) > 10
       /\ \A f \in Mine(r) : PlaceNo(erasure[f].at) > 10 => f <= proofCache[r]

EntriesFollow(r) ==
    /\ \A e \in Mine(r) : PlaceNo(erasure[e].at) > 11 => \E n \in DOMAIN entries : entries[n] = e
    /\ \A n, m \in DOMAIN entries :
          n < m /\ entries[n] \in Mine(r) /\ entries[m] \in Mine(r) => entries[n] < entries[m]

IndexIsLast(r) ==
    /\ mapping[r] # 0 =>
          /\ mapping[r] \in DOMAIN entries /\ entries[mapping[r]] \in Mine(r)
          /\ erasure[entries[mapping[r]]].at = "done"
          /\ \A f \in Mine(r) : erasure[f].at = "done" => f <= entries[mapping[r]]
    /\ \A e \in Mine(r) : erasure[e].at = "done" => mapping[r] # 0

SearchesStop(r) ==
    \A l \in Lookups : lookup[l].id = r =>
       /\ lookup[l].at # "index again"
       /\ lookup[l].at = "search" /\ ~lookup[l].zero => mapping[r] = 0

InOrder(r) == /\ NoneHurt(r) /\ OneAtATime(r) /\ CacheIsLast(r)
              /\ EntriesFollow(r) /\ IndexIsLast(r) /\ SearchesStop(r)

LookupStates == [at : {"new", "index", "search", "index again", "done"}, id : RequestIds \cup {0},
                 zero : BOOLEAN, index : Nat, answer : Erasures \cup {0}]

ProofTypeOK ==
    /\ proofCache \in [RequestIds -> Erasures \cup {0}] /\ mapping \in [RequestIds -> Nat]
    /\ entries \in Seq(Erasures \cup {0}) /\ lookup \in [Lookups -> LookupStates]
    /\ \A l \in Lookups : lookup[l].at # "new" => lookup[l].id \in RequestIds

ProofInv ==
    /\ ProofTypeOK
    /\ \A n \in DOMAIN entries : entries[n] # 0 => PlaceNo(erasure[entries[n]].at) > 11
    /\ \A n, m \in DOMAIN entries : entries[n] # 0 /\ entries[n] = entries[m] => n = m
    /\ \A e \in Erasures : erasure[e].at = "mapping" => \E n \in DOMAIN entries : entries[n] = e
    /\ \A r \in RequestIds : mapping[r] \in DOMAIN entries \cup {0}
    /\ \A l \in Lookups : lookup[l].index \in DOMAIN entries \cup {0}
    /\ \A r \in RequestIds \ disturbed : InOrder(r)

-----------------------------------------------------------------------------
(* The order of the steps.                                                 *)

LEMMA LeastOne ==
    ASSUME NEW D, D \subseteq Nat, D # {}
    PROVE  \E d \in D : \A e \in D : d <= e
<1> DEFINE less == OpToRel(<, Nat)
<1>1. \E d \in D : \A e \in D : ~(<<e, d>> \in less)
  <2> HIDE DEF less
  <2>1. IsWellFoundedOn(less, Nat)
    BY NatLessThanWellFounded DEF less
  <2> QED
    BY <2>1, WFMin, Zenon
<1>2. \A d, e \in Nat : e < d => <<e, d>> \in less
  BY DEF OpToRel
<1>3. PICK d \in D : \A e \in D : ~(<<e, d>> \in less)
  BY <1>1
<1> HIDE DEF less
<1>4. \A e \in D : ~(e < d)
  BY <1>2, <1>3
<1> QED
  BY <1>4

LEMMA PathFacts ==
    /\ Len(Path) = 13 /\ \A n \in 1 .. 13 : Path[n] \in ErasurePlaces /\ PlaceNo(Path[n]) = n
    /\ \A p \in ErasurePlaces : PlaceNo(p) \in 1 .. 13 /\ Path[PlaceNo(p)] = p
    /\ \A p \in ErasurePlaces : PlaceNo(p) = 13 => p = "done"
<1>1. Len(Path) = 13
  BY DEF Path
<1>2. /\ Path[1] = "marker" /\ Path[2] = "prompts" /\ Path[3] = "anchor" /\ Path[4] = "corpus"
      /\ Path[5] = "load" /\ Path[6] = "texts" /\ Path[7] = "items" /\ Path[8] = "refs"
      /\ Path[9] = "objects" /\ Path[10] = "cache" /\ Path[11] = "entry" /\ Path[12] = "mapping"
      /\ Path[13] = "done"
  BY DEF Path
<1>3. \A n \in 1 .. 13 : n = 1 \/ n = 2 \/ n = 3 \/ n = 4 \/ n = 5 \/ n = 6 \/ n = 7 \/ n = 8
                         \/ n = 9 \/ n = 10 \/ n = 11 \/ n = 12 \/ n = 13
  OBVIOUS
<1>4. \A n \in 1 .. 13 : Path[n] \in ErasurePlaces /\ PlaceNo(Path[n]) = n
  <2> SUFFICES ASSUME NEW n \in 1 .. 13 PROVE Path[n] \in ErasurePlaces /\ PlaceNo(Path[n]) = n
    OBVIOUS
  <2> QED
    BY <1>2, <1>3 DEF ErasurePlaces, PlaceNo
<1>5. \A p \in ErasurePlaces : PlaceNo(p) \in 1 .. 13 /\ Path[PlaceNo(p)] = p /\ (PlaceNo(p) = 13 => p = "done")
  <2> SUFFICES ASSUME NEW p \in ErasurePlaces
               PROVE  PlaceNo(p) \in 1 .. 13 /\ Path[PlaceNo(p)] = p /\ (PlaceNo(p) = 13 => p = "done")
    OBVIOUS
  <2> QED
    BY <1>2 DEF ErasurePlaces, PlaceNo
<1> QED
  BY <1>1, <1>4, <1>5

(* The next step is the first one that the request asks for.               *)
LEMMA OnwardStops ==
    ASSUME TenantAssumption, NEW ask \in ErasureKinds,
           NEW p \in ErasurePlaces, p # "done"
    PROVE  /\ Onward(ask, p) \in ErasurePlaces /\ Asked(ask, Onward(ask, p))
           /\ PlaceNo(Onward(ask, p)) > PlaceNo(p)
           /\ \A z \in ErasurePlaces : Asked(ask, z) /\ PlaceNo(p) < PlaceNo(z)
                                         => PlaceNo(Onward(ask, p)) <= PlaceNo(z)
<1> DEFINE here  == CHOOSE n \in 1 .. Len(Path) : Path[n] = p
           later == {n \in here + 1 .. Len(Path) : Asked(ask, Path[n])}
           next  == CHOOSE n \in later : \A m \in later : n <= m
<1>1. PlaceNo(p) \in 1 .. 12
  BY PathFacts
<1>2. here = PlaceNo(p)
  BY <1>1, PathFacts
<1>3. later = {n \in PlaceNo(p) + 1 .. 13 : Asked(ask, Path[n])}
  BY <1>2, PathFacts
<1>4. 13 \in later
  <2>1. Path[13] = "done"
    BY PathFacts
  <2>2. Asked(ask, "done")
    BY DEF Asked
  <2> QED
    BY <1>1, <1>3, <2>1, <2>2
<1>5. next \in later /\ \A m \in later : next <= m
  <2>1. later \subseteq Nat /\ later # {}
    <3>1. {n \in PlaceNo(p) + 1 .. 13 : Asked(ask, Path[n])} \subseteq Nat
      BY <1>1
    <3> QED
      BY <1>3, <1>4, <3>1, Zenon
  <2> HIDE DEF later
  <2>2. \E n \in later : \A m \in later : n <= m
    BY <2>1, LeastOne
  <2> QED
    BY <2>2
<1>6. Onward(ask, p) = Path[next]
  BY Zenon DEF Onward
<1>7. next \in PlaceNo(p) + 1 .. 13 /\ Asked(ask, Path[next])
  BY <1>3, <1>5
<1>8. ASSUME NEW z \in ErasurePlaces, Asked(ask, z), PlaceNo(p) < PlaceNo(z) PROVE next <= PlaceNo(z)
  <2>1. PlaceNo(z) \in PlaceNo(p) + 1 .. 13 /\ Path[PlaceNo(z)] = z
    BY <1>1, <1>8, PathFacts
  <2>2. PlaceNo(z) \in later
    BY <1>3, <1>8, <2>1
  <2> QED
    BY <1>5, <2>2
<1> HIDE DEF next
<1>9. next \in 1 .. 13 /\ PlaceNo(Path[next]) = next /\ Path[next] \in ErasurePlaces
  BY <1>1, <1>7, PathFacts
<1> QED
  BY <1>1, <1>6, <1>7, <1>8, <1>9

-----------------------------------------------------------------------------
(* Keys, writers and records.                                              *)

(* No two keys are the same.                                               *)
LEMMA KeyFacts ==
    /\ Texts = Writers /\ \A w \in Writers : Text(w) = w
    /\ Named = {Key("prompts"), Key("vectors"), Key("corpus"), Key("global"), Key("items"), Key("meta")}
    /\ Keys = Named \cup Writers
    /\ \A m, n \in {"prompts", "vectors", "corpus", "global", "items", "meta"} : Key(m) = Key(n) => m = n
    /\ \A w \in Writers : w \notin Named
    /\ Streams \cap Ingests = {}
<1>1. Texts = Writers /\ \A w \in Writers : Text(w) = w
  BY DEF Texts, Text
<1>2. Named = {Key("prompts"), Key("vectors"), Key("corpus"), Key("global"), Key("items"), Key("meta")}
  BY DEF Named
<1>3. \A m, n \in {"prompts", "vectors", "corpus", "global", "items", "meta"} : Key(m) = Key(n) => m = n
  BY DEF Key
<1>4. \A s \in Streams : s[1] = "stream"
  BY DEF Streams
<1>5. \A i \in Ingests : i[1] = "ingest"
  BY DEF Ingests
<1>6. \A k \in Named : k[1] \in {"prompts", "vectors", "corpus", "global", "items", "meta"}
  BY DEF Named, Key
<1>7. \A w \in Writers : w \notin Named
  BY <1>4, <1>5, <1>6 DEF Writers
<1>8. Streams \cap Ingests = {}
  BY <1>4, <1>5
<1> QED
  BY <1>1, <1>2, <1>3, <1>7, <1>8 DEF Keys

LEMMA StatusFacts ==
    /\ \A x \in ErasureStates : Running(x) <=> x.at \in ErasurePlaces \ {"done"}
    /\ \A x \in [at : StreamPlaces, risky : BOOLEAN] :
          (Over(x) <=> x.at = "done") /\ (Running(x) <=> x.at \in StreamPlaces \ {"new", "done"})
    /\ \A x \in [at : IngestPlaces, items : SUBSET Ingests] :
          (Over(x) <=> x.at = "done") /\ (Running(x) <=> x.at \in IngestPlaces \ {"new", "done"})
    /\ \A x \in LookupStates : Running(x) <=> x.at \in {"index", "search", "index again"}
BY DEF Running, Over, ErasureStates, ErasurePlaces, StreamPlaces, IngestPlaces, LookupStates

(* One key changes, or some become empty.                                  *)
LEMMA PutFacts ==
    ASSUME TenantTypeOK, NEW k \in Keys, NEW ws \in SUBSET Writers, Put(k, ws)
    PROVE  /\ db' \in [Keys -> SUBSET Writers] /\ db'[k] = ws /\ \A j \in Keys \ {k} : db'[j] = db[j]
           /\ expires' \subseteq expires
BY DEF TenantTypeOK, DbOK, Put

LEMMA DeleteFacts ==
    ASSUME TenantTypeOK, NEW ks, Delete(ks)
    PROVE  /\ db' \in [Keys -> SUBSET Writers] /\ \A k \in Keys : db'[k] = IF k \in ks THEN {} ELSE db[k]
           /\ expires' \subseteq expires
BY DEF TenantTypeOK, DbOK, Delete

(* One erasure moves.                                                      *)
LEMMA OneErasureMoves ==
    ASSUME TenantTypeOK, NEW e \in Erasures, NEW x \in ErasureStates, erasure' = [erasure EXCEPT ![e] = x]
    PROVE  /\ erasure' \in [Erasures -> ErasureStates] /\ erasure'[e] = x
           /\ \A f \in Erasures \ {e} : erasure'[f] = erasure[f]
BY DEF TenantTypeOK, ErasuresOK

LEMMA ErasureGoes ==
    ASSUME NEW x \in ErasureStates, NEW p \in ErasurePlaces \cup {"refused"}
    PROVE  LET y == [x EXCEPT !.at = p]
           IN  /\ y \in ErasureStates /\ y.at = p /\ y.ask = x.ask /\ y.id = x.id /\ y.items = x.items
               /\ y.hurt = x.hurt /\ y.before = x.before /\ y.listed = x.listed /\ y.during = x.during
BY DEF ErasureStates

-----------------------------------------------------------------------------
(* What a step does to an erasure.                                         *)

(* An erasure goes on with another step, or ends.                          *)
GoesOn(e, x) ==
    LET w == erasure[e] IN
    /\ w.at \in ErasurePlaces \ {"done"} /\ erasure' = [erasure EXCEPT ![e] = x]
    /\ x \in ErasureStates /\ x.at \in ErasurePlaces \cup {"refused"}
    /\ x.ask = w.ask /\ x.id = w.id /\ x.before = w.before /\ x.listed = w.listed /\ x.during = w.during
    /\ x.at \in ErasurePlaces => Asked(x.ask, x.at) /\ PlaceNo(x.at) > PlaceNo(w.at)
    /\ w.hurt => x.hurt

(* It goes on with the first step that was asked for.                      *)
NoSkip(w, x) == \A z \in ErasurePlaces : Asked(w.ask, z) /\ PlaceNo(w.at) < PlaceNo(z) /\ x.at \in ErasurePlaces
                                           => PlaceNo(x.at) <= PlaceNo(z)

LEMMA RunningErasure ==
    ASSUME TenantTypeOK, NEW e \in Erasures, erasure[e].at \in ErasurePlaces
    PROVE  /\ erasure[e] \in ErasureStates /\ erasure[e].ask \in ErasureKinds
           /\ erasure[e].id \in RequestIds /\ Asked(erasure[e].ask, erasure[e].at)
<1>1. erasure[e].at # "new"
  BY DEF ErasurePlaces
<1> QED
  BY <1>1 DEF TenantTypeOK, ErasuresOK

LEMMA OnwardGoesOn ==
    ASSUME TenantAssumption, TenantTypeOK, NEW e \in Erasures, erasure[e].at \in ErasurePlaces \ {"done"},
           erasure' = [erasure EXCEPT ![e].at = Onward(erasure[e].ask, erasure[e].at)]
    PROVE  \E x \in ErasureStates : GoesOn(e, x) /\ NoSkip(erasure[e], x) /\ x.hurt = erasure[e].hurt
                                    /\ x.items = erasure[e].items /\ x.at \in ErasurePlaces
<1> DEFINE w == erasure[e]
           p == Onward(w.ask, w.at)
           x == [w EXCEPT !.at = p]
<1>1. w \in ErasureStates /\ w.ask \in ErasureKinds /\ w.at # "new"
  BY RunningErasure DEF ErasurePlaces
<1>2. /\ p \in ErasurePlaces /\ Asked(w.ask, p) /\ PlaceNo(p) > PlaceNo(w.at)
      /\ \A z \in ErasurePlaces : Asked(w.ask, z) /\ PlaceNo(w.at) < PlaceNo(z) => PlaceNo(p) <= PlaceNo(z)
  BY <1>1, OnwardStops
<1>3. erasure' = [erasure EXCEPT ![e] = x]
  BY DEF TenantTypeOK, ErasuresOK
<1> HIDE DEF p
<1>4. /\ x \in ErasureStates /\ x.at = p /\ x.ask = w.ask /\ x.id = w.id /\ x.items = w.items
      /\ x.hurt = w.hurt /\ x.before = w.before /\ x.listed = w.listed /\ x.during = w.during
  BY <1>1, <1>2, ErasureGoes
<1> HIDE DEF x
<1>5. GoesOn(e, x) /\ NoSkip(w, x)
  BY <1>2, <1>3, <1>4 DEF GoesOn, NoSkip
<1> QED
  BY <1>2, <1>4, <1>5

LEMMA ErasesGoesOn ==
    ASSUME TenantAssumption, TenantTypeOK, NEW e \in Erasures, Erases(e) \/ RecordsProof(e)
    PROVE  \E x \in ErasureStates : GoesOn(e, x) /\ NoSkip(erasure[e], x) /\ x.hurt = erasure[e].hurt
                                    /\ x.items = erasure[e].items /\ x.at \in ErasurePlaces
<1>1. erasure[e].at \in ErasurePlaces \ {"done"}
  BY DEF Erases, RecordsProof, ErasurePlaces
<1>2. erasure' = [erasure EXCEPT ![e].at = Onward(erasure[e].ask, erasure[e].at)]
  BY DEF Erases, RecordsProof
<1> QED
  BY <1>1, <1>2, OnwardGoesOn

(* The items of the tenant decide what comes after the load.               *)
LEMMA LoadGoesOn ==
    ASSUME TenantAssumption, TenantTypeOK, NEW e \in Erasures, LoadsItems(e)
    PROVE  \E x \in ErasureStates :
              /\ GoesOn(e, x) /\ x.hurt = erasure[e].hurt /\ erasure[e].ask.dlp
              /\ x.items = db[Key("items")]
              /\ x.at = IF db[Key("items")] = {} THEN "items" ELSE "texts"
<1> DEFINE w == erasure[e]
           p == IF db[Key("items")] = {} THEN "items" ELSE "texts"
           y == [w EXCEPT !.at = p]
           x == [y EXCEPT !.items = db[Key("items")]]
<1>1. w.at = "load" /\ w \in ErasureStates /\ w.ask \in ErasureKinds /\ w.ask.dlp
  BY RunningErasure DEF LoadsItems, ErasurePlaces, Asked
<1>2. p \in ErasurePlaces /\ Asked(w.ask, p) /\ PlaceNo(p) > PlaceNo(w.at)
  BY <1>1 DEF ErasurePlaces, Asked, PlaceNo
<1>3. erasure' = [erasure EXCEPT ![e] = x]
  BY Zenon DEF LoadsItems, TenantTypeOK, ErasuresOK
<1> HIDE DEF p
<1>4. /\ y \in ErasureStates /\ y.at = p /\ y.ask = w.ask /\ y.id = w.id
      /\ y.hurt = w.hurt /\ y.before = w.before /\ y.listed = w.listed /\ y.during = w.during
  BY <1>1, <1>2, ErasureGoes
<1> HIDE DEF y
<1>5. /\ x \in ErasureStates /\ x.at = p /\ x.ask = w.ask /\ x.id = w.id /\ x.items = db[Key("items")]
      /\ x.hurt = w.hurt /\ x.before = w.before /\ x.listed = w.listed /\ x.during = w.during
  BY <1>4 DEF ErasureStates, TenantTypeOK, DbOK
<1> HIDE DEF x
<1>6. GoesOn(e, x)
  BY <1>1, <1>2, <1>3, <1>5 DEF GoesOn, ErasurePlaces
<1> QED
  BY <1>1, <1>5, <1>6 DEF p

LEMMA ObjectsGoesOn ==
    ASSUME TenantAssumption, TenantTypeOK, NEW e \in Erasures, ReachesObjects(e)
    PROVE  \E x \in ErasureStates : GoesOn(e, x) /\ NoSkip(erasure[e], x) /\ x.hurt = erasure[e].hurt
                                    /\ x.items = erasure[e].items /\ erasure[e].at = "objects"
<1>1. erasure[e].at = "objects" /\ erasure[e].at \in ErasurePlaces \ {"done"}
  BY DEF ReachesObjects, ErasurePlaces
<1>2. CASE erasure[e].ask.objects # "refused"
  <2>1. erasure' = [erasure EXCEPT ![e].at = Onward(erasure[e].ask, erasure[e].at)]
    BY <1>2 DEF ReachesObjects
  <2> QED
    BY <1>1, <2>1, OnwardGoesOn
<1>3. CASE erasure[e].ask.objects = "refused"
  <2> DEFINE w == erasure[e]
             x == [w EXCEPT !.at = "refused"]
  <2>1. w \in ErasureStates
    BY <1>1, RunningErasure
  <2>2. erasure' = [erasure EXCEPT ![e] = x]
    BY <1>3 DEF ReachesObjects, TenantTypeOK, ErasuresOK
  <2>3. /\ x \in ErasureStates /\ x.at = "refused" /\ x.ask = w.ask /\ x.id = w.id /\ x.items = w.items
        /\ x.hurt = w.hurt /\ x.before = w.before /\ x.listed = w.listed /\ x.during = w.during
    BY <2>1, ErasureGoes
  <2> HIDE DEF x
  <2>4. GoesOn(e, x) /\ NoSkip(w, x)
    BY <1>1, <2>2, <2>3 DEF GoesOn, NoSkip, ErasurePlaces
  <2> QED
    BY <1>1, <2>3, <2>4
<1> QED
  BY <1>2, <1>3

(* A failure is remembered.                                                *)
LEMMA FailureGoesOn ==
    ASSUME TenantAssumption, TenantTypeOK, NEW e \in Erasures, ErasureFails(e)
    PROVE  \E x \in ErasureStates : GoesOn(e, x) /\ x.hurt /\ x.at \in ErasurePlaces \ {"mapping"}
<1> DEFINE w == erasure[e]
           p == CASE w.at = "load"  -> Onward(w.ask, "items")
                  [] w.at = "entry" -> "done"
                  [] OTHER          -> Onward(w.ask, w.at)
           y == [w EXCEPT !.hurt = TRUE]
           x == [y EXCEPT !.at = p]
<1>1. w \in ErasureStates /\ Running(w)
  BY DEF ErasureFails, TenantTypeOK, ErasuresOK
<1>2. w.at \in ErasurePlaces \ {"done"} /\ w.ask \in ErasureKinds
  <2>1. w.at \in ErasurePlaces \ {"done"}
    BY <1>1, StatusFacts
  <2> QED
    BY <2>1, RunningErasure
<1>3. p \in ErasurePlaces /\ Asked(w.ask, p) /\ PlaceNo(p) > PlaceNo(w.at) /\ p # "mapping"
  <2>0. /\ PlaceNo("items") = 7 /\ PlaceNo("load") = 5 /\ PlaceNo("entry") = 11 /\ PlaceNo("mapping") = 12
        /\ {"items", "entry"} \subseteq ErasurePlaces /\ Asked(w.ask, "entry") /\ PlaceNo(w.at) \in Nat
    BY <1>2, PathFacts DEF PlaceNo, ErasurePlaces, Asked
  <2>1. CASE w.at = "load"
    <3>1. p = Onward(w.ask, "items")
      BY <2>1
    <3>2. /\ PlaceNo(p) > PlaceNo("items") /\ p \in ErasurePlaces /\ Asked(w.ask, p)
          /\ PlaceNo(p) <= PlaceNo("entry")
      BY <1>2, <2>0, <3>1, OnwardStops
    <3> HIDE DEF p
    <3>3. PlaceNo(p) \in Nat
      BY <3>2, PathFacts
    <3> QED
      BY <2>0, <2>1, <3>2, <3>3
  <2>2. CASE w.at = "entry"
    BY <2>2 DEF ErasurePlaces, PlaceNo, Asked
  <2>3. CASE w.at \notin {"load", "entry"}
    <3>1. p = Onward(w.ask, w.at)
      BY <2>3
    <3>2. /\ p \in ErasurePlaces /\ Asked(w.ask, p) /\ PlaceNo(p) > PlaceNo(w.at)
          /\ PlaceNo(w.at) < PlaceNo("entry") => PlaceNo(p) <= PlaceNo("entry")
      BY <1>2, <2>0, <3>1, OnwardStops
    <3>3. PlaceNo(w.at) = 11 => w.at = "entry"
      BY <1>2, <2>0, PathFacts
    <3> HIDE DEF p
    <3>4. PlaceNo(p) \in Nat
      BY <3>2, PathFacts
    <3> QED
      BY <2>0, <2>3, <3>2, <3>3, <3>4
  <2> QED
    BY <2>1, <2>2, <2>3
<1>4. erasure' = [erasure EXCEPT ![e] = x]
  BY Zenon DEF ErasureFails, TenantTypeOK, ErasuresOK
<1> HIDE DEF p
<1>5. /\ y \in ErasureStates /\ y.hurt /\ y.ask = w.ask /\ y.id = w.id
      /\ y.before = w.before /\ y.listed = w.listed /\ y.during = w.during
  BY <1>1 DEF ErasureStates
<1> HIDE DEF y
<1>6. /\ x \in ErasureStates /\ x.at = p /\ x.hurt /\ x.ask = w.ask /\ x.id = w.id
      /\ x.before = w.before /\ x.listed = w.listed /\ x.during = w.during
  BY <1>3, <1>5, ErasureGoes
<1> HIDE DEF x
<1>7. GoesOn(e, x)
  BY <1>2, <1>3, <1>4, <1>6 DEF GoesOn
<1> QED
  BY <1>3, <1>6, <1>7

(* A call is noted by the erasures that run.                               *)
SameCall(w, x) == /\ x.at = w.at /\ x.ask = w.ask /\ x.id = w.id /\ x.items = w.items
                  /\ x.hurt = w.hurt /\ x.before = w.before /\ x.listed = w.listed

LEMMA JoinedFacts ==
    ASSUME TenantTypeOK, NEW c \in Ingests \cup {AsCall(e) : e \in Erasures}
    PROVE  /\ Joined(c) \in [Erasures -> ErasureStates]
           /\ \A f \in Erasures :
                /\ SameCall(erasure[f], Joined(c)[f]) /\ erasure[f].during \subseteq Joined(c)[f].during
                /\ Running(erasure[f]) => c \in Joined(c)[f].during
                /\ ~Running(erasure[f]) => Joined(c)[f] = erasure[f]
<1>1. ASSUME NEW f \in Erasures
      PROVE  LET x == [erasure[f] EXCEPT !.during = @ \cup {c}]
             IN  /\ x \in ErasureStates /\ SameCall(erasure[f], x)
                 /\ x.during = erasure[f].during \cup {c}
  BY DEF TenantTypeOK, ErasuresOK, ErasureStates, SameCall
<1>2. ASSUME NEW f \in Erasures
      PROVE  /\ Joined(c)[f] \in ErasureStates
             /\ SameCall(erasure[f], Joined(c)[f]) /\ erasure[f].during \subseteq Joined(c)[f].during
             /\ Running(erasure[f]) => c \in Joined(c)[f].during
             /\ ~Running(erasure[f]) => Joined(c)[f] = erasure[f]
  <2>1. CASE Running(erasure[f])
    <3> DEFINE x == [erasure[f] EXCEPT !.during = @ \cup {c}]
    <3>1. Joined(c)[f] = x
      BY <2>1 DEF Joined
    <3>2. x \in ErasureStates /\ SameCall(erasure[f], x) /\ x.during = erasure[f].during \cup {c}
      BY <1>1
    <3> HIDE DEF x
    <3> QED
      BY <2>1, <3>1, <3>2
  <2>2. CASE ~Running(erasure[f])
    BY <2>2 DEF Joined, TenantTypeOK, ErasuresOK, SameCall
  <2> QED
    BY <2>1, <2>2
<1>3. DOMAIN Joined(c) = Erasures /\ Joined(c) = [f \in Erasures |-> Joined(c)[f]]
  BY DEF Joined
<1> QED
  BY <1>2, <1>3

(* An erasure begins.                                                      *)
Ended == {s \in Streams : Over(stream[s])} \cup {i \in Ingests : Over(ingest[i])}
Beside == {i \in Ingests : Running(ingest[i])} \cup
          {AsCall(f) : f \in {g \in Erasures : Running(erasure[g]) /\ erasure[g].ask.dlp}}

Beginner(x, ask, r) ==
    /\ x \in ErasureStates /\ x.at = "marker" /\ x.ask = ask /\ x.id = r /\ x.items = {} /\ ~x.hurt
    /\ x.before = Ended /\ x.listed = db[Key("items")] /\ x.during = Beside

LEMMA BeginnerFacts ==
    ASSUME TenantTypeOK, NEW ask \in ErasureKinds, NEW r \in RequestIds
    PROVE  Beginner([NewErasure EXCEPT !.at = "marker", !.ask = ask, !.id = r, !.before = Ended,
                                       !.listed = db[Key("items")], !.during = Beside], ask, r)
<1> DEFINE x1 == [NewErasure EXCEPT !.at = "marker"]
           x2 == [x1 EXCEPT !.ask = ask]
           x3 == [x2 EXCEPT !.id = r]
           x4 == [x3 EXCEPT !.before = Ended]
           x5 == [x4 EXCEPT !.listed = db[Key("items")]]
           x6 == [x5 EXCEPT !.during = Beside]
<1>1. NewErasure \in ErasureStates /\ NewErasure.items = {} /\ ~NewErasure.hurt
  BY DEF NewErasure, ErasureStates
<1>2. Ended \in SUBSET Writers /\ db[Key("items")] \in SUBSET Ingests
      /\ Beside \in SUBSET (Ingests \cup {AsCall(f) : f \in Erasures})
  BY DEF Ended, Beside, Writers, TenantTypeOK, DbOK
<1>3. x1 \in ErasureStates /\ x1.at = "marker" /\ x1.items = {} /\ ~x1.hurt
  BY <1>1 DEF ErasureStates, ErasurePlaces
<1> HIDE DEF x1
<1>4. x2 \in ErasureStates /\ x2.at = "marker" /\ x2.items = {} /\ ~x2.hurt /\ x2.ask = ask
  BY <1>3 DEF ErasureStates
<1> HIDE DEF x2
<1>5. /\ x3 \in ErasureStates /\ x3.at = "marker" /\ x3.items = {} /\ ~x3.hurt /\ x3.ask = ask /\ x3.id = r
  BY <1>4 DEF ErasureStates
<1> HIDE DEF x3
<1>6. /\ x4 \in ErasureStates /\ x4.at = "marker" /\ x4.items = {} /\ ~x4.hurt /\ x4.ask = ask /\ x4.id = r
      /\ x4.before = Ended
  BY <1>2, <1>5 DEF ErasureStates
<1> HIDE DEF x4
<1>7. /\ x5 \in ErasureStates /\ x5.at = "marker" /\ x5.items = {} /\ ~x5.hurt /\ x5.ask = ask /\ x5.id = r
      /\ x5.before = Ended /\ x5.listed = db[Key("items")]
  BY <1>2, <1>6 DEF ErasureStates
<1> HIDE DEF x5
<1>8. /\ x6 \in ErasureStates /\ x6.at = "marker" /\ x6.items = {} /\ ~x6.hurt /\ x6.ask = ask /\ x6.id = r
      /\ x6.before = Ended /\ x6.listed = db[Key("items")] /\ x6.during = Beside
  BY <1>2, <1>7 DEF ErasureStates
<1>9. x6 = [NewErasure EXCEPT !.at = "marker", !.ask = ask, !.id = r, !.before = Ended,
                              !.listed = db[Key("items")], !.during = Beside]
  BY Zenon DEF x1, x2, x3, x4, x5
<1> HIDE DEF x6
<1> QED
  BY <1>8, <1>9 DEF Beginner

LEMMA BeginsFacts ==
    ASSUME TenantTypeOK, NEW e \in Erasures, NEW ask \in ErasureKinds, NEW r \in RequestIds,
           ErasureBegins(e, ask, r)
    PROVE  /\ erasure' \in [Erasures -> ErasureStates] /\ Beginner(erasure'[e], ask, r)
           /\ erasure[e].at = "new"
           /\ \A f \in Erasures \ {e} :
                /\ SameCall(erasure[f], erasure'[f]) /\ erasure[f].during \subseteq erasure'[f].during
                /\ Running(erasure[f]) /\ ask.dlp => AsCall(e) \in erasure'[f].during
                /\ ~Running(erasure[f]) => erasure'[f] = erasure[f]
<1> DEFINE base == IF ask.dlp THEN Joined(AsCall(e)) ELSE erasure
           N == [NewErasure EXCEPT !.at = "marker", !.ask = ask, !.id = r, !.before = Ended,
                                   !.listed = db[Key("items")], !.during = Beside]
<1>1. /\ base \in [Erasures -> ErasureStates]
      /\ \A f \in Erasures :
            /\ SameCall(erasure[f], base[f]) /\ erasure[f].during \subseteq base[f].during
            /\ Running(erasure[f]) /\ ask.dlp => AsCall(e) \in base[f].during
            /\ ~Running(erasure[f]) => base[f] = erasure[f]
  <2>1. CASE ask.dlp
    BY <2>1, JoinedFacts
  <2>2. CASE ~ask.dlp
    BY <2>2 DEF SameCall, TenantTypeOK, ErasuresOK
  <2> QED
    BY <2>1, <2>2
<1>2. Beginner(N, ask, r)
  BY BeginnerFacts
<1>3. erasure' = [base EXCEPT ![e] = N]
  BY Zenon DEF ErasureBegins, Ended, Beside
<1> HIDE DEF base, N
<1>4. erasure' \in [Erasures -> ErasureStates] /\ erasure'[e] = N /\ \A f \in Erasures \ {e} : erasure'[f] = base[f]
  BY <1>1, <1>2, <1>3 DEF Beginner
<1> QED
  BY <1>1, <1>2, <1>4 DEF ErasureBegins

-----------------------------------------------------------------------------
(* The types.                                                              *)

LEMMA EarlierErasure ==
    ASSUME TenantAssumption, NEW f \in Erasures, NEW d \in 1 .. f - 1
    PROVE  d \in Erasures
BY DEF Erasures, TenantAssumption

LEMMA GoesOnTyped ==
    ASSUME TenantAssumption, TenantTypeOK, NEW e \in Erasures, NEW x \in ErasureStates, GoesOn(e, x)
    PROVE  ErasuresOK'
<1>1. /\ erasure' \in [Erasures -> ErasureStates] /\ erasure'[e] = x
      /\ \A f \in Erasures \ {e} : erasure'[f] = erasure[f]
  BY OneErasureMoves DEF GoesOn
<1>2. erasure[e].at # "new" /\ x.at # "new" /\ x.ask \in ErasureKinds /\ x.id \in RequestIds
  BY DEF GoesOn, ErasurePlaces, TenantTypeOK, ErasuresOK
<1>3. x.at \in ErasurePlaces => Asked(x.ask, x.at)
  BY DEF GoesOn
<1>4. \A f \in Erasures : erasure'[f].at # "new" =>
          erasure'[f].ask \in ErasureKinds /\ erasure'[f].id \in RequestIds
  BY <1>1, <1>2 DEF TenantTypeOK, ErasuresOK
<1>5. \A f \in Erasures : erasure'[f].at \in ErasurePlaces => Asked(erasure'[f].ask, erasure'[f].at)
  BY <1>1, <1>3 DEF TenantTypeOK, ErasuresOK
<1>6. \A f \in Erasures : erasure'[f].at = "new" <=> erasure[f].at = "new"
  BY <1>1, <1>2
<1>7. \A f \in Erasures : erasure'[f].at # "new" => \A d \in 1 .. f - 1 : erasure'[d].at # "new"
  BY <1>6, EarlierErasure DEF TenantTypeOK, ErasuresOK
<1> QED
  BY <1>1, <1>4, <1>5, <1>7 DEF ErasuresOK

LEMMA JoinedTyped ==
    ASSUME TenantAssumption, TenantTypeOK, NEW i \in Ingests, erasure' = Joined(i)
    PROVE  ErasuresOK'
<1>1. erasure' \in [Erasures -> ErasureStates] /\ \A f \in Erasures : SameCall(erasure[f], erasure'[f])
  BY JoinedFacts
<1>2. \A f \in Erasures : /\ erasure'[f].at = erasure[f].at /\ erasure'[f].ask = erasure[f].ask
                          /\ erasure'[f].id = erasure[f].id
  BY <1>1 DEF SameCall
<1>3. \A f \in Erasures : erasure'[f].at # "new" => \A d \in 1 .. f - 1 : erasure'[d].at # "new"
  BY <1>2, EarlierErasure DEF TenantTypeOK, ErasuresOK
<1> QED
  BY <1>1, <1>2, <1>3 DEF TenantTypeOK, ErasuresOK

LEMMA BeginsTyped ==
    ASSUME TenantAssumption, TenantTypeOK, NEW e \in Erasures, NEW ask \in ErasureKinds, NEW r \in RequestIds,
           ErasureBegins(e, ask, r)
    PROVE  ErasuresOK'
<1>1. /\ erasure' \in [Erasures -> ErasureStates] /\ Beginner(erasure'[e], ask, r)
      /\ \A f \in Erasures \ {e} : SameCall(erasure[f], erasure'[f])
  BY BeginsFacts
<1>2. \A f \in Erasures \ {e} : /\ erasure'[f].at = erasure[f].at /\ erasure'[f].ask = erasure[f].ask
                                /\ erasure'[f].id = erasure[f].id
  BY <1>1 DEF SameCall
<1>3. erasure'[e].at = "marker" /\ erasure'[e].ask = ask /\ erasure'[e].id = r /\ Asked(ask, "marker")
  BY <1>1 DEF Beginner, Asked
<1>4. \A f \in Erasures : erasure'[f].at # "new" => \A d \in 1 .. f - 1 : erasure'[d].at # "new"
  <2> SUFFICES ASSUME NEW f \in Erasures, erasure'[f].at # "new", NEW d \in 1 .. f - 1
               PROVE  erasure'[d].at # "new"
    OBVIOUS
  <2>1. d \in Erasures
    BY EarlierErasure
  <2>2. CASE f = e
    <3>1. d # e /\ erasure[d].at # "new"
      BY <2>2 DEF ErasureBegins, Erasures
    <3> QED
      BY <1>2, <2>1, <3>1
  <2>3. CASE f # e
    <3>1. erasure[f].at # "new"
      BY <1>2, <2>3
    <3>2. erasure[d].at # "new"
      BY <3>1 DEF TenantTypeOK, ErasuresOK
    <3> QED
      BY <1>2, <1>3, <2>1, <3>2
  <2> QED
    BY <2>2, <2>3
<1> QED
  BY <1>1, <1>2, <1>3, <1>4 DEF TenantTypeOK, ErasuresOK

(* What a stream stores next.                                              *)
LEMMA AfterFacts ==
    ASSUME NEW p \in StreamPlaces \ {"new", "done"}, NEW risky \in BOOLEAN
    PROVE  After(p, risky) \in StreamPlaces \ {"new"}
BY DEF StreamPlaces, After

LEMMA StreamMoves ==
    ASSUME TenantTypeOK, NEW s \in Streams, StreamBegins(s) \/ StreamWrites(s) \/ StreamFails(s)
    PROVE  /\ stream' \in [Streams -> [at : StreamPlaces, risky : BOOLEAN]] /\ UNCHANGED ingest
           /\ \A o \in Streams \ {s} : stream'[o] = stream[o]
           /\ stream[s].at # "done"
<1>1. stream[s] \in [at : StreamPlaces, risky : BOOLEAN]
  BY DEF TenantTypeOK, WritersOK
<1>2. CASE StreamBegins(s)
  <2>1. PICK risky \in BOOLEAN : stream' = [stream EXCEPT ![s] = [at |-> "prompts", risky |-> risky]]
    BY <1>2 DEF StreamBegins
  <2> QED
    BY <1>2, <2>1 DEF StreamBegins, FirstNew, TenantTypeOK, WritersOK, StreamPlaces
<1>3. CASE StreamWrites(s) \/ StreamFails(s)
  <2>1. stream[s].at \in StreamPlaces \ {"new", "done"}
    BY <1>1, <1>3, StatusFacts DEF StreamWrites, StreamFails
  <2>2. PICK p \in StreamPlaces : stream' = [stream EXCEPT ![s].at = p]
    <3>1. After(stream[s].at, stream[s].risky) \in StreamPlaces
      BY <1>1, <2>1, AfterFacts
    <3>2. CASE StreamWrites(s)
      BY <3>1, <3>2 DEF StreamWrites
    <3>3. CASE StreamFails(s)
      <4> DEFINE p == IF stream[s].at = "text" THEN "corpus"
                      ELSE IF stream[s].at \in Giving THEN After(stream[s].at, stream[s].risky) ELSE "done"
      <4>1. p \in StreamPlaces
        BY <3>1 DEF StreamPlaces
      <4>2. stream' = [stream EXCEPT ![s].at = p]
        BY <3>3 DEF StreamFails
      <4> QED
        BY <4>1, <4>2
    <3> QED
      BY <1>3, <3>2, <3>3
  <2>3. [stream[s] EXCEPT !.at = p] \in [at : StreamPlaces, risky : BOOLEAN]
    BY <1>1
  <2> QED
    BY <1>3, <2>1, <2>2, <2>3 DEF StreamWrites, StreamFails, TenantTypeOK, WritersOK
<1> QED
  BY <1>2, <1>3

(* What an ingest stores next; its items stay as it has read them.         *)
LEMMA IngestMoves ==
    ASSUME TenantTypeOK, NEW i \in Ingests, IngestWrites(i) \/ IngestFails(i)
    PROVE  /\ ingest' \in [Ingests -> [at : IngestPlaces, items : SUBSET Ingests]] /\ UNCHANGED stream
           /\ \A o \in Ingests \ {i} : ingest'[o] = ingest[o]
           /\ ingest[i].at \in IngestPlaces \ {"new", "done"} /\ ingest'[i].items = ingest[i].items
           /\ ingest'[i].at \in IngestPlaces \ {"new"}
           /\ ingest[i].at \in {"items", "meta"} => ingest'[i].at \in {"meta", "done"}
<1>1. ingest[i] \in [at : IngestPlaces, items : SUBSET Ingests]
  BY DEF TenantTypeOK, WritersOK
<1>2. ingest[i].at \in IngestPlaces \ {"new", "done"}
  BY <1>1, StatusFacts DEF IngestWrites, IngestFails
<1>3. PICK p \in IngestPlaces \ {"new"} :
          /\ ingest' = [ingest EXCEPT ![i].at = p]
          /\ ingest[i].at \in {"items", "meta"} => p \in {"meta", "done"}
  <2>1. CASE IngestWrites(i)
    <3> DEFINE p == CASE ingest[i].at = "text"    -> IF "content" \in Retained THEN "textTtl" ELSE "items"
                      [] ingest[i].at = "textTtl" -> "items"
                      [] ingest[i].at = "items"   -> "meta"
                      [] OTHER                    -> "done"
    <3>1. p \in IngestPlaces \ {"new"} /\ (ingest[i].at \in {"items", "meta"} => p \in {"meta", "done"})
      BY <1>2 DEF IngestPlaces
    <3>2. ingest' = [ingest EXCEPT ![i].at = p]
      BY <2>1, Zenon DEF IngestWrites
    <3> QED
      BY <3>1, <3>2
  <2>2. CASE IngestFails(i)
    <3> DEFINE p == IF ingest[i].at \in {"text", "textTtl"} THEN "items" ELSE "done"
    <3>1. p \in IngestPlaces \ {"new"} /\ (ingest[i].at \in {"items", "meta"} => p \in {"meta", "done"})
      BY <1>2 DEF IngestPlaces
    <3>2. ingest' = [ingest EXCEPT ![i].at = p]
      BY <2>2 DEF IngestFails
    <3> QED
      BY <3>1, <3>2
  <2> QED
    BY <2>1, <2>2
<1>4. [ingest[i] EXCEPT !.at = p] \in [at : IngestPlaces, items : SUBSET Ingests]
      /\ [ingest[i] EXCEPT !.at = p].items = ingest[i].items /\ [ingest[i] EXCEPT !.at = p].at = p
  BY <1>1
<1>5. UNCHANGED stream
  BY DEF IngestWrites, IngestFails
<1> QED
  BY <1>2, <1>3, <1>4, <1>5 DEF TenantTypeOK, WritersOK

LEMMA IngestBeginsFacts ==
    ASSUME TenantTypeOK, NEW i \in Ingests, IngestBegins(i)
    PROVE  /\ ingest' \in [Ingests -> [at : IngestPlaces, items : SUBSET Ingests]] /\ UNCHANGED stream
           /\ \A o \in Ingests \ {i} : ingest'[o] = ingest[o]
           /\ ingest[i].at = "new" /\ ingest'[i].at = "text" /\ ingest'[i].items \subseteq db[Key("items")]
<1>1. PICK append \in BOOLEAN : ingest' = [ingest EXCEPT ![i] =
          [at |-> "text", items |-> IF append THEN db[Key("items")] ELSE {}]]
  BY DEF IngestBegins
<1> DEFINE x == [at |-> "text", items |-> IF append THEN db[Key("items")] ELSE {}]
<1>2. x \in [at : IngestPlaces, items : SUBSET Ingests] /\ x.at = "text" /\ x.items \subseteq db[Key("items")]
  BY DEF TenantTypeOK, DbOK, IngestPlaces
<1> HIDE DEF x
<1>3. UNCHANGED stream /\ ingest[i].at = "new" /\ ingest' = [ingest EXCEPT ![i] = x]
  BY <1>1 DEF IngestBegins, FirstNew, x
<1> QED
  BY <1>2, <1>3 DEF TenantTypeOK, WritersOK

(* What a step of the data does: who holds what, and where.                *)
Written(s) == CASE stream[s].at = "text" -> Text(s) [] OTHER -> Key(stream[s].at)

LEMMA StreamWritesFacts ==
    ASSUME TenantTypeOK, NEW s \in Streams, StreamBegins(s) \/ StreamWrites(s) \/ StreamFails(s)
    PROVE  /\ db' \in [Keys -> SUBSET Writers] /\ UNCHANGED erasure
           /\ \A k \in Keys : db'[k] \subseteq db[k] \cup {s}
           /\ db'[Key("items")] = db[Key("items")]
           /\ \A w \in Writers \ {s} : db'[Text(w)] = db[Text(w)]
           /\ ~VectorBackend => db'[Key("vectors")] = db[Key("vectors")]
           /\ expires' \in SUBSET Keys
           /\ \A n \in {"items", "meta", "vectors"} : Key(n) \notin expires => Key(n) \notin expires'
<1>1. stream[s] \in [at : StreamPlaces, risky : BOOLEAN] /\ s \in Writers
  BY DEF TenantTypeOK, WritersOK, Writers
<1>0. UNCHANGED erasure
  BY Zenon DEF StreamBegins, StreamWrites, StreamFails
<1>2. CASE UNCHANGED dataVars
  <2>1. db' = db /\ expires' = expires
    BY <1>2 DEF dataVars
  <2>2. db \in [Keys -> SUBSET Writers] /\ expires \in SUBSET Keys
    BY DEF TenantTypeOK, DbOK
  <2> QED
    BY <1>0, <2>1, <2>2
<1>3. ASSUME StreamWrites(s), stream[s].at = "text" PROVE Put(Text(s), {s}) /\ UNCHANGED erasure
  BY <1>3 DEF StreamWrites, Giving
<1>4. ASSUME StreamWrites(s), stream[s].at \in Giving
      PROVE  GiveTtl(TtlKey(s, stream[s].at)) /\ UNCHANGED erasure
  BY <1>4 DEF StreamWrites, Giving
<1>5. ASSUME StreamWrites(s), stream[s].at \notin Giving \cup {"text"}
      PROVE  /\ UNCHANGED erasure
             /\ \/ UNCHANGED dataVars
                \/ /\ stream[s].at = "vectors" => VectorBackend
                   /\ Put(Key(stream[s].at), db[Key(stream[s].at)] \cup {s})
  BY <1>5 DEF StreamWrites, Giving
<1>6. ASSUME StreamWrites(s) PROVE stream[s].at \in StreamPlaces \ {"new", "done"}
  BY <1>1, <1>6, StatusFacts DEF StreamWrites
<1>7. CASE StreamWrites(s) /\ stream[s].at = "text"
  <2>1. Put(s, {s}) /\ UNCHANGED erasure /\ s \in Keys /\ s \notin Named /\ Named \subseteq Keys
    BY <1>1, <1>3, <1>7, KeyFacts
  <2>2. /\ db' \in [Keys -> SUBSET Writers] /\ db'[s] = {s} /\ \A j \in Keys \ {s} : db'[j] = db[j]
        /\ expires' \subseteq expires
    BY <1>1, <2>1, PutFacts
  <2>3. \A n \in {"items", "meta", "vectors"} : Key(n) \in Keys \ {s}
    BY <2>1, KeyFacts
  <2> QED
    BY <2>1, <2>2, <2>3, KeyFacts DEF TenantTypeOK, DbOK
<1>8. CASE StreamWrites(s) /\ stream[s].at \in Giving
  <2>1. UNCHANGED <<db, erasure>> /\ expires' \subseteq expires \cup {TtlKey(s, stream[s].at)}
    BY <1>4, <1>8 DEF GiveTtl
  <2>2. TtlKey(s, stream[s].at) \in Keys \ {Key("items"), Key("meta"), Key("vectors")}
    <3>1. TtlKey(s, stream[s].at) \in {s, Key("corpus"), Key("global"), Key("prompts")}
      BY <1>1, KeyFacts DEF TtlKey
    <3> QED
      BY <1>1, <3>1, KeyFacts
  <2> QED
    BY <2>1, <2>2 DEF TenantTypeOK, DbOK
<1>9. CASE StreamWrites(s) /\ stream[s].at \notin Giving \cup {"text"} /\ ~UNCHANGED dataVars
  <2> DEFINE p == stream[s].at
  <2>1. /\ UNCHANGED erasure /\ (p = "vectors" => VectorBackend)
        /\ Put(Key(p), db[Key(p)] \cup {s})
    BY <1>5, <1>9
  <2>2. p \in {"prompts", "vectors", "corpus", "global"}
    BY <1>6, <1>9 DEF StreamPlaces, Giving
  <2> HIDE DEF p
  <2>3. Key(p) \in Keys /\ Key(p) \in Named /\ Key(p) # Key("items")
        /\ (Key(p) = Key("vectors") => VectorBackend)
    <3>1. Key(p) = Key("vectors") => p = "vectors"
      BY <2>2, KeyFacts
    <3>2. Key(p) # Key("items")
      BY <2>2, KeyFacts
    <3>3. Key(p) \in Named /\ Key(p) \in Keys
      BY <2>2, KeyFacts
    <3> QED
      BY <2>1, <3>1, <3>2, <3>3
  <2>4. db[Key(p)] \cup {s} \in SUBSET Writers
    BY <1>1, <2>3 DEF TenantTypeOK, DbOK
  <2>5. /\ db' \in [Keys -> SUBSET Writers] /\ db'[Key(p)] = db[Key(p)] \cup {s}
        /\ \A j \in Keys \ {Key(p)} : db'[j] = db[j]
        /\ expires' \subseteq expires
    BY <2>1, <2>3, <2>4, PutFacts
  <2>6. \A w \in Writers \ {s} : Text(w) \in Keys \ {Key(p)}
    BY <2>3, KeyFacts
  <2>7. Key("items") \in Keys \ {Key(p)} /\ Key("vectors") \in Keys
    BY <2>3, KeyFacts
  <2>8. \A k \in Keys : db'[k] \subseteq db[k] \cup {s}
    BY <2>5
  <2>9. expires' \in SUBSET Keys
        /\ \A n \in {"items", "meta", "vectors"} : Key(n) \notin expires => Key(n) \notin expires'
    BY <2>5 DEF TenantTypeOK, DbOK
  <2>10. \A w \in Writers \ {s} : db'[Text(w)] = db[Text(w)]
    BY <2>5, <2>6
  <2>11. db'[Key("items")] = db[Key("items")] /\ (~VectorBackend => db'[Key("vectors")] = db[Key("vectors")])
    BY <2>3, <2>5, <2>7
  <2> QED
    BY <2>1, <2>5, <2>8, <2>9, <2>10, <2>11
<1>10. StreamWrites(s) \/ UNCHANGED dataVars
  BY DEF StreamBegins, StreamFails
<1> QED
  BY <1>2, <1>7, <1>8, <1>9, <1>10

LEMMA IngestWritesFacts ==
    ASSUME TenantTypeOK, NEW i \in Ingests, IngestWrites(i) \/ IngestFails(i)
    PROVE  /\ db' \in [Keys -> SUBSET Writers] /\ UNCHANGED erasure
           /\ \A n \in {"prompts", "vectors", "corpus"} : db'[Key(n)] = db[Key(n)]
           /\ \A w \in Writers : db'[Text(w)] = db[Text(w)] \/ (w = i /\ ingest[i].at = "text")
           /\ \/ db'[Key("items")] = db[Key("items")]
              \/ ingest[i].at = "items" /\ db'[Key("items")] \subseteq ingest[i].items \cup {i}
           /\ expires' \in SUBSET Keys
           /\ \A n \in {"items", "meta", "vectors"} : Key(n) \notin expires => Key(n) \notin expires'
<1>1. /\ ingest[i] \in [at : IngestPlaces, items : SUBSET Ingests] /\ i \in Writers
      /\ ingest[i].at \in {"text", "textTtl", "items", "meta"}
  BY IngestMoves DEF TenantTypeOK, WritersOK, Writers, IngestPlaces
<1>2. CASE IngestFails(i)
  BY <1>2 DEF IngestFails, dataVars, TenantTypeOK, DbOK
<1>3. CASE IngestWrites(i) /\ ingest[i].at = "text"
  <2>1. Put(i, {i}) /\ UNCHANGED erasure /\ i \in Keys /\ i \notin Named /\ Named \subseteq Keys
    BY <1>1, <1>3, KeyFacts DEF IngestWrites
  <2>2. /\ db' \in [Keys -> SUBSET Writers] /\ \A j \in Keys \ {i} : db'[j] = db[j]
        /\ expires' \subseteq expires
    BY <1>1, <2>1, PutFacts
  <2>3. \A n \in {"items", "meta", "vectors", "prompts", "corpus"} : Key(n) \in Keys \ {i}
    BY <2>1, KeyFacts
  <2> QED
    BY <1>3, <2>1, <2>2, <2>3, KeyFacts DEF TenantTypeOK, DbOK
<1>4. CASE IngestWrites(i) /\ ingest[i].at = "textTtl"
  <2>1. UNCHANGED <<db, erasure>> /\ expires' \subseteq expires \cup {i}
    BY <1>1, <1>4, KeyFacts DEF IngestWrites, GiveTtl
  <2>2. i \in Keys \ {Key("items"), Key("meta"), Key("vectors")}
    BY <1>1, KeyFacts
  <2> QED
    BY <2>1, <2>2 DEF TenantTypeOK, DbOK
<1>5. CASE IngestWrites(i) /\ ingest[i].at \in {"items", "meta"}
  <2>1. PICK n \in {"items", "meta"}, ws \in SUBSET Ingests :
            /\ Put(Key(n), ws) /\ n = ingest[i].at /\ UNCHANGED erasure
            /\ n = "items" => ws \subseteq ingest[i].items \cup {i}
    <3>1. CASE ingest[i].at = "items"
      <4>1. Compiled(i) \in SUBSET Ingests /\ Compiled(i) \subseteq ingest[i].items \cup {i}
        BY <1>1 DEF Compiled
      <4>2. Put(Key("items"), Compiled(i)) /\ UNCHANGED erasure
        BY <1>5, <3>1 DEF IngestWrites
      <4> QED
        BY <3>1, <4>1, <4>2
    <3>2. CASE ingest[i].at = "meta"
      <4>1. Put(Key("meta"), {i}) /\ UNCHANGED erasure
        BY <1>5, <3>2 DEF IngestWrites
      <4> QED
        BY <3>2, <4>1
    <3> QED
      BY <1>5, <3>1, <3>2
  <2>2. Key(n) \in Keys /\ ws \in SUBSET Writers /\ Key(n) \in Named
    BY KeyFacts DEF Writers
  <2>3. /\ db' \in [Keys -> SUBSET Writers] /\ db'[Key(n)] = ws
        /\ \A j \in Keys \ {Key(n)} : db'[j] = db[j] /\ expires' \subseteq expires
    BY <2>1, <2>2, PutFacts
  <2>4. \A m \in {"prompts", "vectors", "corpus"} : Key(m) \in Keys \ {Key(n)}
    BY KeyFacts
  <2>5. \A w \in Writers : Text(w) \in Keys \ {Key(n)}
    BY <2>2, KeyFacts
  <2>6. Key("items") \in Keys /\ (n # "items" => Key(n) # Key("items"))
    BY KeyFacts
  <2>7. expires' \subseteq expires
    BY <2>1, <2>2, PutFacts
  <2> QED
    BY <2>1, <2>3, <2>4, <2>5, <2>6, <2>7 DEF TenantTypeOK, DbOK
<1> QED
  BY <1>1, <1>2, <1>3, <1>4, <1>5

(* Every other step only takes data away, and those of an erasure what its *)
(* step is about.                                                          *)
Shrinks == /\ db' \in [Keys -> SUBSET Writers] /\ \A k \in Keys : db'[k] \subseteq db[k]
           /\ expires' \in SUBSET Keys
           /\ \A n \in {"items", "meta", "vectors"} : Key(n) \notin expires => Key(n) \notin expires'

LEMMA DeletesShrink ==
    ASSUME TenantTypeOK, NEW ks, Delete(ks)
    PROVE  Shrinks
<1>1. /\ db' \in [Keys -> SUBSET Writers] /\ \A k \in Keys : db'[k] = IF k \in ks THEN {} ELSE db[k]
      /\ expires' \subseteq expires
  BY DeleteFacts
<1> QED
  BY <1>1 DEF Shrinks, TenantTypeOK, DbOK

LEMMA RoundFacts == TenantAssumption => Len(SweepOrder) \in Nat \ {0}
<1> SUFFICES ASSUME TenantAssumption PROVE Len(SweepOrder) \in Nat \ {0}
  OBVIOUS
<1> DEFINE A == <<Key("prompts"), Key("corpus")>>
           B == [n \in 1 .. MaxStreams |-> Text(<<"stream", n>>)]
           C == [n \in 1 .. MaxIngests |-> Text(<<"ingest", n>>)]
           U == {Key("prompts"), Key("corpus")} \cup {Text(<<"stream", n>>) : n \in 1 .. MaxStreams}
                                                \cup {Text(<<"ingest", n>>) : n \in 1 .. MaxIngests}
<1>1. A \in Seq(U) /\ Len(A) = 2
  OBVIOUS
<1>2. B \in Seq(U) /\ C \in Seq(U)
  <2>1. B \in [1 .. MaxStreams -> U] /\ C \in [1 .. MaxIngests -> U]
    OBVIOUS
  <2>2. MaxStreams \in Nat /\ MaxIngests \in Nat
    BY DEF TenantAssumption
  <2> HIDE DEF B, C, U
  <2>3. \A n \in Nat : \A f \in [1 .. n -> U] : f \in Seq(U)
    BY SeqDef
  <2> QED
    BY <2>1, <2>2, <2>3
<1> HIDE DEF A, B, C, U
<1>3. A \o B \in Seq(U) /\ Len(A \o B) = Len(A) + Len(B)
  BY <1>1, <1>2, ConcatProperties, Zenon
<1>4. Len((A \o B) \o C) = Len(A \o B) + Len(C)
  BY <1>2, <1>3, ConcatProperties, Zenon
<1>5. Len(B) \in Nat /\ Len(C) \in Nat
  BY <1>2, LenProperties
<1>6. SweepOrder = (A \o B) \o C
  BY Zenon DEF SweepOrder, A, B, C
<1> QED
  BY <1>1, <1>3, <1>4, <1>5, <1>6

LEMMA SweepShrinks ==
    ASSUME TenantAssumption, TenantTypeOK, SweepSteps
    PROVE  Shrinks /\ UNCHANGED <<db, stream, ingest, erasure>> /\ SweepOK'
<1>1. SweepNext \in [at : Nat, due : BOOLEAN] /\ ~SweepNext.due
  <2>1. sweep.at \in Nat /\ Len(SweepOrder) \in Nat \ {0}
    BY RoundFacts DEF TenantTypeOK, SweepOK
  <2> QED
    BY <2>1 DEF SweepNext
<1>2. CASE SweepLooks
  <2>1. Shrinks /\ UNCHANGED <<db, stream, ingest, erasure>>
    BY <1>2 DEF SweepLooks, dataVars, Shrinks, TenantTypeOK, DbOK
  <2>2. CASE sweep' = SweepNext
    BY <1>1, <2>1, <2>2 DEF SweepOK
  <2>3. CASE sweep' # SweepNext
    <3>1. sweep' = [sweep EXCEPT !.due = TRUE] /\ SweptKey \in Swept
      BY <1>2, <2>3 DEF SweepLooks
    <3>2. sweep' \in [at : Nat, due : BOOLEAN] /\ sweep'.at = sweep.at
      BY <3>1 DEF TenantTypeOK, SweepOK
    <3> QED
      BY <2>1, <3>1, <3>2 DEF SweepOK, SweptKey
  <2> QED
    BY <2>1, <2>2, <2>3
<1>3. CASE SweepFails
  <2>1. NewRound \in [at : Nat, due : BOOLEAN] /\ ~NewRound.due
    BY DEF NewRound
  <2>2. SweepOK'
    BY <1>1, <1>3, <2>1 DEF SweepFails, SweepOK
  <2> QED
    BY <1>3, <2>2 DEF SweepFails, dataVars, Shrinks, TenantTypeOK, DbOK
<1>4. CASE SweepGives
  <2>1. SweptKey \in Swept /\ UNCHANGED <<db, stream, ingest, erasure>> /\ sweep' = SweepNext
        /\ expires' \subseteq expires \cup {SweptKey}
    BY <1>4 DEF SweepGives, GiveTtl, TenantTypeOK, SweepOK
  <2>2. SweptKey \in {Key("prompts"), Key("corpus")} \cup Writers
    BY <2>1, KeyFacts DEF Swept
  <2>3. SweptKey \in Keys \ {Key("items"), Key("meta"), Key("vectors")}
    BY <2>2, KeyFacts
  <2>4. Shrinks
    BY <2>1, <2>3 DEF Shrinks, TenantTypeOK, DbOK
  <2>5. SweepOK'
    BY <1>1, <2>1 DEF SweepOK
  <2> QED
    BY <2>1, <2>4, <2>5
<1> QED
  BY <1>2, <1>3, <1>4 DEF SweepSteps

(* A key reaches its end.                                                  *)
LEMMA LapseShrinks ==
    ASSUME TenantTypeOK, DataInv, NEW k \in Keys, Lapse(k)
    PROVE  Shrinks /\ db'[Key("items")] = db[Key("items")] /\ UNCHANGED <<stream, ingest, erasure, sweep>>
<1>1. Shrinks /\ \A j \in Keys : db'[j] = IF j \in {k} THEN {} ELSE db[j]
  BY DeletesShrink, DeleteFacts DEF Lapse
<1>2. k # Key("items") /\ Key("items") \in Keys
  BY KeyFacts DEF Lapse, DataInv
<1> QED
  BY <1>1, <1>2 DEF Lapse

(* A step of an erasure: it fails, it erases, it loads, or leaves the data *)
(* as it is.                                                               *)
ErasureSteps(e) == Erases(e) \/ LoadsItems(e) \/ ReachesObjects(e) \/ RecordsProof(e) \/ ErasureFails(e)
Erasing == {"prompts", "anchor", "corpus", "texts", "items", "refs"}

StepKind(e, x) ==
    LET w == erasure[e] IN
    \/ x.hurt
    \/ /\ w.at \in Erasing /\ NoSkip(w, x) /\ x.items = w.items
       /\ \A k \in Keys : db'[k] = IF k \in Targets(e) THEN {} ELSE db[k]
    \/ /\ w.at = "load" /\ w.ask.dlp /\ UNCHANGED db /\ x.items = db[Key("items")]
       /\ x.at = IF db[Key("items")] = {} THEN "items" ELSE "texts"
    \/ w.at \in ErasurePlaces \ (Erasing \cup {"load"}) /\ NoSkip(w, x) /\ UNCHANGED db

LEMMA TargetFacts ==
    ASSUME TenantAssumption, TenantTypeOK, NEW e \in Erasures, erasure[e].at \in Erasing
    PROVE  /\ erasure[e].at = "prompts" => Targets(e) = {Key("prompts")}
           /\ erasure[e].at = "anchor"  => Targets(e) = {Key(IF VectorBackend THEN "vectors" ELSE "prompts")}
           /\ erasure[e].at = "corpus"  => Targets(e) = {Key("corpus")}
           /\ erasure[e].at = "texts"   => Targets(e) = erasure[e].items
           /\ erasure[e].at = "items"   => Targets(e) = {Key("items"), Key("meta")} /\ erasure[e].ask.dlp
           /\ erasure[e].at = "refs"    => Targets(e) = erasure[e].ask.refs
           /\ erasure[e].at # "items"   => Key("items") \notin Targets(e)
<1>1. erasure[e] \in ErasureStates /\ erasure[e].ask \in ErasureKinds /\ Asked(erasure[e].ask, erasure[e].at)
  BY RunningErasure DEF Erasing, ErasurePlaces
<1>2. erasure[e].items \subseteq Writers /\ erasure[e].ask.refs \subseteq Writers
  BY <1>1, KeyFacts DEF ErasureStates, Writers, TenantAssumption
<1>3. TextsOf(erasure[e].items) = erasure[e].items
  BY <1>2, KeyFacts DEF TextsOf
<1>4. Key("items") \notin Writers /\ Key("items") \in Named
  BY KeyFacts
<1>5. CASE erasure[e].at = "prompts"
  <2>1. Targets(e) = {Key("prompts")}
    BY <1>5 DEF Targets
  <2> QED
    BY <1>5, <2>1, KeyFacts
<1>6. CASE erasure[e].at = "anchor"
  <2>1. Targets(e) = {Key(IF VectorBackend THEN "vectors" ELSE "prompts")}
    BY <1>6 DEF Targets
  <2> QED
    BY <1>6, <2>1, KeyFacts
<1>7. CASE erasure[e].at = "corpus"
  <2>1. Targets(e) = {Key("corpus")}
    BY <1>7 DEF Targets
  <2> QED
    BY <1>7, <2>1, KeyFacts
<1>8. CASE erasure[e].at = "texts"
  <2>1. Targets(e) = erasure[e].items
    BY <1>8, <1>3 DEF Targets
  <2> QED
    BY <1>2, <1>4, <1>8, <2>1
<1>9. CASE erasure[e].at = "items"
  <2>1. Targets(e) = {Key("items"), Key("meta")}
    BY <1>9 DEF Targets
  <2> QED
    BY <1>1, <1>9, <2>1 DEF Asked
<1>10. CASE erasure[e].at = "refs"
  <2>1. Targets(e) = erasure[e].ask.refs
    BY <1>10 DEF Targets
  <2> QED
    BY <1>2, <1>4, <1>10, <2>1
<1> QED
  BY <1>5, <1>6, <1>7, <1>8, <1>9, <1>10 DEF Erasing

LEMMA ErasureStepFacts ==
    ASSUME TenantAssumption, TenantTypeOK, NEW e \in Erasures, ErasureSteps(e)
    PROVE  /\ Shrinks /\ UNCHANGED <<stream, ingest, sweep>>
           /\ erasure[e].ask.dlp \/ db'[Key("items")] = db[Key("items")]
           /\ erasure[e].at = "items" \/ db'[Key("items")] = db[Key("items")]
           /\ \E x \in ErasureStates : GoesOn(e, x) /\ StepKind(e, x)
<1>0. UNCHANGED <<stream, ingest, sweep>>
  BY Zenon DEF ErasureSteps, Erases, LoadsItems, ReachesObjects, RecordsProof, ErasureFails
<1>1. ASSUME UNCHANGED dataVars PROVE Shrinks /\ UNCHANGED db
  BY <1>1 DEF Shrinks, dataVars, TenantTypeOK, DbOK
<1>2. ASSUME Delete(Targets(e)), erasure[e].at \in Erasing
      PROVE  /\ Shrinks /\ \A k \in Keys : db'[k] = IF k \in Targets(e) THEN {} ELSE db[k]
             /\ erasure[e].ask.dlp \/ db'[Key("items")] = db[Key("items")]
             /\ erasure[e].at = "items" \/ db'[Key("items")] = db[Key("items")]
  <2>1. Shrinks /\ \A k \in Keys : db'[k] = IF k \in Targets(e) THEN {} ELSE db[k]
    BY <1>2, DeletesShrink, DeleteFacts
  <2>2. Key("items") \in Keys
    BY KeyFacts
  <2>3. erasure[e].at = "items" => erasure[e].ask.dlp
    BY <1>2, TargetFacts
  <2>4. erasure[e].at # "items" => Key("items") \notin Targets(e)
    BY <1>2, TargetFacts
  <2> QED
    BY <2>1, <2>2, <2>3, <2>4
<1>3. CASE Erases(e)
  <2>1. erasure[e].at \in Erasing /\ Delete(Targets(e))
    BY <1>3 DEF Erases, Erasing
  <2>2. PICK x \in ErasureStates : GoesOn(e, x) /\ NoSkip(erasure[e], x) /\ x.items = erasure[e].items
    BY <1>3, ErasesGoesOn
  <2>3. StepKind(e, x)
    BY <1>2, <2>1, <2>2 DEF StepKind
  <2> QED
    BY <1>0, <1>2, <2>1, <2>2, <2>3
<1>4. CASE RecordsProof(e)
  <2>1. UNCHANGED dataVars
    BY <1>4, Zenon DEF RecordsProof
  <2>2. erasure[e].at \in ErasurePlaces \ (Erasing \cup {"load"})
    BY <1>4 DEF RecordsProof, ErasurePlaces, Erasing
  <2>3. PICK x \in ErasureStates : GoesOn(e, x) /\ NoSkip(erasure[e], x)
    BY <1>4, ErasesGoesOn
  <2>4. StepKind(e, x)
    BY <1>1, <2>1, <2>2, <2>3 DEF StepKind
  <2> QED
    BY <1>0, <1>1, <2>1, <2>3, <2>4
<1>5. CASE LoadsItems(e)
  <2>1. UNCHANGED dataVars /\ erasure[e].at = "load"
    BY <1>5, Zenon DEF LoadsItems
  <2>2. PICK x \in ErasureStates :
              /\ GoesOn(e, x) /\ erasure[e].ask.dlp /\ x.items = db[Key("items")]
              /\ x.at = IF db[Key("items")] = {} THEN "items" ELSE "texts"
    BY <1>5, LoadGoesOn
  <2>3. StepKind(e, x)
    BY <1>1, <2>1, <2>2 DEF StepKind
  <2> QED
    BY <1>0, <1>1, <2>1, <2>2, <2>3
<1>6. CASE ReachesObjects(e)
  <2>1. UNCHANGED dataVars
    BY <1>6, Zenon DEF ReachesObjects
  <2>2. PICK x \in ErasureStates : GoesOn(e, x) /\ NoSkip(erasure[e], x) /\ erasure[e].at = "objects"
    BY <1>6, ObjectsGoesOn
  <2>3. erasure[e].at \in ErasurePlaces \ (Erasing \cup {"load"})
    BY <2>2 DEF ErasurePlaces, Erasing
  <2>4. StepKind(e, x)
    BY <1>1, <2>1, <2>2, <2>3 DEF StepKind
  <2> QED
    BY <1>0, <1>1, <2>1, <2>2, <2>4
<1>7. CASE ErasureFails(e)
  <2>1. UNCHANGED dataVars \/ (Delete(Targets(e)) /\ erasure[e].at \in Erasing)
    BY <1>7 DEF ErasureFails, Erasing
  <2>2. PICK x \in ErasureStates : GoesOn(e, x) /\ x.hurt
    BY <1>7, FailureGoesOn
  <2>3. StepKind(e, x)
    BY <2>2 DEF StepKind
  <2> QED
    BY <1>0, <1>1, <1>2, <2>1, <2>2, <2>3
<1> QED
  BY <1>3, <1>4, <1>5, <1>6, <1>7 DEF ErasureSteps

-----------------------------------------------------------------------------
(* The data through each step.                                             *)

(* What no step brings back.                                               *)
DataKept ==
    /\ ~VectorBackend => db'[Key("vectors")] = {}
    /\ expires' \cap {Key("items"), Key("meta"), Key("vectors")} = {}
    /\ db'[Key("items")] \subseteq Stored'
    /\ \A i \in Ingests : ingest'[i].items \subseteq Stored'

LEMMA StreamKeepsData ==
    ASSUME TenantTypeOK, DataInv, NEW s \in Streams, StreamBegins(s) \/ StreamWrites(s) \/ StreamFails(s)
    PROVE  DataInv'
<1>1. /\ UNCHANGED ingest /\ \A o \in Streams \ {s} : stream'[o] = stream[o]
      /\ stream[s].at # "done"
  BY StreamMoves
<1>2. /\ UNCHANGED erasure /\ \A k \in Keys : db'[k] \subseteq db[k] \cup {s}
      /\ db'[Key("items")] = db[Key("items")]
      /\ \A w \in Writers \ {s} : db'[Text(w)] = db[Text(w)]
      /\ ~VectorBackend => db'[Key("vectors")] = db[Key("vectors")]
      /\ \A n \in {"items", "meta", "vectors"} : Key(n) \notin expires => Key(n) \notin expires'
  BY StreamWritesFacts
<1>3. Stored' = Stored /\ s \notin Ingests
  BY <1>1, KeyFacts DEF Stored
<1>4. DataKept
  BY <1>1, <1>2, <1>3 DEF DataKept, DataInv
<1>5. ASSUME NEW e \in Erasures, erasure[e].at # "new" PROVE Apart(e)' /\ GoneSoFar(e)'
  <2>1. Apart(e) /\ GoneSoFar(e) /\ erasure'[e] = erasure[e]
    BY <1>2, <1>5 DEF DataInv
  <2>2. s \notin erasure[e].before /\ s \notin erasure[e].listed
    BY <1>1, <1>3, <2>1 DEF Apart, Stored
  <2>3. erasure[e].before \subseteq Writers /\ erasure[e].listed \subseteq Writers
    BY DEF TenantTypeOK, ErasuresOK, ErasureStates, Writers
  <2>4. Apart(e)'
    BY <1>1, <1>2, <1>3, <2>1, <2>2 DEF Apart
  <2>5. \A n \in {"prompts", "vectors", "corpus"} : db'[Key(n)] \cap erasure[e].before \subseteq db[Key(n)]
    BY <1>2, <2>2, KeyFacts
  <2>6. \A w \in erasure[e].before \cup erasure[e].listed : db'[Text(w)] = db[Text(w)]
    BY <1>2, <2>2, <2>3
  <2>7. GoneSoFar(e)'
    BY <1>1, <1>2, <2>1, <2>5, <2>6 DEF GoneSoFar
  <2> QED
    BY <2>4, <2>7
<1> QED
  BY <1>2, <1>4, <1>5 DEF DataInv, DataKept

LEMMA IngestBeginsKeepsData ==
    ASSUME TenantTypeOK, DataInv, NEW i \in Ingests, IngestBegins(i)
    PROVE  DataInv'
<1>1. /\ UNCHANGED stream /\ \A o \in Ingests \ {i} : ingest'[o] = ingest[o]
      /\ ingest[i].at = "new" /\ ingest'[i].at = "text" /\ ingest'[i].items \subseteq db[Key("items")]
  BY IngestBeginsFacts
<1>2. UNCHANGED <<db, expires>> /\ erasure' = Joined(i)
  BY DEF IngestBegins, dataVars
<1>3. \A f \in Erasures :
          /\ SameCall(erasure[f], erasure'[f]) /\ erasure[f].during \subseteq erasure'[f].during
          /\ Running(erasure[f]) => i \in erasure'[f].during
          /\ erasure'[f] \in ErasureStates
  BY <1>2, JoinedFacts
<1>4. Stored' = Stored
  BY <1>1 DEF Stored
<1>5. DataKept
  BY <1>1, <1>2, <1>4 DEF DataKept, DataInv
<1>6. \A f \in Erasures : Running(erasure'[f]) <=> Running(erasure[f])
  BY <1>3 DEF Running, Over, SameCall
<1>7. ASSUME NEW e \in Erasures, erasure'[e].at # "new" PROVE Apart(e)' /\ GoneSoFar(e)'
  <2> DEFINE w == erasure[e]
             x == erasure'[e]
  <2>1. /\ x.at = w.at /\ x.ask = w.ask /\ x.hurt = w.hurt /\ x.before = w.before /\ x.listed = w.listed
        /\ x.items = w.items /\ w.during \subseteq x.during
    BY <1>3 DEF SameCall
  <2>2. Apart(e) /\ GoneSoFar(e)
    BY <1>7, <2>1 DEF DataInv
  <2>3. \A f \in Erasures : erasure'[f].ask = erasure[f].ask
    BY <1>3 DEF SameCall
  <2>4. \A o \in Ingests \ {i} : Running(ingest'[o]) <=> Running(ingest[o])
    BY <1>1
  <2>5. Apart(e)'
    <3>1. /\ \A s \in Streams : s \in x.before => stream'[s].at = "done"
          /\ \A o \in Ingests : o \in x.before => ingest'[o].at = "done"
          /\ x.listed \subseteq Stored'
      BY <1>1, <1>4, <2>1, <2>2 DEF Apart
    <3>2. Running(x) => \A o \in Ingests : Running(ingest'[o]) => o \in x.during
      BY <1>3, <1>6, <2>1, <2>2, <2>4 DEF Apart
    <3>3. Running(x) => \A f \in Erasures \ {e} :
                Running(erasure'[f]) /\ erasure'[f].ask.dlp => AsCall(f) \in x.during
      BY <1>6, <2>1, <2>2, <2>3 DEF Apart
    <3> QED
      BY <3>1, <3>2, <3>3 DEF Apart
  <2>6. \A place : Passed(x, place) <=> Passed(w, place)
    BY <2>1 DEF Passed
  <2>7. ASSUME x.during = {}, Passed(x, "items"), ~x.hurt, x.ask.dlp
        PROVE  \A o \in Ingests : Running(ingest'[o]) => ingest'[o].items \cap x.before = {}
    <3>1. w.during = {} /\ Passed(w, "items") /\ ~w.hurt /\ w.ask.dlp
      BY <2>1, <2>6, <2>7
    <3>2. db[Key("items")] \cap w.before = {} /\ \A o \in Ingests : Running(ingest[o]) => ingest[o].items \cap w.before = {}
      BY <2>2, <3>1 DEF GoneSoFar
    <3> QED
      BY <1>1, <2>1, <3>2
  <2>8. GoneSoFar(e)'
    <3>1. x.during = {} => w.during = {}
      BY <2>1
    <3> HIDE DEF w, x
    <3>2. GoneSoFar(e) => 
            (~x.hurt =>
      /\ x.ask.session /\ Passed(x, "prompts") => db[Key("prompts")] \cap x.before = {}
      /\ x.ask.session /\ Passed(x, "anchor")  => db[Key("vectors")] \cap x.before = {}
      /\ x.ask.corpus /\ Passed(x, "corpus")   => db[Key("corpus")] \cap x.before = {}
      /\ x.ask.dlp /\ x.during = {} /\ Running(x) /\ ~Passed(x, "items") => db[Key("items")] = x.listed
      /\ x.ask.dlp /\ x.during = {} /\ x.at = "texts"     => x.items = x.listed
      /\ x.ask.dlp /\ x.during = {} /\ Passed(x, "texts") => \A o \in x.listed : db[Text(o)] = {}
      /\ x.ask.dlp /\ x.during = {} /\ Passed(x, "items") => db[Key("items")] \cap x.before = {}
      /\ Passed(x, "refs") => \A o \in x.before : Text(o) \in x.ask.refs => db[Text(o)] = {})
      BY <1>6, <2>1, <2>6, <3>1 DEF GoneSoFar, w, x
    <3> QED
      BY <1>2, <2>2, <2>7, <3>2 DEF GoneSoFar, x
  <2> QED
    BY <2>5, <2>8
<1> QED
  BY <1>2, <1>5, <1>7 DEF DataInv, DataKept

LEMMA IngestWritesKeepsData ==
    ASSUME TenantTypeOK, DataInv, NEW i \in Ingests, IngestWrites(i) \/ IngestFails(i)
    PROVE  DataInv'
<1>1. /\ UNCHANGED stream /\ \A o \in Ingests \ {i} : ingest'[o] = ingest[o]
      /\ ingest[i].at \in IngestPlaces \ {"new", "done"} /\ ingest'[i].items = ingest[i].items
      /\ ingest'[i].at \in IngestPlaces \ {"new"}
      /\ ingest[i].at \in {"items", "meta"} => ingest'[i].at \in {"meta", "done"}
      /\ ingest[i] \in [at : IngestPlaces, items : SUBSET Ingests]
  BY IngestMoves DEF TenantTypeOK, WritersOK
<1>2. /\ UNCHANGED erasure
      /\ \A n \in {"prompts", "vectors", "corpus"} : db'[Key(n)] = db[Key(n)]
      /\ \A w \in Writers : db'[Text(w)] = db[Text(w)] \/ (w = i /\ ingest[i].at = "text")
      /\ \/ db'[Key("items")] = db[Key("items")]
         \/ ingest[i].at = "items" /\ db'[Key("items")] \subseteq ingest[i].items \cup {i}
      /\ \A n \in {"items", "meta", "vectors"} : Key(n) \notin expires => Key(n) \notin expires'
  BY IngestWritesFacts
<1>3. Running(ingest[i])
  BY <1>1, StatusFacts
<1>4. Stored \subseteq Stored' /\ (ingest[i].at = "items" => i \in Stored')
  BY <1>1 DEF Stored
<1>5. DataKept
  BY <1>1, <1>2, <1>4 DEF DataKept, DataInv
<1>6. ASSUME NEW e \in Erasures, erasure[e].at # "new" PROVE Apart(e)' /\ GoneSoFar(e)'
  <2> DEFINE x == erasure[e]
  <2>1. Apart(e) /\ GoneSoFar(e) /\ erasure'[e] = x
    BY <1>2, <1>6 DEF DataInv
  <2>2. i \notin x.before /\ (ingest[i].at = "text" => i \notin x.listed)
    BY <1>1, <2>1 DEF Apart, Stored
  <2>3. x.before \subseteq Writers /\ x.listed \subseteq Writers
    BY DEF TenantTypeOK, ErasuresOK, ErasureStates, Writers
  <2>4. Running(x) => i \in x.during
    BY <1>3, <2>1 DEF Apart
  <2>5. Apart(e)'
    BY <1>1, <1>2, <1>3, <1>4, <2>1, <2>2 DEF Apart
  <2>6. \A w \in x.before \cup x.listed : db'[Text(w)] = db[Text(w)]
    BY <1>2, <2>2, <2>3
  <2>7. ASSUME x.during = {}, Passed(x, "items"), ~x.hurt, x.ask.dlp
        PROVE  /\ db'[Key("items")] \cap x.before = {}
               /\ \A o \in Ingests : Running(ingest'[o]) => ingest'[o].items \cap x.before = {}
    <3>1. /\ db[Key("items")] \cap x.before = {}
          /\ \A o \in Ingests : Running(ingest[o]) => ingest[o].items \cap x.before = {}
      BY <2>1, <2>7 DEF GoneSoFar
    <3> QED
      BY <1>1, <1>2, <1>3, <2>2, <3>1
  <2>8. GoneSoFar(e)'
    <3>1. x.during = {} => ~Running(x)
      BY <2>4
    <3>2. \A place : Passed(erasure'[e], place) <=> Passed(x, place)
      BY <2>1
    <3> HIDE DEF x
    <3> QED
      BY <1>1, <1>2, <2>1, <2>6, <2>7, <3>1, <3>2 DEF GoneSoFar, x
  <2> QED
    BY <2>5, <2>8
<1> QED
  BY <1>2, <1>5, <1>6 DEF DataInv, DataKept

(* Steps that touch neither the calls nor the exemplars.                   *)
LEMMA QuietKeepsData ==
    ASSUME TenantTypeOK, DataInv, Shrinks, db'[Key("items")] = db[Key("items")],
           UNCHANGED <<stream, ingest, erasure>>
    PROVE  DataInv'
<1>1. Stored' = Stored /\ \A k \in Keys : db'[k] \subseteq db[k]
  BY DEF Stored, Shrinks
<1>2. DataKept
  BY <1>1, KeyFacts DEF DataKept, DataInv, Shrinks
<1>3. ASSUME NEW e \in Erasures, erasure[e].at # "new" PROVE Apart(e)' /\ GoneSoFar(e)'
  <2> DEFINE x == erasure[e]
  <2>1. Apart(e) /\ GoneSoFar(e)
    BY <1>3 DEF DataInv
  <2>2. Apart(e)'
    BY <1>1, <2>1 DEF Apart
  <2>3. x.before \subseteq Writers /\ x.listed \subseteq Writers
    BY DEF TenantTypeOK, ErasuresOK, ErasureStates, Writers
  <2>4. \A w \in x.before \cup x.listed : db'[Text(w)] \subseteq db[Text(w)]
    BY <1>1, <2>3, KeyFacts
  <2>5. \A n \in {"prompts", "vectors", "corpus"} : db'[Key(n)] \subseteq db[Key(n)]
    BY <1>1, KeyFacts
  <2>6. GoneSoFar(e)'
    BY <2>1, <2>4, <2>5 DEF GoneSoFar
  <2> QED
    BY <2>2, <2>6
<1> QED
  BY <1>2, <1>3 DEF DataInv, DataKept

LEMMA BeginsKeepsData ==
    ASSUME TenantTypeOK, DataInv, NEW e \in Erasures, NEW ask \in ErasureKinds, NEW r \in RequestIds,
           ErasureBegins(e, ask, r)
    PROVE  DataInv'
<1>1. /\ Beginner(erasure'[e], ask, r) /\ erasure[e].at = "new"
      /\ \A f \in Erasures \ {e} :
           /\ SameCall(erasure[f], erasure'[f]) /\ erasure[f].during \subseteq erasure'[f].during
           /\ Running(erasure[f]) /\ ask.dlp => AsCall(e) \in erasure'[f].during
  BY BeginsFacts
<1>2. UNCHANGED <<db, expires, stream, ingest>>
  BY DEF ErasureBegins, dataVars
<1>3. Stored' = Stored
  BY <1>2 DEF Stored
<1>4. DataKept
  BY <1>2, <1>3 DEF DataKept, DataInv
<1>5. \A f \in Erasures \ {e} : (Running(erasure'[f]) <=> Running(erasure[f])) /\ erasure'[f].ask = erasure[f].ask
  BY <1>1 DEF Running, Over, SameCall
<1>6. Apart(e)' /\ GoneSoFar(e)'
  <2> DEFINE x == erasure'[e]
  <2>1. /\ x.at = "marker" /\ x.ask = ask /\ ~x.hurt /\ x.items = {}
        /\ x.before = Ended /\ x.listed = db[Key("items")] /\ x.during = Beside
    BY <1>1 DEF Beginner
  <2>2. \A s \in Streams : s \in Ended => stream[s].at = "done"
    BY StatusFacts, KeyFacts DEF Ended, TenantTypeOK, WritersOK
  <2>3. \A i \in Ingests : i \in Ended => ingest[i].at = "done"
    BY StatusFacts, KeyFacts DEF Ended, TenantTypeOK, WritersOK
  <2>4. db[Key("items")] \subseteq Stored
    BY DEF DataInv
  <2>5. \A i \in Ingests : Running(ingest[i]) => i \in Beside
    BY DEF Beside
  <2>6. \A f \in Erasures : Running(erasure[f]) /\ erasure[f].ask.dlp => AsCall(f) \in Beside
    BY DEF Beside
  <2>7. Apart(e)'
    BY <1>2, <1>3, <1>5, <2>1, <2>2, <2>3, <2>4, <2>5, <2>6 DEF Apart
  <2>8. /\ ~Passed(x, "prompts") /\ ~Passed(x, "anchor") /\ ~Passed(x, "corpus") /\ ~Passed(x, "texts")
        /\ ~Passed(x, "items") /\ ~Passed(x, "refs")
    BY <2>1 DEF Passed, PlaceNo
  <2>9. x.at # "texts"
    BY <2>1
  <2> HIDE DEF x
  <2>10. GoneSoFar(e)'
    BY <1>2, <2>1, <2>8, <2>9 DEF GoneSoFar, x
  <2> QED
    BY <2>7, <2>10
<1>7. ASSUME NEW f \in Erasures \ {e}, erasure'[f].at # "new" PROVE Apart(f)' /\ GoneSoFar(f)'
  <2> DEFINE w == erasure[f]
             x == erasure'[f]
  <2>1. /\ x.at = w.at /\ x.ask = w.ask /\ x.hurt = w.hurt /\ x.before = w.before /\ x.listed = w.listed
        /\ x.items = w.items /\ w.during \subseteq x.during
    BY <1>1 DEF SameCall
  <2>2. Apart(f) /\ GoneSoFar(f)
    BY <1>7, <2>1 DEF DataInv
  <2>3. Apart(f)'
    <3>1. /\ \A s \in Streams : s \in x.before => stream'[s].at = "done"
          /\ \A i \in Ingests : i \in x.before => ingest'[i].at = "done"
          /\ x.listed \subseteq Stored'
          /\ Running(x) => \A i \in Ingests : Running(ingest'[i]) => i \in x.during
      BY <1>2, <1>3, <1>5, <2>1, <2>2 DEF Apart
    <3>2. ASSUME Running(x), NEW g \in Erasures \ {f}, Running(erasure'[g]), erasure'[g].ask.dlp
          PROVE  AsCall(g) \in x.during
      <4>1. CASE g = e
        BY <1>1, <1>5, <3>2, <4>1 DEF Beginner
      <4>2. CASE g # e
        BY <1>5, <2>1, <2>2, <3>2, <4>2 DEF Apart
      <4> QED
        BY <4>1, <4>2
    <3> QED
      BY <3>1, <3>2 DEF Apart
  <2>4. \A place : Passed(x, place) <=> Passed(w, place)
    BY <2>1 DEF Passed
  <2>5. GoneSoFar(f)'
    <3>1. x.during = {} => w.during = {}
      BY <2>1
    <3>2. Running(x) <=> Running(w)
      BY <1>5
    <3> HIDE DEF w, x
    <3> QED
      BY <1>2, <2>1, <2>2, <2>4, <3>1, <3>2 DEF GoneSoFar, w, x
  <2> QED
    BY <2>3, <2>5
<1> QED
  BY <1>2, <1>4, <1>6, <1>7 DEF DataInv, DataKept

(* One more step of an erasure is done.                                    *)
LEMMA PassesOne ==
    ASSUME NEW w \in ErasureStates, NEW x \in ErasureStates, w.at \in ErasurePlaces,
           NEW z \in ErasurePlaces, NoSkip(w, x), Asked(w.ask, z), Passed(x, z)
    PROVE  Passed(w, z) \/ w.at = z
<1>1. x.at \in ErasurePlaces
  BY PathFacts DEF Passed, PlaceNo, ErasureStates, ErasurePlaces
<1>2. PlaceNo(w.at) \in Nat /\ PlaceNo(z) \in Nat /\ PlaceNo(x.at) \in Nat
  BY <1>1, PathFacts
<1>3. ~(PlaceNo(w.at) < PlaceNo(z))
  BY <1>1, <1>2 DEF NoSkip, Passed
<1>4. PlaceNo(w.at) = PlaceNo(z) => w.at = z
  BY PathFacts
<1> QED
  BY <1>2, <1>3, <1>4 DEF Passed

LEMMA ErasureStepGone ==
    ASSUME TenantAssumption, TenantTypeOK, DataInv, NEW e \in Erasures, NEW x \in ErasureStates,
           ErasureSteps(e), Shrinks, UNCHANGED ingest, GoesOn(e, x), StepKind(e, x),
           erasure[e].at = "items" \/ db'[Key("items")] = db[Key("items")], erasure'[e] = x
    PROVE  GoneSoFar(e)'
<1> DEFINE w == erasure[e]
<1>1. /\ w \in ErasureStates /\ w.at \in ErasurePlaces \ {"done"} /\ Asked(w.ask, w.at)
      /\ x.ask = w.ask /\ x.before = w.before /\ x.listed = w.listed /\ x.during = w.during
      /\ w.hurt => x.hurt
      /\ x.at \in ErasurePlaces \cup {"refused"}
      /\ x.at \in ErasurePlaces => Asked(x.ask, x.at) /\ PlaceNo(x.at) > PlaceNo(w.at)
  BY RunningErasure DEF GoesOn
<1>2. Running(w) /\ w.at # "new"
  BY <1>1, StatusFacts DEF ErasurePlaces
<1>3. Apart(e) /\ GoneSoFar(e)
  BY <1>2 DEF DataInv
<1>4. w.before \subseteq Writers /\ w.listed \subseteq Writers
  BY <1>1 DEF ErasureStates, Writers
<1>5. /\ \A k \in Keys : db'[k] \subseteq db[k]
      /\ \A v \in w.before \cup w.listed : db'[Text(v)] \subseteq db[Text(v)]
      /\ \A n \in {"prompts", "vectors", "corpus", "items"} : Key(n) \in Keys /\ db'[Key(n)] \subseteq db[Key(n)]
  BY <1>4, KeyFacts DEF Shrinks
<1>6. SUFFICES ASSUME ~x.hurt PROVE GoneSoFar(e)'
  BY DEF GoneSoFar
<1>7. ~w.hurt
  BY <1>1, <1>6
<1>8. w.at # "load" => NoSkip(w, x)
  BY <1>6 DEF StepKind
<1>9. w.at \in Erasing => \A k \in Keys : db'[k] = IF k \in Targets(e) THEN {} ELSE db[k]
  BY <1>6 DEF StepKind, Erasing
<1>10. w.at = "load" => /\ w.ask.dlp /\ UNCHANGED db /\ x.items = db[Key("items")]
                        /\ x.at = IF db[Key("items")] = {} THEN "items" ELSE "texts"
  BY <1>6 DEF StepKind, Erasing
<1>11. ASSUME NEW z \in ErasurePlaces, Asked(w.ask, z), Passed(x, z)
       PROVE  Passed(w, z) \/ w.at = z \/ (w.at = "load" /\ z = "texts" /\ x.at = "items")
  <2>1. CASE w.at = "load"
    <3>1. x.at \in {"items", "texts"}
      BY <1>10, <2>1
    <3> QED
      BY <1>11, <2>1, <3>1 DEF Passed, PlaceNo, ErasurePlaces
  <2>2. CASE w.at # "load"
    BY <1>1, <1>8, <1>11, <2>2, PassesOne
  <2> QED
    BY <2>1, <2>2
<1>12. ASSUME x.ask.session, Passed(x, "prompts") PROVE db'[Key("prompts")] \cap x.before = {}
  <2>1. Passed(w, "prompts") \/ w.at = "prompts"
    BY <1>1, <1>11, <1>12 DEF Asked, ErasurePlaces
  <2>2. CASE Passed(w, "prompts")
    BY <1>1, <1>3, <1>5, <1>7, <1>12, <2>2 DEF GoneSoFar
  <2>3. CASE w.at = "prompts"
    BY <1>5, <1>9, <2>3, TargetFacts DEF Erasing
  <2> QED
    BY <2>1, <2>2, <2>3
<1>13. ASSUME x.ask.session, Passed(x, "anchor") PROVE db'[Key("vectors")] \cap x.before = {}
  <2>1. Passed(w, "anchor") \/ w.at = "anchor"
    BY <1>1, <1>11, <1>13 DEF Asked, ErasurePlaces
  <2>2. CASE Passed(w, "anchor")
    BY <1>1, <1>3, <1>5, <1>7, <1>13, <2>2 DEF GoneSoFar
  <2>3. CASE w.at = "anchor" /\ VectorBackend
    BY <1>5, <1>9, <2>3, TargetFacts DEF Erasing
  <2>4. CASE ~VectorBackend
    BY <1>5, <2>4 DEF DataInv
  <2> QED
    BY <2>1, <2>2, <2>3, <2>4
<1>14. ASSUME x.ask.corpus, Passed(x, "corpus") PROVE db'[Key("corpus")] \cap x.before = {}
  <2>1. Passed(w, "corpus") \/ w.at = "corpus"
    BY <1>1, <1>11, <1>14 DEF Asked, ErasurePlaces
  <2>2. CASE Passed(w, "corpus")
    BY <1>1, <1>3, <1>5, <1>7, <1>14, <2>2 DEF GoneSoFar
  <2>3. CASE w.at = "corpus"
    BY <1>5, <1>9, <2>3, TargetFacts DEF Erasing
  <2> QED
    BY <2>1, <2>2, <2>3
<1>15. ASSUME x.ask.dlp, x.during = {}, Running(x), ~Passed(x, "items") PROVE db'[Key("items")] = x.listed
  <2>1. x.at \in ErasurePlaces
    BY <1>15, StatusFacts
  <2>2. PlaceNo(x.at) > PlaceNo(w.at) /\ PlaceNo(x.at) \in Nat /\ PlaceNo(w.at) \in Nat /\ PlaceNo("items") = 7
    BY <1>1, <2>1, PathFacts DEF PlaceNo
  <2>3. w.at # "items" /\ ~Passed(w, "items")
    BY <1>15, <2>2 DEF Passed
  <2>4. db[Key("items")] = w.listed
    BY <1>1, <1>2, <1>3, <1>7, <1>15, <2>3 DEF GoneSoFar
  <2> QED
    BY <1>1, <2>3, <2>4
<1>16. ASSUME x.ask.dlp, x.during = {}, x.at = "texts" PROVE x.items = x.listed
  <2>1. w.at = "load"
    <3>1. Asked(w.ask, "load") /\ "load" \in ErasurePlaces /\ Passed(x, "load") /\ PlaceNo(w.at) < 6
      BY <1>1, <1>16 DEF Asked, ErasurePlaces, Passed, PlaceNo
    <3>2. Passed(w, "load") \/ w.at = "load"
      BY <1>11, <3>1
    <3>3. PlaceNo(w.at) \in Nat /\ PlaceNo("load") = 5
      BY <1>1, PathFacts DEF PlaceNo
    <3> QED
      BY <3>1, <3>2, <3>3 DEF Passed
  <2>2. ~Passed(w, "items")
    BY <2>1 DEF Passed, PlaceNo
  <2>3. db[Key("items")] = w.listed
    BY <1>1, <1>2, <1>3, <1>7, <1>16, <2>2 DEF GoneSoFar
  <2> QED
    BY <1>1, <1>10, <2>1, <2>3
<1>17. ASSUME x.ask.dlp, x.during = {}, Passed(x, "texts") PROVE \A v \in x.listed : db'[Text(v)] = {}
  <2>1. Passed(w, "texts") \/ w.at = "texts" \/ (w.at = "load" /\ x.at = "items")
    BY <1>1, <1>11, <1>17 DEF Asked, ErasurePlaces
  <2>2. CASE Passed(w, "texts")
    BY <1>1, <1>3, <1>5, <1>7, <1>17, <2>2 DEF GoneSoFar
  <2>3. CASE w.at = "texts"
    <3>1. w.items = w.listed /\ Targets(e) = w.items
      BY <1>1, <1>3, <1>7, <1>17, <2>3, TargetFacts DEF GoneSoFar, Erasing
    <3>2. \A k \in Keys : k \in w.listed => db'[k] = {}
      BY <1>9, <2>3, <3>1 DEF Erasing
    <3> QED
      BY <1>1, <1>4, <3>2, KeyFacts
  <2>4. CASE w.at = "load" /\ x.at = "items"
    <3>1. db[Key("items")] = {}
      BY <1>10, <2>4
    <3>2. ~Passed(w, "items")
      BY <2>4 DEF Passed, PlaceNo
    <3>3. db[Key("items")] = w.listed
      BY <1>1, <1>2, <1>3, <1>7, <1>17, <3>2 DEF GoneSoFar
    <3> QED
      BY <1>1, <3>1, <3>3
  <2> QED
    BY <2>1, <2>2, <2>3, <2>4
<1>18. ASSUME x.ask.dlp, x.during = {}, Passed(x, "items")
       PROVE  /\ db'[Key("items")] \cap x.before = {}
              /\ \A i \in Ingests : Running(ingest'[i]) => ingest'[i].items \cap x.before = {}
  <2>1. Passed(w, "items") \/ w.at = "items"
    BY <1>1, <1>11, <1>18 DEF Asked, ErasurePlaces
  <2>2. CASE Passed(w, "items")
    BY <1>1, <1>3, <1>5, <1>7, <1>18, <2>2 DEF GoneSoFar
  <2>3. CASE w.at = "items"
    <3>1. db'[Key("items")] = {}
      BY <1>5, <1>9, <2>3, TargetFacts DEF Erasing
    <3>2. \A i \in Ingests : ~Running(ingest[i])
      BY <1>1, <1>2, <1>3, <1>18 DEF Apart
    <3> QED
      BY <3>1, <3>2
  <2> QED
    BY <2>1, <2>2, <2>3
<1>19. ASSUME Passed(x, "refs"), NEW v \in x.before, Text(v) \in x.ask.refs PROVE db'[Text(v)] = {}
  <2>1. x.ask.refs # {}
    BY <1>19
  <2>2. Passed(w, "refs") \/ w.at = "refs"
    BY <1>1, <1>11, <1>19, <2>1 DEF Asked, ErasurePlaces
  <2>3. CASE Passed(w, "refs")
    BY <1>1, <1>3, <1>5, <1>7, <1>19, <2>3 DEF GoneSoFar
  <2>4. CASE w.at = "refs"
    <3>1. Text(v) \in Keys
      BY <1>1, <1>4, <1>19, KeyFacts
    <3>2. Targets(e) = x.ask.refs
      BY <1>1, <2>4, TargetFacts DEF Erasing
    <3> QED
      BY <1>9, <1>19, <2>4, <3>1, <3>2 DEF Erasing
  <2> QED
    BY <2>2, <2>3, <2>4
<1> QED
  BY <1>12, <1>13, <1>14, <1>15, <1>16, <1>17, <1>18, <1>19 DEF GoneSoFar

LEMMA ErasureStepKeepsData ==
    ASSUME TenantAssumption, TenantTypeOK, DataInv, NEW e \in Erasures, ErasureSteps(e)
    PROVE  DataInv'
<1>1. /\ Shrinks /\ UNCHANGED <<stream, ingest>>
      /\ erasure[e].ask.dlp \/ db'[Key("items")] = db[Key("items")]
      /\ erasure[e].at = "items" \/ db'[Key("items")] = db[Key("items")]
  BY ErasureStepFacts
<1>2. PICK x \in ErasureStates : GoesOn(e, x) /\ StepKind(e, x)
  BY ErasureStepFacts
<1>3. erasure'[e] = x /\ \A f \in Erasures \ {e} : erasure'[f] = erasure[f]
  BY <1>2, OneErasureMoves DEF GoesOn
<1>4. /\ erasure[e].at \in ErasurePlaces \ {"done"} /\ erasure[e] \in ErasureStates
      /\ x.ask = erasure[e].ask /\ x.before = erasure[e].before /\ x.listed = erasure[e].listed
      /\ x.during = erasure[e].during
  BY <1>2, RunningErasure DEF GoesOn
<1>5. Running(erasure[e]) /\ erasure[e].at # "new"
  BY <1>4, StatusFacts DEF ErasurePlaces
<1>6. Stored' = Stored /\ Key("items") \in Keys /\ Key("vectors") \in Keys
  BY <1>1, KeyFacts DEF Stored
<1>7. DataKept
  BY <1>1, <1>6 DEF DataKept, DataInv, Shrinks
<1>8. Apart(e)' /\ GoneSoFar(e)'
  <2>1. Apart(e)
    BY <1>5 DEF DataInv
  <2>2. Apart(e)'
    BY <1>1, <1>3, <1>4, <1>5, <1>6, <2>1 DEF Apart
  <2>3. GoneSoFar(e)'
    BY <1>1, <1>2, <1>3, ErasureStepGone
  <2> QED
    BY <2>2, <2>3
<1>9. ASSUME NEW f \in Erasures \ {e}, erasure[f].at # "new" PROVE Apart(f)' /\ GoneSoFar(f)'
  <2> DEFINE y == erasure[f]
  <2>1. Apart(f) /\ GoneSoFar(f) /\ erasure'[f] = y
    BY <1>3, <1>9 DEF DataInv
  <2>2. Apart(f)'
    <3>1. \A g \in Erasures \ {f} : erasure'[g].ask = erasure[g].ask /\ (Running(erasure'[g]) => Running(erasure[g]))
      BY <1>3, <1>4, <1>5
    <3> QED
      BY <1>1, <1>6, <2>1, <3>1 DEF Apart
  <2>3. y.before \subseteq Writers /\ y.listed \subseteq Writers
    BY DEF TenantTypeOK, ErasuresOK, ErasureStates, Writers
  <2>4. \A w \in y.before \cup y.listed : db'[Text(w)] \subseteq db[Text(w)]
    BY <1>1, <2>3, KeyFacts DEF Shrinks
  <2>5. \A n \in {"prompts", "vectors", "corpus", "items"} : db'[Key(n)] \subseteq db[Key(n)]
    BY <1>1, KeyFacts DEF Shrinks
  <2>6. Running(y) /\ y.during = {} => db'[Key("items")] = db[Key("items")]
    <3>1. Running(y) /\ erasure[e].ask.dlp => AsCall(e) \in y.during
      BY <1>5, <2>1 DEF Apart
    <3> QED
      BY <1>1, <3>1
  <2>7. \A place : Passed(erasure'[f], place) <=> Passed(y, place)
    BY <2>1
  <2> HIDE DEF y
  <2>8. GoneSoFar(f)'
    BY <1>1, <2>1, <2>4, <2>5, <2>6, <2>7 DEF GoneSoFar, y
  <2> QED
    BY <2>2, <2>8
<1>10. \A f \in Erasures : erasure'[f].at # "new" => erasure[f].at # "new"
  BY <1>3, <1>5
<1> QED
  BY <1>7, <1>8, <1>9, <1>10 DEF DataInv, DataKept

-----------------------------------------------------------------------------
(* What is erased stays gone.                                              *)

(* Searches and the records of proofs touch nothing of the data.           *)
LEMMA SearchesLeaveData ==
    ASSUME TenantTypeOK, TenantSearches
    PROVE  UNCHANGED <<db, expires, stream, ingest, erasure, sweep>> /\ Shrinks
<1>1. UNCHANGED <<db, expires, stream, ingest, erasure, sweep>>
  BY Zenon DEF TenantSearches, LookupBegins, LookupReads, LookupWritesBack, CacheLapses, OtherEntry, dataVars
<1> QED
  BY <1>1 DEF Shrinks, TenantTypeOK, DbOK

LEMMA ShrinkingTyped ==
    ASSUME TenantTypeOK, Shrinks
    PROVE  DbOK'
<1>1. Key("items") \in Keys
  BY KeyFacts
<1> QED
  BY <1>1 DEF Shrinks, TenantTypeOK, DbOK

LEMMA SweepStands == TenantTypeOK /\ UNCHANGED sweep => SweepOK'
BY DEF TenantTypeOK, SweepOK, SweptKey

(* The types are kept by every step.                                       *)
LEMMA TypesKept ==
    ASSUME TenantAssumption, TenantTypeOK, DataInv, TenantNext
    PROVE  TenantTypeOK'
<1>1. ASSUME NEW s \in Streams, StreamBegins(s) \/ StreamWrites(s) \/ StreamFails(s)
      PROVE  TenantTypeOK'
  <2>1. /\ stream' \in [Streams -> [at : StreamPlaces, risky : BOOLEAN]] /\ UNCHANGED ingest
    BY <1>1, StreamMoves
  <2>2. /\ db' \in [Keys -> SUBSET Writers] /\ UNCHANGED erasure
        /\ db'[Key("items")] = db[Key("items")] /\ expires' \in SUBSET Keys
    BY <1>1, StreamWritesFacts
  <2>3. UNCHANGED sweep
    BY <1>1, Zenon DEF StreamBegins, StreamWrites, StreamFails
  <2>4. SweepOK'
    BY <2>3, SweepStands
  <2> QED
    BY <2>1, <2>2, <2>4 DEF TenantTypeOK, DbOK, WritersOK, ErasuresOK
<1>2. ASSUME NEW i \in Ingests, IngestBegins(i) PROVE TenantTypeOK'
  <2>1. ingest' \in [Ingests -> [at : IngestPlaces, items : SUBSET Ingests]] /\ UNCHANGED stream
    BY <1>2, IngestBeginsFacts
  <2>2. UNCHANGED <<db, expires, sweep>> /\ erasure' = Joined(i)
    BY <1>2 DEF IngestBegins, dataVars
  <2>3. ErasuresOK' /\ SweepOK'
    BY <2>2, JoinedTyped, SweepStands
  <2> QED
    BY <2>1, <2>2, <2>3 DEF TenantTypeOK, DbOK, WritersOK
<1>3. ASSUME NEW i \in Ingests, IngestWrites(i) \/ IngestFails(i) PROVE TenantTypeOK'
  <2>1. /\ ingest' \in [Ingests -> [at : IngestPlaces, items : SUBSET Ingests]] /\ UNCHANGED stream
        /\ ingest[i].items \subseteq Ingests
    BY <1>3, IngestMoves DEF TenantTypeOK, WritersOK
  <2>2. /\ db' \in [Keys -> SUBSET Writers] /\ UNCHANGED erasure
        /\ db'[Key("items")] = db[Key("items")] \/ db'[Key("items")] \subseteq ingest[i].items \cup {i}
        /\ expires' \in SUBSET Keys
    BY <1>3, IngestWritesFacts
  <2>3. UNCHANGED sweep
    BY <1>3, Zenon DEF IngestWrites, IngestFails
  <2>4. SweepOK' /\ DbOK'
    BY <2>1, <2>2, <2>3, SweepStands DEF TenantTypeOK, DbOK
  <2> QED
    BY <2>1, <2>2, <2>4 DEF TenantTypeOK, WritersOK, ErasuresOK
<1>4. ASSUME NEW k \in Keys, Lapse(k) PROVE TenantTypeOK'
  <2>1. Shrinks /\ UNCHANGED <<stream, ingest, erasure, sweep>>
    BY <1>4, LapseShrinks
  <2>2. DbOK' /\ SweepOK'
    BY <2>1, ShrinkingTyped, SweepStands
  <2> QED
    BY <2>1, <2>2 DEF TenantTypeOK, WritersOK, ErasuresOK
<1>5. CASE SweepSteps
  <2>1. Shrinks /\ UNCHANGED <<db, stream, ingest, erasure>> /\ SweepOK'
    BY <1>5, SweepShrinks
  <2>2. DbOK'
    BY <2>1, ShrinkingTyped
  <2> QED
    BY <2>1, <2>2 DEF TenantTypeOK, WritersOK, ErasuresOK
<1>6. ASSUME NEW e \in Erasures, NEW ask \in ErasureKinds, NEW r \in RequestIds, ErasureBegins(e, ask, r)
      PROVE  TenantTypeOK'
  <2>1. ErasuresOK'
    BY <1>6, BeginsTyped
  <2>2. UNCHANGED <<db, expires, stream, ingest, sweep>>
    BY <1>6 DEF ErasureBegins, dataVars
  <2>3. SweepOK'
    BY <2>2, SweepStands
  <2> QED
    BY <2>1, <2>2, <2>3 DEF TenantTypeOK, DbOK, WritersOK
<1>7. ASSUME NEW e \in Erasures, ErasureSteps(e) PROVE TenantTypeOK'
  <2>1. Shrinks /\ UNCHANGED <<stream, ingest, sweep>> /\ \E x \in ErasureStates : GoesOn(e, x)
    BY <1>7, ErasureStepFacts
  <2>2. ErasuresOK' /\ DbOK' /\ SweepOK'
    BY <2>1, GoesOnTyped, ShrinkingTyped, SweepStands
  <2> QED
    BY <2>1, <2>2 DEF TenantTypeOK, WritersOK
<1>8. CASE TenantSearches
  <2>1. UNCHANGED <<db, expires, stream, ingest, erasure, sweep>>
    BY <1>8, SearchesLeaveData
  <2>2. SweepOK'
    BY <2>1, SweepStands
  <2> QED
    BY <2>1, <2>2 DEF TenantTypeOK, DbOK, WritersOK, ErasuresOK
<1> QED
  BY <1>1, <1>2, <1>3, <1>4, <1>5, <1>6, <1>7, <1>8
     DEF TenantNext, TenantWrites, TenantErases, ErasureSteps

(* So is what is known of the data.                                        *)
LEMMA DataKeptByAll ==
    ASSUME TenantAssumption, TenantTypeOK, DataInv, TenantNext
    PROVE  DataInv'
<1>1. ASSUME NEW k \in Keys, Lapse(k) PROVE DataInv'
  BY <1>1, LapseShrinks, QuietKeepsData
<1>2. CASE SweepSteps
  BY <1>2, SweepShrinks, QuietKeepsData
<1>3. CASE TenantSearches
  BY <1>3, SearchesLeaveData, QuietKeepsData
<1> QED
  BY <1>1, <1>2, <1>3, StreamKeepsData, IngestBeginsKeepsData, IngestWritesKeepsData, BeginsKeepsData,
     ErasureStepKeepsData DEF TenantNext, TenantWrites, TenantErases, ErasureSteps

LEMMA DataAtFirst ==
    ASSUME TenantAssumption, TenantInit
    PROVE  TenantTypeOK /\ DataInv
<1>1. DbOK
  <2>1. Key("items") \in Keys
    BY KeyFacts
  <2> QED
    BY <2>1 DEF TenantInit, DbOK
<1>2. WritersOK
  BY DEF TenantInit, WritersOK, StreamPlaces, IngestPlaces
<1>3. ErasuresOK
  <2>1. NewErasure \in ErasureStates /\ NewErasure.at = "new" /\ NewErasure.at \notin ErasurePlaces
    BY DEF NewErasure, ErasureStates, ErasurePlaces
  <2>2. erasure \in [Erasures -> ErasureStates] /\ \A e \in Erasures : erasure[e] = NewErasure
    BY <2>1 DEF TenantInit
  <2> QED
    BY <2>1, <2>2 DEF ErasuresOK
<1>4. SweepOK
  BY DEF TenantInit, SweepOK
<1>5. DataInv
  <2>1. \A k \in Keys : db[k] = {}
    BY DEF TenantInit
  <2>2. Key("items") \in Keys /\ Key("vectors") \in Keys
    BY KeyFacts
  <2>3. \A e \in Erasures : erasure[e].at = "new"
    BY DEF TenantInit, NewErasure
  <2>4. expires = {} /\ \A i \in Ingests : ingest[i].items = {}
    BY DEF TenantInit
  <2> QED
    BY <2>1, <2>2, <2>3, <2>4 DEF DataInv
<1> QED
  BY <1>1, <1>2, <1>3, <1>4, <1>5 DEF TenantTypeOK

LEMMA DataStutters == TenantTypeOK /\ DataInv /\ UNCHANGED tenantVars => TenantTypeOK' /\ DataInv'
<1> SUFFICES ASSUME TenantTypeOK, DataInv, UNCHANGED tenantVars PROVE TenantTypeOK' /\ DataInv'
  OBVIOUS
<1>1. UNCHANGED <<db, expires, stream, ingest, erasure, sweep>>
  BY DEF tenantVars
<1>2. SweepOK'
  BY <1>1, SweepStands
<1>3. TenantTypeOK'
  BY <1>1, <1>2 DEF TenantTypeOK, DbOK, WritersOK, ErasuresOK
<1>4. Shrinks
  BY <1>1 DEF Shrinks, TenantTypeOK, DbOK
<1> QED
  BY <1>1, <1>3, <1>4, QuietKeepsData

LEMMA GoneMeansErased == TenantTypeOK /\ DataInv => ErasedIsGone
<1> SUFFICES ASSUME TenantTypeOK, DataInv, NEW e \in Erasures, erasure[e].at = "done", ~erasure[e].hurt
             PROVE  LET x == erasure[e] IN
                    /\ x.ask.session => db[Key("prompts")] \cap x.before = {} /\ db[Key("vectors")] \cap x.before = {}
                    /\ x.ask.corpus  => db[Key("corpus")] \cap x.before = {}
                    /\ x.ask.dlp /\ x.during = {} =>
                          /\ db[Key("items")] \cap x.before = {}
                          /\ \A w \in x.listed : db[Text(w)] = {}
                    /\ \A w \in x.before : Text(w) \in x.ask.refs => db[Text(w)] = {}
  BY DEF ErasedIsGone
<1>1. \A place \in {"prompts", "anchor", "corpus", "texts", "items", "refs"} : Passed(erasure[e], place)
  BY DEF Passed, PlaceNo
<1>2. GoneSoFar(e)
  BY DEF DataInv
<1> QED
  BY <1>1, <1>2 DEF GoneSoFar

(* Whatever ran beside it, an erasure that met no fault has left nothing   *)
(* of what it was asked to erase, and no later call brings it back.  The   *)
(* deletions are best effort and come one by one, while streams write,     *)
(* ingests append what they read, and the retention loop gives ends        *)
(* (chimera/rtbf_routes.py).                                               *)
THEOREM ErasureComplete == TenantSpec => []ErasedIsGone
<1>1. TenantInit => TenantTypeOK /\ DataInv
  BY DataAtFirst, TenantAssumption
<1>2. TenantTypeOK /\ DataInv /\ [TenantNext]_tenantVars => TenantTypeOK' /\ DataInv'
  BY TypesKept, DataKeptByAll, DataStutters, TenantAssumption
<1>3. TenantTypeOK /\ DataInv => ErasedIsGone
  BY GoneMeansErased
<1> QED
  BY <1>1, <1>2, <1>3, PTL DEF TenantSpec

-----------------------------------------------------------------------------
(* The proofs through each step.                                           *)

LEMMA ErasureNumbers == TenantAssumption => Erasures \subseteq Nat \ {0}
BY DEF TenantAssumption, Erasures

(* One more entry.                                                         *)
LEMMA EntryFacts ==
    ASSUME ProofTypeOK, NEW v \in Erasures \cup {0}, entries' = Append(entries, v)
    PROVE  /\ entries' \in Seq(Erasures \cup {0}) /\ Len(entries) \in Nat
           /\ DOMAIN entries = 1 .. Len(entries) /\ DOMAIN entries' = 1 .. Len(entries) + 1
           /\ \A n \in DOMAIN entries : entries'[n] = entries[n]
           /\ entries'[Len(entries) + 1] = v
<1>1. entries \in Seq(Erasures \cup {0})
  BY DEF ProofTypeOK
<1>2. Len(entries) \in Nat /\ DOMAIN entries = 1 .. Len(entries)
  BY <1>1, LenProperties
<1>3. /\ entries' \in Seq(Erasures \cup {0}) /\ Len(entries') = Len(entries) + 1
      /\ \A n \in 1 .. Len(entries) : entries'[n] = entries[n]
      /\ entries'[Len(entries) + 1] = v
  BY <1>1, AppendProperties
<1>4. DOMAIN entries' = 1 .. Len(entries')
  BY <1>3, LenProperties
<1> QED
  BY <1>2, <1>3, <1>4

(* What a step that is not of the erasures of a request id may do.         *)
EntriesOfOthers(r) == \/ entries' = entries
                      \/ \E v \in Erasures \cup {0} : v \notin Mine(r) /\ entries' = Append(entries, v)

SearchesOfOthers(r) ==
    \A l \in Lookups : lookup'[l].id = r =>
       \/ lookup'[l] = lookup[l]
       \/ /\ lookup'[l].at # "index again"
          /\ lookup'[l].at = "search" /\ ~lookup'[l].zero => mapping[r] = 0
          /\ Running(lookup'[l]) => \A e \in Mine(r) : ~Running(erasure[e])

LEMMA InOrderStands ==
    ASSUME TenantAssumption, ProofTypeOK, NEW r \in RequestIds, InOrder(r), Mine(r)' = Mine(r),
           \A f \in Mine(r) : SameCall(erasure[f], erasure'[f]),
           mapping'[r] = mapping[r], proofCache'[r] \in {0, proofCache[r]},
           EntriesOfOthers(r), SearchesOfOthers(r)
    PROVE  InOrder(r)'
<1>1. \A f \in Mine(r) : erasure'[f].at = erasure[f].at /\ erasure'[f].hurt = erasure[f].hurt
  BY DEF SameCall
<1>2. \A f \in Mine(r) : Running(erasure'[f]) <=> Running(erasure[f])
  BY <1>1 DEF Running, Over
<1>3. /\ Len(entries) \in Nat /\ DOMAIN entries = 1 .. Len(entries)
      /\ \A n \in DOMAIN entries : n \in DOMAIN entries' /\ entries'[n] = entries[n]
      /\ \A n \in DOMAIN entries' : n \in DOMAIN entries \/ entries'[n] \notin Mine(r)
  <2>1. Len(entries) \in Nat /\ DOMAIN entries = 1 .. Len(entries)
    BY LenProperties DEF ProofTypeOK
  <2>2. CASE entries' = entries
    BY <2>1, <2>2
  <2>3. CASE entries' # entries
    <3>1. PICK v \in Erasures \cup {0} : v \notin Mine(r) /\ entries' = Append(entries, v)
      BY <2>3 DEF EntriesOfOthers
    <3>2. /\ DOMAIN entries' = 1 .. Len(entries) + 1 /\ entries'[Len(entries) + 1] = v
          /\ \A n \in DOMAIN entries : entries'[n] = entries[n]
      BY <3>1, EntryFacts
    <3> QED
      BY <2>1, <3>1, <3>2
  <2> QED
    BY <2>2, <2>3
<1>4. NoneHurt(r)'
  BY <1>1 DEF NoneHurt, InOrder
<1>5. OneAtATime(r)'
  <2> SUFFICES ASSUME NEW e \in Mine(r), Running(erasure[e])
               PROVE  /\ \A f \in Mine(r) \ {e} : ~Running(erasure'[f]) /\ f < e
                      /\ \A l \in Lookups : Running(lookup'[l]) => lookup'[l].id # r
    BY <1>2 DEF OneAtATime
  <2>1. /\ \A f \in Mine(r) \ {e} : ~Running(erasure[f]) /\ f < e
        /\ \A l \in Lookups : Running(lookup[l]) => lookup[l].id # r
    BY DEF InOrder, OneAtATime
  <2> QED
    BY <1>2, <2>1 DEF SearchesOfOthers
<1>6. CacheIsLast(r)'
  BY <1>1 DEF CacheIsLast, InOrder
<1>7. EntriesFollow(r)'
  <2>1. \A e \in Mine(r) : PlaceNo(erasure'[e].at) > 11 => \E n \in DOMAIN entries' : entries'[n] = e
    BY <1>1, <1>3 DEF EntriesFollow, InOrder
  <2>2. \A n, m \in DOMAIN entries' :
          n < m /\ entries'[n] \in Mine(r) /\ entries'[m] \in Mine(r) => entries'[n] < entries'[m]
    BY <1>3 DEF EntriesFollow, InOrder
  <2> QED
    BY <2>1, <2>2 DEF EntriesFollow
<1>8. IndexIsLast(r)'
  BY <1>1, <1>3 DEF IndexIsLast, InOrder
<1>9. SearchesStop(r)'
  BY DEF SearchesStop, SearchesOfOthers, InOrder
<1> QED
  BY <1>4, <1>5, <1>6, <1>7, <1>8, <1>9 DEF InOrder

-----------------------------------------------------------------------------
(* What a step of an erasure records.                                      *)
ProofStep(e, x) ==
    LET w == erasure[e] IN
    \/ x.hurt /\ x.at \in ErasurePlaces \ {"mapping"} /\ disturbed' = disturbed \cup {w.id} /\ UNCHANGED proofVars
    \/ /\ x.hurt = w.hurt /\ UNCHANGED disturbed
       /\ \/ /\ PlaceNo(w.at) <= 9 /\ PlaceNo(x.at) <= 10 /\ UNCHANGED <<proofCache, mapping>>
             /\ entries' \in {entries, Append(entries, 0)}
          \/ /\ w.at = "cache" /\ x.at = "entry" /\ UNCHANGED <<entries, mapping>>
             /\ proofCache' = [proofCache EXCEPT ![w.id] = e]
          \/ /\ w.at = "entry" /\ x.at = "mapping" /\ UNCHANGED <<proofCache, mapping>>
             /\ entries' = Append(entries, e)
          \/ /\ w.at = "mapping" /\ x.at = "done" /\ UNCHANGED <<proofCache, entries>>
             /\ mapping' = [mapping EXCEPT ![w.id] = CHOOSE n \in DOMAIN entries : entries[n] = e]

(* After the objects nothing is left out.                                  *)
LEMMA LastPlaces ==
    ASSUME NEW w \in ErasureStates, NEW x \in ErasureStates, w.at \in ErasurePlaces \ {"done"},
           x.at \in ErasurePlaces, PlaceNo(x.at) > PlaceNo(w.at), NoSkip(w, x)
    PROVE  /\ PlaceNo(w.at) <= 9 => PlaceNo(x.at) <= 10
           /\ w.at = "cache" => x.at = "entry"
           /\ w.at = "entry" => x.at = "mapping"
           /\ w.at = "mapping" => x.at = "done"
<1>1. PlaceNo(w.at) \in Nat /\ PlaceNo(x.at) \in Nat
  BY PathFacts
<1>2. \A z \in {"cache", "entry", "mapping", "done"} : Asked(w.ask, z) /\ z \in ErasurePlaces
  BY DEF Asked, ErasurePlaces
<1>3. PlaceNo("cache") = 10 /\ PlaceNo("entry") = 11 /\ PlaceNo("mapping") = 12 /\ PlaceNo("done") = 13
  BY DEF PlaceNo
<1>4. \A z \in {"cache", "entry", "mapping", "done"} : PlaceNo(w.at) < PlaceNo(z) => PlaceNo(x.at) <= PlaceNo(z)
  BY <1>2 DEF NoSkip
<1>5. \A z \in {"cache", "entry", "mapping", "done"} : PlaceNo(x.at) = PlaceNo(z) => x.at = z
  BY <1>2, PathFacts
<1> QED
  BY <1>1, <1>3, <1>4, <1>5

LEMMA ProofStepFacts ==
    ASSUME TenantAssumption, TenantTypeOK, NEW e \in Erasures, ErasureSteps(e)
    PROVE  UNCHANGED lookup /\ \E x \in ErasureStates : GoesOn(e, x) /\ ProofStep(e, x)
<1>0. UNCHANGED lookup
  BY Zenon DEF ErasureSteps, Erases, LoadsItems, ReachesObjects, RecordsProof, ErasureFails
<1> DEFINE w == erasure[e]
<1>1. ASSUME NEW x \in ErasureStates, GoesOn(e, x), NoSkip(w, x), x.at \in ErasurePlaces
      PROVE  /\ PlaceNo(w.at) <= 9 => PlaceNo(x.at) <= 10
             /\ w.at = "cache" => x.at = "entry"
             /\ w.at = "entry" => x.at = "mapping"
             /\ w.at = "mapping" => x.at = "done"
  <2>1. w \in ErasureStates /\ w.at \in ErasurePlaces \ {"done"} /\ PlaceNo(x.at) > PlaceNo(w.at)
    BY <1>1, RunningErasure DEF GoesOn
  <2> QED
    BY <1>1, <2>1, LastPlaces
<1>2. CASE Erases(e)
  <2>1. w.at \in Erasing /\ UNCHANGED <<proofVars, disturbed>>
    BY <1>2, Zenon DEF Erases, Erasing
  <2>2. PICK x \in ErasureStates : GoesOn(e, x) /\ NoSkip(w, x) /\ x.hurt = w.hurt /\ x.at \in ErasurePlaces
    BY <1>2, ErasesGoesOn
  <2>3. PlaceNo(w.at) <= 9
    BY <2>1 DEF Erasing, PlaceNo
  <2>4. ProofStep(e, x)
    BY <1>1, <2>1, <2>2, <2>3 DEF ProofStep, proofVars
  <2> QED
    BY <1>0, <2>2, <2>4
<1>3. CASE LoadsItems(e)
  <2>1. w.at = "load" /\ UNCHANGED <<proofVars, disturbed>>
    BY <1>3, Zenon DEF LoadsItems
  <2>2. PICK x \in ErasureStates : GoesOn(e, x) /\ x.hurt = w.hurt /\ x.at \in {"items", "texts"}
    <3>1. \E x \in ErasureStates : GoesOn(e, x) /\ x.hurt = w.hurt
                                   /\ x.at = IF db[Key("items")] = {} THEN "items" ELSE "texts"
      BY <1>3, LoadGoesOn
    <3> QED
      BY <3>1
  <2>3. PlaceNo(w.at) <= 9 /\ PlaceNo(x.at) <= 10
    BY <2>1, <2>2 DEF PlaceNo
  <2>4. ProofStep(e, x)
    BY <2>1, <2>2, <2>3 DEF ProofStep, proofVars
  <2> QED
    BY <1>0, <2>2, <2>4
<1>4. CASE ReachesObjects(e)
  <2>1. UNCHANGED <<proofVars, disturbed>>
    BY <1>4, Zenon DEF ReachesObjects
  <2>2. PICK x \in ErasureStates : GoesOn(e, x) /\ NoSkip(w, x) /\ x.hurt = w.hurt /\ w.at = "objects"
    BY <1>4, ObjectsGoesOn
  <2>3. PlaceNo(w.at) <= 9
    BY <2>2 DEF PlaceNo
  <2>4. PlaceNo(x.at) <= 10
    <3>1. CASE x.at \in ErasurePlaces
      BY <1>1, <2>2, <2>3, <3>1
    <3>2. CASE x.at = "refused"
      BY <3>2 DEF PlaceNo
    <3> QED
      BY <2>2, <3>1, <3>2 DEF GoesOn
  <2>5. ProofStep(e, x)
    BY <2>1, <2>2, <2>3, <2>4 DEF ProofStep, proofVars
  <2> QED
    BY <1>0, <2>2, <2>5
<1>5. CASE RecordsProof(e)
  <2>1. PICK x \in ErasureStates : GoesOn(e, x) /\ NoSkip(w, x) /\ x.hurt = w.hurt /\ x.at \in ErasurePlaces
    BY <1>5, ErasesGoesOn
  <2>2. UNCHANGED disturbed
    BY <1>5, Zenon DEF RecordsProof
  <2>3. \/ w.at = "marker" /\ entries' = Append(entries, 0) /\ UNCHANGED <<proofCache, mapping>>
        \/ w.at = "cache" /\ proofCache' = [proofCache EXCEPT ![w.id] = e] /\ UNCHANGED <<entries, mapping>>
        \/ w.at = "entry" /\ entries' = Append(entries, e) /\ UNCHANGED <<proofCache, mapping>>
        \/ /\ w.at = "mapping" /\ UNCHANGED <<entries, proofCache>>
           /\ mapping' = [mapping EXCEPT ![w.id] = CHOOSE n \in DOMAIN entries : entries[n] = e]
    BY <1>5, Zenon DEF RecordsProof
  <2>4. PlaceNo("marker") <= 9
    BY DEF PlaceNo
  <2>5. ProofStep(e, x)
    BY <1>1, <2>1, <2>2, <2>3, <2>4 DEF ProofStep
  <2> QED
    BY <1>0, <2>1, <2>5
<1>6. CASE ErasureFails(e)
  <2>1. disturbed' = disturbed \cup {w.id} /\ UNCHANGED proofVars
    BY <1>6, Zenon DEF ErasureFails
  <2>2. PICK x \in ErasureStates : GoesOn(e, x) /\ x.hurt /\ x.at \in ErasurePlaces \ {"mapping"}
    BY <1>6, FailureGoesOn
  <2>3. ProofStep(e, x)
    BY <2>1, <2>2 DEF ProofStep
  <2> QED
    BY <1>0, <2>2, <2>3
<1> QED
  BY <1>2, <1>3, <1>4, <1>5, <1>6 DEF ErasureSteps

(* The one erasure of a request id goes on: all others of it are before    *)
(* it, and nobody searches.                                                *)
Alone(e, r) ==
    /\ e \in Mine(r) /\ ~erasure[e].hurt /\ Running(erasure[e])
    /\ \A f \in Mine(r) \ {e} : ~Running(erasure[f]) /\ f < e
    /\ \A l \in Lookups : Running(lookup[l]) => lookup[l].id # r

LEMMA OwnStepInOrder ==
    ASSUME TenantAssumption, TenantTypeOK, ProofInv, NEW e \in Erasures, NEW x \in ErasureStates,
           NEW r \in RequestIds, r = erasure[e].id, InOrder(r), GoesOn(e, x), ProofStep(e, x),
           ~x.hurt, UNCHANGED lookup
    PROVE  InOrder(r)'
<1> DEFINE w == erasure[e]
<1>1. /\ w.at \in ErasurePlaces \ {"done"} /\ w \in ErasureStates /\ x.id = w.id /\ ~w.hurt
      /\ x.at \in ErasurePlaces \cup {"refused"}
      /\ x.at \in ErasurePlaces => PlaceNo(x.at) > PlaceNo(w.at)
  BY RunningErasure DEF GoesOn
<1>2. erasure'[e] = x /\ \A f \in Erasures \ {e} : erasure'[f] = erasure[f]
  BY OneErasureMoves DEF GoesOn
<1>3. Running(w) /\ w.at # "new" /\ x.at # "new"
  BY <1>1, StatusFacts DEF ErasurePlaces
<1>4. Alone(e, r)
  BY <1>1, <1>3 DEF Alone, Mine, InOrder, OneAtATime
<1>5. Mine(r)' = Mine(r) /\ Mine(r) \subseteq Erasures /\ e \in Mine(r)
  BY <1>1, <1>2, <1>3 DEF Mine
<1>6. Mine(r) \subseteq Nat \ {0}
  BY <1>5, ErasureNumbers
<1>7. Len(entries) \in Nat /\ DOMAIN entries = 1 .. Len(entries)
  BY LenProperties DEF ProofInv, ProofTypeOK
<1>8. PlaceNo(w.at) \in Nat /\ PlaceNo(x.at) \in Nat
  <2>1. x.at = "refused" => PlaceNo(x.at) = 0
    BY DEF PlaceNo
  <2> QED
    BY <1>1, <2>1, PathFacts
<1>9. \A n \in DOMAIN entries : entries[n] = e => PlaceNo(w.at) > 11
  BY <1>5, <1>6 DEF ProofInv
<1>10. NoneHurt(r)'
  BY <1>2, <1>5 DEF NoneHurt, InOrder
<1>11. OneAtATime(r)'
  BY <1>2, <1>4, <1>5 DEF OneAtATime, Alone
<1>12. ASSUME mapping'[r] = mapping[r] PROVE SearchesStop(r)'
  BY <1>12 DEF SearchesStop, InOrder
<1>13. CASE /\ PlaceNo(w.at) <= 9 /\ PlaceNo(x.at) <= 10 /\ UNCHANGED <<proofCache, mapping>>
            /\ entries' \in {entries, Append(entries, 0)}
  <2>1. PlaceNo("done") = 13
    BY DEF PlaceNo
  <2>2. x.at # "done" /\ w.at # "done"
    BY <1>13, <2>1
  <2>3. /\ \A n \in DOMAIN entries : n \in DOMAIN entries' /\ entries'[n] = entries[n]
        /\ \A n \in DOMAIN entries' : n \in DOMAIN entries \/ entries'[n] \notin Mine(r)
    BY <1>6, <1>7, <1>13, EntryFacts DEF ProofInv
  <2>4. CacheIsLast(r)'
    BY <1>2, <1>5, <1>8, <1>13 DEF CacheIsLast, InOrder
  <2>5. EntriesFollow(r)'
    <3>1. \A f \in Mine(r) : PlaceNo(erasure'[f].at) > 11 => \E n \in DOMAIN entries' : entries'[n] = f
      BY <1>2, <1>5, <1>8, <1>13, <2>3 DEF EntriesFollow, InOrder
    <3>2. \A n, m \in DOMAIN entries' :
             n < m /\ entries'[n] \in Mine(r) /\ entries'[m] \in Mine(r) => entries'[n] < entries'[m]
      BY <2>3 DEF EntriesFollow, InOrder
    <3> QED
      BY <1>5, <3>1, <3>2 DEF EntriesFollow
  <2>6. IndexIsLast(r)'
    <3>1. /\ mapping[r] # 0 =>
             /\ mapping[r] \in DOMAIN entries /\ entries[mapping[r]] \in Mine(r)
             /\ erasure[entries[mapping[r]]].at = "done"
             /\ \A f \in Mine(r) : erasure[f].at = "done" => f <= entries[mapping[r]]
          /\ \A f \in Mine(r) : erasure[f].at = "done" => mapping[r] # 0
      BY DEF IndexIsLast, InOrder
    <3>2. \A f \in Mine(r) : erasure'[f].at = "done" <=> erasure[f].at = "done"
      BY <1>2, <1>5, <2>2
    <3> QED
      BY <1>5, <1>13, <2>3, <3>1, <3>2 DEF IndexIsLast
  <2> QED
    BY <1>10, <1>11, <1>12, <1>13, <2>4, <2>5, <2>6 DEF InOrder
<1>14. CASE /\ w.at = "cache" /\ x.at = "entry" /\ UNCHANGED <<entries, mapping>>
            /\ proofCache' = [proofCache EXCEPT ![w.id] = e]
  <2>1. PlaceNo(w.at) = 10 /\ PlaceNo(x.at) = 11
    BY <1>14 DEF PlaceNo
  <2>2. proofCache'[r] = e
    BY <1>14 DEF ProofInv, ProofTypeOK
  <2>3. CacheIsLast(r)'
    BY <1>2, <1>4, <1>5, <1>6, <2>1, <2>2 DEF CacheIsLast, Alone
  <2>4. EntriesFollow(r)'
    BY <1>2, <1>5, <1>14, <2>1 DEF EntriesFollow, InOrder
  <2>5. IndexIsLast(r)'
    <3>1. \A f \in Mine(r) : erasure'[f].at = "done" <=> erasure[f].at = "done"
      BY <1>2, <1>5, <1>14
    <3> QED
      BY <1>5, <1>14, <3>1 DEF IndexIsLast, InOrder
  <2> QED
    BY <1>10, <1>11, <1>12, <1>14, <2>3, <2>4, <2>5 DEF InOrder
<1>15. CASE /\ w.at = "entry" /\ x.at = "mapping" /\ UNCHANGED <<proofCache, mapping>>
            /\ entries' = Append(entries, e)
  <2>1. PlaceNo(w.at) = 11 /\ PlaceNo(x.at) = 12
    BY <1>15 DEF PlaceNo
  <2>2. /\ DOMAIN entries' = 1 .. Len(entries) + 1 /\ entries'[Len(entries) + 1] = e
        /\ \A n \in DOMAIN entries : entries'[n] = entries[n]
    BY <1>15, EntryFacts DEF ProofInv
  <2>3. \A n \in DOMAIN entries : entries[n] # e
    BY <1>9, <2>1
  <2>4. CacheIsLast(r)'
    BY <1>2, <1>5, <1>15, <2>1 DEF CacheIsLast, InOrder
  <2>5. EntriesFollow(r)'
    <3>1. \A f \in Mine(r) : PlaceNo(erasure'[f].at) > 11 => \E n \in DOMAIN entries' : entries'[n] = f
      <4> SUFFICES ASSUME NEW f \in Mine(r), PlaceNo(erasure'[f].at) > 11
                   PROVE  \E n \in DOMAIN entries' : entries'[n] = f
        OBVIOUS
      <4>1. CASE f = e
        BY <1>7, <2>2, <4>1
      <4>2. CASE f # e
        <5>1. PICK n \in DOMAIN entries : entries[n] = f
          BY <1>2, <1>5, <4>2 DEF EntriesFollow, InOrder
        <5> QED
          BY <1>7, <2>2, <5>1
      <4> QED
        BY <4>1, <4>2
    <3>2. ASSUME NEW n \in DOMAIN entries', NEW m \in DOMAIN entries', n < m,
                 entries'[n] \in Mine(r), entries'[m] \in Mine(r)
          PROVE  entries'[n] < entries'[m]
      <4>1. n \in DOMAIN entries
        BY <1>7, <2>2, <3>2
      <4>2. CASE m \in DOMAIN entries
        BY <2>2, <3>2, <4>1, <4>2 DEF EntriesFollow, InOrder
      <4>3. CASE m = Len(entries) + 1
        BY <1>4, <2>2, <2>3, <3>2, <4>1, <4>3 DEF Alone
      <4> QED
        BY <1>7, <2>2, <4>2, <4>3
    <3> QED
      BY <1>5, <3>1, <3>2 DEF EntriesFollow
  <2>6. IndexIsLast(r)'
    <3>1. \A f \in Mine(r) : erasure'[f].at = "done" <=> erasure[f].at = "done"
      BY <1>2, <1>5, <1>15
    <3>2. \A n \in DOMAIN entries : n \in DOMAIN entries'
      BY <1>7, <2>2
    <3>3. /\ mapping[r] # 0 =>
             /\ mapping[r] \in DOMAIN entries /\ entries[mapping[r]] \in Mine(r)
             /\ erasure[entries[mapping[r]]].at = "done"
             /\ \A f \in Mine(r) : erasure[f].at = "done" => f <= entries[mapping[r]]
          /\ \A f \in Mine(r) : erasure[f].at = "done" => mapping[r] # 0
      BY DEF IndexIsLast, InOrder
    <3> QED
      BY <1>5, <1>15, <2>2, <3>1, <3>2, <3>3 DEF IndexIsLast
  <2> QED
    BY <1>10, <1>11, <1>12, <1>15, <2>4, <2>5, <2>6 DEF InOrder
<1>16. CASE /\ w.at = "mapping" /\ x.at = "done" /\ UNCHANGED <<proofCache, entries>>
            /\ mapping' = [mapping EXCEPT ![w.id] = CHOOSE n \in DOMAIN entries : entries[n] = e]
  <2>1. PlaceNo(w.at) = 12 /\ PlaceNo(x.at) = 13
    BY <1>16 DEF PlaceNo
  <2> DEFINE n == CHOOSE k \in DOMAIN entries : entries[k] = e
  <2>2. n \in DOMAIN entries /\ entries[n] = e
    <3>1. \E k \in DOMAIN entries : entries[k] = e
      BY <1>5, <2>1 DEF EntriesFollow, InOrder
    <3> QED
      BY <3>1
  <2>3. mapping'[r] = n
    BY <1>16 DEF ProofInv, ProofTypeOK
  <2> HIDE DEF n
  <2>4. CacheIsLast(r)'
    BY <1>2, <1>5, <1>16, <2>1 DEF CacheIsLast, InOrder
  <2>5. EntriesFollow(r)'
    BY <1>2, <1>5, <1>16, <2>1 DEF EntriesFollow, InOrder
  <2>6. IndexIsLast(r)'
    <3>1. n # 0
      BY <1>7, <2>2
    <3>2. \A f \in Mine(r) : f <= e
      BY <1>4, <1>6 DEF Alone
    <3> QED
      BY <1>2, <1>5, <1>16, <2>2, <2>3, <3>1, <3>2 DEF IndexIsLast
  <2>7. SearchesStop(r)'
    <3>1. ASSUME NEW l \in Lookups, lookup[l].id = r PROVE lookup[l].at \notin {"search", "index again"}
      BY <1>4, <3>1, StatusFacts DEF Alone, ProofInv, ProofTypeOK
    <3> QED
      BY <3>1 DEF SearchesStop
  <2> QED
    BY <1>10, <1>11, <2>4, <2>5, <2>6, <2>7 DEF InOrder
<1> QED
  BY <1>13, <1>14, <1>15, <1>16 DEF ProofStep

-----------------------------------------------------------------------------
(* Which erasures are of a request id.                                     *)
LEMMA SameMine ==
    ASSUME NEW r \in RequestIds, \A f \in Erasures : SameCall(erasure[f], erasure'[f])
    PROVE  Mine(r)' = Mine(r)
BY DEF Mine, SameCall

(* Steps that are not about proofs.                                        *)
LEMMA QuietKeepsProofs ==
    ASSUME TenantAssumption, ProofInv, UNCHANGED <<lookup, proofCache, mapping, entries, disturbed>>,
           \A f \in Erasures : SameCall(erasure[f], erasure'[f])
    PROVE  ProofInv'
<1>1. ProofTypeOK'
  BY DEF ProofInv, ProofTypeOK
<1>2. \A f \in Erasures : erasure'[f].at = erasure[f].at
  BY DEF SameCall
<1>3. \A n \in DOMAIN entries : entries[n] \in Erasures \cup {0}
  BY ElementOfSeq, LenProperties DEF ProofInv, ProofTypeOK
<1>4. \A n \in DOMAIN entries : entries[n] # 0 => PlaceNo(erasure'[entries[n]].at) > 11
  BY <1>2, <1>3 DEF ProofInv
<1>5. ASSUME NEW r \in RequestIds \ disturbed PROVE InOrder(r)'
  <2>1. InOrder(r) /\ ProofTypeOK
    BY DEF ProofInv
  <2>2. Mine(r)' = Mine(r) /\ Mine(r) \subseteq Erasures
    BY SameMine DEF Mine
  <2>3. EntriesOfOthers(r) /\ SearchesOfOthers(r)
    BY DEF EntriesOfOthers, SearchesOfOthers
  <2> QED
    BY <2>1, <2>2, <2>3, InOrderStands
<1>6. \A e \in Erasures : erasure'[e].at = "mapping" => \E n \in DOMAIN entries' : entries'[n] = e
  BY <1>2 DEF ProofInv
<1>7. /\ \A r \in RequestIds : mapping'[r] \in DOMAIN entries' \cup {0}
      /\ \A l \in Lookups : lookup'[l].index \in DOMAIN entries' \cup {0}
  BY DEF ProofInv
<1> QED
  BY <1>1, <1>4, <1>5, <1>6, <1>7 DEF ProofInv

LEMMA BeginsKeepsProofs ==
    ASSUME TenantAssumption, TenantTypeOK, ProofInv, NEW e \in Erasures, NEW ask \in ErasureKinds,
           NEW q \in RequestIds, ErasureBegins(e, ask, q)
    PROVE  ProofInv'
<1>1. /\ erasure[e].at = "new" /\ erasure'[e].at = "marker" /\ erasure'[e].id = q /\ ~erasure'[e].hurt
      /\ \A f \in Erasures \ {e} : SameCall(erasure[f], erasure'[f])
  BY BeginsFacts DEF Beginner
<1>2. /\ UNCHANGED <<lookup, proofCache, mapping, entries>> /\ disturbed \subseteq disturbed'
      /\ q \notin disturbed' => OnTheId(q) = {} /\ SearchesOf(q) = {}
      /\ \A f \in 1 .. e - 1 : erasure[f].at # "new"
  BY DEF ErasureBegins, proofVars
<1>3. ProofTypeOK' /\ ProofTypeOK
  BY <1>2 DEF ProofInv, ProofTypeOK
<1>4. PlaceNo("new") = 0 /\ PlaceNo("marker") = 1
  BY DEF PlaceNo
<1>5. \A n \in DOMAIN entries : entries[n] \in Erasures \cup {0} /\ entries[n] # e
  <2>1. \A n \in DOMAIN entries : entries[n] \in Erasures \cup {0}
    BY <1>3, ElementOfSeq, LenProperties DEF ProofTypeOK
  <2>2. e # 0
    BY ErasureNumbers
  <2> QED
    BY <1>1, <1>4, <2>1, <2>2 DEF ProofInv
<1>6. \A n \in DOMAIN entries' : entries'[n] # 0 => PlaceNo(erasure'[entries'[n]].at) > 11
  BY <1>1, <1>2, <1>5 DEF ProofInv, SameCall
<1>7. ASSUME NEW r \in RequestIds \ disturbed', r # q PROVE InOrder(r)'
  <2>1. InOrder(r)
    BY <1>2 DEF ProofInv
  <2>2. Mine(r)' = Mine(r) /\ e \notin Mine(r) /\ Mine(r) \subseteq Erasures
    BY <1>1, <1>7 DEF Mine, SameCall
  <2>3. EntriesOfOthers(r) /\ SearchesOfOthers(r)
    BY <1>2 DEF EntriesOfOthers, SearchesOfOthers
  <2> QED
    BY <1>1, <1>2, <1>3, <2>1, <2>2, <2>3, InOrderStands
<1>8. ASSUME q \notin disturbed' PROVE InOrder(q)'
  <2>1. InOrder(q)
    BY <1>2, <1>8 DEF ProofInv
  <2>2. Mine(q)' = Mine(q) \cup {e} /\ e \notin Mine(q) /\ Mine(q) \subseteq Erasures
    BY <1>1 DEF Mine, SameCall
  <2>3. \A f \in Mine(q) : /\ erasure'[f].at = erasure[f].at /\ erasure'[f].hurt = erasure[f].hurt
                           /\ ~Running(erasure[f]) /\ ~Running(erasure'[f])
    BY <1>1, <1>2, <1>8, <2>2 DEF SameCall, OnTheId, Mine, Running, Over
  <2>4. \A f \in Mine(q) : f < e
    <3> SUFFICES ASSUME NEW f \in Mine(q) PROVE f < e
      OBVIOUS
    <3>1. f \in Nat /\ e \in Nat \ {0} /\ f \in Erasures /\ f # e /\ f >= 1
      BY <2>2, ErasureNumbers
    <3>2. ~(e < f)
      <4>1. erasure[f].at # "new"
        BY DEF Mine
      <4>2. \A d \in 1 .. f - 1 : erasure[d].at # "new"
        BY <3>1, <4>1 DEF TenantTypeOK, ErasuresOK
      <4> QED
        BY <1>1, <3>1, <4>2
    <3> QED
      BY <3>1, <3>2
  <2>5. \A l \in Lookups : Running(lookup[l]) => lookup[l].id # q
    BY <1>2, <1>8 DEF SearchesOf
  <2>6. NoneHurt(q)'
    BY <1>1, <2>1, <2>2, <2>3 DEF NoneHurt, InOrder
  <2>7. OneAtATime(q)'
    BY <1>2, <2>2, <2>3, <2>4, <2>5 DEF OneAtATime
  <2>8. CacheIsLast(q)'
    BY <1>1, <1>2, <1>4, <2>1, <2>2, <2>3 DEF CacheIsLast, InOrder
  <2>9. EntriesFollow(q)'
    BY <1>1, <1>2, <1>4, <1>5, <2>1, <2>2, <2>3 DEF EntriesFollow, InOrder
  <2>10. IndexIsLast(q)'
    BY <1>1, <1>2, <2>1, <2>2, <2>3 DEF IndexIsLast, InOrder
  <2>11. SearchesStop(q)'
    BY <1>2, <2>1 DEF SearchesStop, InOrder
  <2> QED
    BY <2>6, <2>7, <2>8, <2>9, <2>10, <2>11 DEF InOrder
<1>9. \A n, m \in DOMAIN entries' : entries'[n] # 0 /\ entries'[n] = entries'[m] => n = m
  BY <1>2 DEF ProofInv
<1>10. \A f \in Erasures : erasure'[f].at = "mapping" => \E n \in DOMAIN entries' : entries'[n] = f
  BY <1>1, <1>2 DEF ProofInv, SameCall
<1>11. /\ \A r \in RequestIds : mapping'[r] \in DOMAIN entries' \cup {0}
       /\ \A l \in Lookups : lookup'[l].index \in DOMAIN entries' \cup {0}
  BY <1>2 DEF ProofInv
<1> QED
  BY <1>3, <1>6, <1>7, <1>8, <1>9, <1>10, <1>11 DEF ProofInv

LEMMA ErasureStepKeepsProofs ==
    ASSUME TenantAssumption, TenantTypeOK, ProofInv, NEW e \in Erasures, ErasureSteps(e)
    PROVE  ProofInv'
<1> DEFINE w == erasure[e]
<1>1. UNCHANGED lookup
  BY ProofStepFacts
<1>2. PICK x \in ErasureStates : GoesOn(e, x) /\ ProofStep(e, x)
  BY ProofStepFacts
<1>3. erasure'[e] = x /\ \A f \in Erasures \ {e} : erasure'[f] = erasure[f]
  BY <1>2, OneErasureMoves DEF GoesOn
<1>4. /\ w.at \in ErasurePlaces \ {"done"} /\ w \in ErasureStates /\ x.id = w.id /\ w.id \in RequestIds
      /\ w.at # "new" /\ x.at # "new"
      /\ x.at \in ErasurePlaces => PlaceNo(x.at) > PlaceNo(w.at)
      /\ x.at \in ErasurePlaces \cup {"refused"}
  BY <1>2, RunningErasure DEF GoesOn, ErasurePlaces
<1>5. ProofTypeOK /\ e # 0
  BY ErasureNumbers DEF ProofInv
<1>6. disturbed' \in {disturbed, disturbed \cup {w.id}} /\ (w.id \notin disturbed' => ~x.hurt)
  <2>1. CASE x.hurt /\ disturbed' = disturbed \cup {w.id}
    BY <2>1
  <2>2. CASE x.hurt = w.hurt /\ UNCHANGED disturbed
    <3>1. w.id \notin disturbed => ~w.hurt
      BY <1>4 DEF ProofInv, InOrder, NoneHurt, Mine
    <3> QED
      BY <2>2, <3>1
  <2> QED
    BY <1>2, <2>1, <2>2 DEF ProofStep
<1>7. /\ entries' \in {entries, Append(entries, 0)} \/ (entries' = Append(entries, e) /\ w.at = "entry" /\ x.at = "mapping")
      /\ proofCache' = proofCache \/ proofCache' = [proofCache EXCEPT ![w.id] = e]
      /\ mapping' = mapping \/ (/\ w.at = "mapping" /\ UNCHANGED entries
                                /\ mapping' = [mapping EXCEPT ![w.id] = CHOOSE n \in DOMAIN entries : entries[n] = e])
      /\ PlaceNo(w.at) > 11 => x.at \in ErasurePlaces
  <2>1. PlaceNo("cache") = 10 /\ PlaceNo("entry") = 11
    BY DEF PlaceNo
  <2>2. PlaceNo(w.at) \in Nat
    BY <1>4, PathFacts
  <2>3. {"done", "entry", "mapping"} \subseteq ErasurePlaces
    BY DEF ErasurePlaces
  <2> HIDE DEF w
  <2> QED
    BY <1>2, <2>1, <2>2, <2>3 DEF ProofStep, proofVars, w
<1>8. /\ Len(entries) \in Nat /\ DOMAIN entries = 1 .. Len(entries)
      /\ \A n \in DOMAIN entries : entries[n] \in Erasures \cup {0}
  BY <1>5, ElementOfSeq, LenProperties DEF ProofTypeOK
<1>9. PlaceNo(w.at) \in Nat /\ (x.at \in ErasurePlaces => PlaceNo(x.at) \in Nat)
  BY <1>4, PathFacts
<1>10. \A f \in Erasures : PlaceNo(erasure[f].at) > 11 => PlaceNo(erasure'[f].at) > 11
  BY <1>3, <1>4, <1>7, <1>9
<1>11. /\ entries' \in Seq(Erasures \cup {0})
       /\ \A n \in DOMAIN entries' : entries'[n] # 0 => PlaceNo(erasure'[entries'[n]].at) > 11
       /\ \A n, m \in DOMAIN entries' : entries'[n] # 0 /\ entries'[n] = entries'[m] => n = m
  <2>0. /\ \A n \in DOMAIN entries : entries[n] # 0 => PlaceNo(erasure'[entries[n]].at) > 11
        /\ \A n, m \in DOMAIN entries : entries[n] # 0 /\ entries[n] = entries[m] => n = m
    BY <1>8, <1>10 DEF ProofInv
  <2>1. CASE entries' = entries
    BY <1>5, <2>0, <2>1 DEF ProofTypeOK
  <2>2. CASE entries' = Append(entries, 0)
    BY <1>5, <1>8, <2>0, <2>2, EntryFacts
  <2>3. CASE entries' = Append(entries, e) /\ w.at = "entry" /\ x.at = "mapping"
    <3>1. PlaceNo("entry") = 11 /\ PlaceNo("mapping") = 12
      BY DEF PlaceNo
    <3>2. \A n \in DOMAIN entries : entries[n] # e
      BY <1>5, <2>3, <3>1 DEF ProofInv
    <3>3. /\ entries' \in Seq(Erasures \cup {0})
          /\ DOMAIN entries = 1 .. Len(entries) /\ DOMAIN entries' = 1 .. Len(entries) + 1
          /\ \A n \in DOMAIN entries : entries'[n] = entries[n]
          /\ entries'[Len(entries) + 1] = e
      BY <1>5, <2>3, EntryFacts
    <3>4. \A n \in DOMAIN entries' : n \in DOMAIN entries \/ n = Len(entries) + 1
      BY <1>8, <3>3
    <3> QED
      BY <1>3, <2>0, <2>3, <3>1, <3>2, <3>3, <3>4
  <2> QED
    BY <1>7, <2>1, <2>2, <2>3
<1>12. mapping' \in [RequestIds -> Nat] /\ proofCache' \in [RequestIds -> Erasures \cup {0}]
       /\ lookup' \in [Lookups -> LookupStates]
  <2>1. CASE mapping' = mapping
    BY <1>1, <1>5, <1>7, <2>1 DEF ProofTypeOK
  <2>2. CASE mapping' # mapping
    <3> DEFINE n == CHOOSE k \in DOMAIN entries : entries[k] = e
    <3>1. mapping' = [mapping EXCEPT ![w.id] = n] /\ w.at = "mapping"
      BY <1>7, <2>2
    <3>2. n \in Nat
      <4>1. \E k \in DOMAIN entries : entries[k] = e
        BY <3>1 DEF ProofInv
      <4>2. n \in DOMAIN entries
        BY <4>1
      <4> HIDE DEF n
      <4> QED
        BY <1>8, <4>2
    <3> HIDE DEF n
    <3> QED
      BY <1>1, <1>5, <1>7, <3>1, <3>2 DEF ProofTypeOK
  <2> QED
    BY <2>1, <2>2
<1>13. ASSUME NEW r \in RequestIds \ disturbed', r # w.id PROVE InOrder(r)'
  <2>1. InOrder(r)
    BY <1>6, <1>13 DEF ProofInv
  <2>2. Mine(r)' = Mine(r) /\ e \notin Mine(r) /\ Mine(r) \subseteq Erasures
    BY <1>3, <1>4, <1>13 DEF Mine
  <2>3. mapping'[r] = mapping[r] /\ proofCache'[r] = proofCache[r]
    BY <1>5, <1>7, <1>13 DEF ProofTypeOK
  <2>4. SearchesOfOthers(r)
    BY <1>1 DEF SearchesOfOthers
  <2>5. EntriesOfOthers(r)
    <3>1. 0 \notin Mine(r)
      BY <2>2, ErasureNumbers
    <3> QED
      BY <1>7, <2>2, <3>1 DEF EntriesOfOthers
  <2>6. \A f \in Mine(r) : SameCall(erasure[f], erasure'[f])
    BY <1>3, <2>2 DEF SameCall
  <2> QED
    BY <1>5, <2>1, <2>2, <2>3, <2>4, <2>5, <2>6, InOrderStands
<1>14. ASSUME NEW r \in RequestIds \ disturbed', r = w.id PROVE InOrder(r)'
  <2>1. InOrder(r) /\ ~x.hurt
    BY <1>6, <1>14 DEF ProofInv
  <2> QED
    BY <1>1, <1>2, <1>14, <2>1, OwnStepInOrder
<1>15. \A f \in Erasures : erasure'[f].at = "mapping" => \E n \in DOMAIN entries' : entries'[n] = f
  <2>1. \A n \in DOMAIN entries : n \in DOMAIN entries' /\ entries'[n] = entries[n]
    <3>1. entries' = entries \/ entries' = Append(entries, 0) \/ entries' = Append(entries, e)
      BY <1>7
    <3> QED
      BY <1>5, <1>8, <3>1, EntryFacts
  <2>2. x.at = "mapping" => entries' = Append(entries, e)
    <3>1. PlaceNo("mapping") = 12
      BY DEF PlaceNo
    <3> QED
      BY <1>2, <3>1 DEF ProofStep
  <2>3. x.at = "mapping" => \E n \in DOMAIN entries' : entries'[n] = e
    BY <1>5, <1>8, <2>2, EntryFacts
  <2>4. ASSUME NEW f \in Erasures \ {e}, erasure'[f].at = "mapping" PROVE \E n \in DOMAIN entries' : entries'[n] = f
    <3>1. PICK n \in DOMAIN entries : entries[n] = f
      BY <1>3, <2>4 DEF ProofInv
    <3> QED
      BY <2>1, <3>1
  <2> QED
    BY <1>3, <2>3, <2>4
<1>16. /\ \A r \in RequestIds : mapping'[r] \in DOMAIN entries' \cup {0}
       /\ \A l \in Lookups : lookup'[l].index \in DOMAIN entries' \cup {0}
  <2>1. DOMAIN entries \subseteq DOMAIN entries'
    <3>1. entries' = entries \/ entries' = Append(entries, 0) \/ entries' = Append(entries, e)
      BY <1>7
    <3> QED
      BY <1>5, <1>8, <3>1, EntryFacts
  <2>2. CASE mapping' = mapping
    BY <1>1, <2>1, <2>2 DEF ProofInv
  <2>3. CASE mapping' # mapping
    <3> DEFINE n == CHOOSE k \in DOMAIN entries : entries[k] = e
    <3>1. mapping' = [mapping EXCEPT ![w.id] = n] /\ w.at = "mapping"
      BY <1>7, <2>3
    <3>2. \E k \in DOMAIN entries : entries[k] = e
      BY <3>1 DEF ProofInv
    <3>3. n \in DOMAIN entries
      BY <3>2
    <3> HIDE DEF n
    <3> QED
      BY <1>1, <1>5, <2>1, <3>1, <3>3 DEF ProofInv, ProofTypeOK
  <2> QED
    BY <2>2, <2>3
<1> QED
  BY <1>1, <1>5, <1>11, <1>12, <1>13, <1>14, <1>15, <1>16 DEF ProofInv, ProofTypeOK

(* A step of the searches, or of the others who use the ledger.            *)
LEMMA SearchKeepsProofs ==
    ASSUME TenantAssumption, ProofInv, UNCHANGED <<erasure, mapping>>, disturbed \subseteq disturbed',
           lookup' \in [Lookups -> LookupStates],
           \A l \in Lookups : /\ lookup'[l].index \in DOMAIN entries \cup {0}
                              /\ lookup'[l].at # "new" => lookup'[l].id \in RequestIds,
           proofCache' \in [RequestIds -> Erasures \cup {0}],
           \A r \in RequestIds : proofCache'[r] \in {0, proofCache[r]},
           entries' \in {entries, Append(entries, 0)},
           \A r \in RequestIds \ disturbed' : SearchesOfOthers(r)
    PROVE  ProofInv'
<1>1. ProofTypeOK /\ \A r \in RequestIds : 0 \notin Mine(r)
  BY ErasureNumbers DEF ProofInv, Mine
<1>2. /\ Len(entries) \in Nat /\ DOMAIN entries = 1 .. Len(entries)
      /\ \A n \in DOMAIN entries : entries[n] \in Erasures \cup {0}
  BY <1>1, ElementOfSeq, LenProperties DEF ProofTypeOK
<1>3. /\ entries' \in Seq(Erasures \cup {0})
      /\ \A n \in DOMAIN entries : n \in DOMAIN entries' /\ entries'[n] = entries[n]
      /\ \A n \in DOMAIN entries' : n \in DOMAIN entries \/ entries'[n] = 0
  <2>1. CASE entries' = entries
    BY <1>1, <2>1 DEF ProofTypeOK
  <2>2. CASE entries' = Append(entries, 0)
    BY <1>1, <1>2, <2>2, EntryFacts
  <2> QED
    BY <2>1, <2>2
<1>4. ProofTypeOK'
  BY <1>1, <1>3 DEF ProofTypeOK
<1>5. /\ \A n \in DOMAIN entries' : entries'[n] # 0 => PlaceNo(erasure'[entries'[n]].at) > 11
      /\ \A n, m \in DOMAIN entries' : entries'[n] # 0 /\ entries'[n] = entries'[m] => n = m
      /\ \A e \in Erasures : erasure'[e].at = "mapping" => \E n \in DOMAIN entries' : entries'[n] = e
      /\ \A r \in RequestIds : mapping'[r] \in DOMAIN entries' \cup {0}
      /\ \A l \in Lookups : lookup'[l].index \in DOMAIN entries' \cup {0}
  BY <1>3 DEF ProofInv
<1>6. ASSUME NEW r \in RequestIds \ disturbed' PROVE InOrder(r)'
  <2>1. InOrder(r) /\ SearchesOfOthers(r)
    BY <1>6 DEF ProofInv
  <2>2. Mine(r)' = Mine(r) /\ \A f \in Mine(r) : SameCall(erasure[f], erasure'[f])
    BY DEF Mine, SameCall
  <2>3. EntriesOfOthers(r)
    BY <1>1 DEF EntriesOfOthers
  <2> QED
    BY <1>1, <2>1, <2>2, <2>3, InOrderStands
<1> QED
  BY <1>4, <1>5, <1>6 DEF ProofInv

LEMMA LookupBeginsKeepsProofs ==
    ASSUME TenantAssumption, ProofInv, NEW l \in Lookups, NEW q \in RequestIds, NEW zero \in BOOLEAN,
           LookupBegins(l, q, zero)
    PROVE  ProofInv'
<1> DEFINE at == IF zero THEN "search" ELSE IF proofCache[q] # 0 THEN "done" ELSE "index"
           x1 == [NewLookup EXCEPT !.id = q]
           x2 == [x1 EXCEPT !.zero = zero]
           x3 == [x2 EXCEPT !.at = at]
           kept == IF zero THEN 0 ELSE proofCache[q]
           x  == [x3 EXCEPT !.answer = kept]
<1>1. NewLookup \in LookupStates /\ NewLookup.index = 0
  BY DEF NewLookup, LookupStates
<1>2. x1 \in LookupStates /\ x1.id = q /\ x1.index = 0
  BY <1>1 DEF LookupStates
<1> HIDE DEF x1
<1>3. x2 \in LookupStates /\ x2.id = q /\ x2.zero = zero /\ x2.index = 0
  BY <1>2 DEF LookupStates
<1> HIDE DEF x2
<1>4. at \in {"search", "done", "index"} /\ (at = "search" => zero)
  OBVIOUS
<1> HIDE DEF at
<1>5. x3 \in LookupStates /\ x3.id = q /\ x3.zero = zero /\ x3.at = at /\ x3.index = 0
  BY <1>3, <1>4 DEF LookupStates
<1> HIDE DEF x3
<1>0. kept \in Erasures \cup {0}
  BY DEF ProofInv, ProofTypeOK
<1> HIDE DEF kept
<1>6. x \in LookupStates /\ x.id = q /\ x.zero = zero /\ x.at = at /\ x.index = 0
  BY <1>0, <1>5 DEF LookupStates
<1>7. lookup' = [lookup EXCEPT ![l] = x]
  BY Zenon DEF LookupBegins, x1, x2, x3, at, kept
<1> HIDE DEF x
<1>8. /\ lookup' \in [Lookups -> LookupStates] /\ lookup'[l] = x
      /\ \A m \in Lookups \ {l} : lookup'[m] = lookup[m]
  BY <1>6, <1>7 DEF ProofInv, ProofTypeOK
<1>9. UNCHANGED <<erasure, mapping, proofCache, entries>> /\ disturbed \subseteq disturbed'
      /\ (q \notin disturbed' => OnTheId(q) = {})
  BY DEF LookupBegins, proofVars
<1>10. ASSUME NEW r \in RequestIds \ disturbed' PROVE SearchesOfOthers(r)
  <2>1. CASE r = q
    <3>1. \A e \in Mine(r) : ~Running(erasure[e])
      BY <1>9, <1>10, <2>1 DEF OnTheId, Mine
    <3> QED
      BY <1>4, <1>6, <1>8, <3>1 DEF SearchesOfOthers
  <2>2. CASE r # q
    BY <1>6, <1>8, <2>2 DEF SearchesOfOthers
  <2> QED
    BY <2>1, <2>2
<1>11. proofCache' \in [RequestIds -> Erasures \cup {0}]
       /\ \A r \in RequestIds : proofCache'[r] \in {0, proofCache[r]}
  BY <1>9 DEF ProofInv, ProofTypeOK
<1>12. \A m \in Lookups : /\ lookup'[m].index \in DOMAIN entries \cup {0}
                          /\ lookup'[m].at # "new" => lookup'[m].id \in RequestIds
  BY <1>6, <1>8 DEF ProofInv, ProofTypeOK
<1> QED
  BY <1>8, <1>9, <1>10, <1>11, <1>12, SearchKeepsProofs

(* The newest of the entries that a search sees.                           *)
LEMMA NewestFacts ==
    ASSUME NEW N \in Nat, NEW S \in SUBSET (1 .. N), S # {}
    PROVE  Newest(S) \in S /\ \A n \in S : n <= Newest(S)
<1> DEFINE D == {N - n : n \in S}
<1>1. D \subseteq Nat /\ D # {}
  <2>1. \A n \in S : n \in 1 .. N /\ N - n \in Nat
    OBVIOUS
  <2> QED
    BY <2>1
<1>2. PICK d \in D : \A c \in D : d <= c
  <2> HIDE DEF D
  <2> QED
    BY <1>1, LeastOne
<1>3. PICK n \in S : d = N - n
  BY <1>2
<1>4. \A m \in S : n >= m
  <2> SUFFICES ASSUME NEW m \in S PROVE n >= m
    OBVIOUS
  <2>1. n \in 1 .. N /\ m \in 1 .. N /\ N - m \in D
    OBVIOUS
  <2>2. d <= N - m
    BY <1>2, <2>1
  <2> HIDE DEF D
  <2> QED
    BY <1>3, <2>1, <2>2
<1>5. \E k \in S : \A m \in S : k >= m
  BY <1>4
<1>6. Newest(S) \in S /\ \A m \in S : Newest(S) >= m
  BY <1>5 DEF Newest
<1> QED
  BY <1>6

LEMMA FoundFacts ==
    ASSUME TenantAssumption, ProofInv, NEW r \in RequestIds
    PROVE  LET S == Matches(r) \cap Window(Len(entries)) IN
           /\ S \subseteq DOMAIN entries
           /\ \A n \in S : entries[n] \in Mine(r) /\ PlaceNo(erasure[entries[n]].at) > 11
           /\ S = {} => Found(r) = 0
           /\ S # {} => Found(r) \in S /\ \A n \in S : n <= Found(r)
<1> DEFINE S == Matches(r) \cap Window(Len(entries))
<1>1. /\ Len(entries) \in Nat /\ DOMAIN entries = 1 .. Len(entries)
      /\ \A n \in DOMAIN entries : entries[n] \in Erasures \cup {0}
  BY ElementOfSeq, LenProperties DEF ProofInv, ProofTypeOK
<1>2. S \subseteq DOMAIN entries
  BY DEF Matches
<1>3. PlaceNo("new") = 0
  BY DEF PlaceNo
<1>4. ASSUME NEW n \in S PROVE entries[n] \in Mine(r) /\ PlaceNo(erasure[entries[n]].at) > 11
  <2>1. n \in DOMAIN entries /\ entries[n] # 0 /\ erasure[entries[n]].id = r
    BY DEF Matches
  <2>2. entries[n] \in Erasures /\ PlaceNo(erasure[entries[n]].at) > 11
    BY <1>1, <2>1 DEF ProofInv
  <2> QED
    BY <1>3, <2>1, <2>2 DEF Mine
<1>5. S = {} => Found(r) = 0
  BY DEF Found, Newest
<1>6. S # {} => Found(r) \in S /\ \A n \in S : n <= Found(r)
  <2>1. Found(r) = Newest(S)
    BY DEF Found
  <2> HIDE DEF S
  <2> QED
    BY <1>1, <1>2, <2>1, NewestFacts
<1> QED
  BY <1>2, <1>4, <1>5, <1>6

LEMMA PlaceIsNumber == TenantTypeOK => \A e \in Erasures : PlaceNo(erasure[e].at) \in Nat
<1> SUFFICES ASSUME TenantTypeOK, NEW e \in Erasures PROVE PlaceNo(erasure[e].at) \in Nat
  OBVIOUS
<1>1. erasure[e] \in ErasureStates
  BY DEF TenantTypeOK, ErasuresOK
<1>2. erasure[e].at \in {"new", "refused"} => PlaceNo(erasure[e].at) = 0
  BY DEF PlaceNo
<1> QED
  BY <1>1, <1>2, PathFacts DEF ErasureStates

(* Once an erasure has its entry it runs, or has its index.                *)
LEMMA LastSteps ==
    ASSUME TenantTypeOK, NEW e \in Erasures, PlaceNo(erasure[e].at) > 10
    PROVE  Running(erasure[e]) \/ erasure[e].at = "done"
<1>1. erasure[e] \in ErasureStates
  BY DEF TenantTypeOK, ErasuresOK
<1>2. erasure[e].at \in ErasurePlaces
  BY <1>1 DEF PlaceNo, ErasureStates, ErasurePlaces
<1> QED
  BY <1>1, <1>2, StatusFacts

(* Without an index, and while no erasure of it runs, a request id has no  *)
(* entry to find.                                                          *)
LEMMA NothingToFind ==
    ASSUME TenantAssumption, TenantTypeOK, ProofInv, NEW r \in RequestIds, InOrder(r), mapping[r] = 0,
           \A e \in Mine(r) : ~Running(erasure[e])
    PROVE  Found(r) = 0
<1> SUFFICES ASSUME Found(r) # 0 PROVE FALSE
  OBVIOUS
<1>1. PICK e \in Mine(r) : PlaceNo(erasure[e].at) > 11
  BY FoundFacts
<1>2. e \in Erasures
  BY DEF Mine
<1>3. PlaceNo(erasure[e].at) > 10
  BY <1>1, <1>2, PlaceIsNumber
<1>4. erasure[e].at = "done"
  BY <1>2, <1>3, LastSteps
<1> QED
  BY <1>4 DEF InOrder, IndexIsLast

(* A search moves to another place with what it has found.                 *)
LEMMA LookupMoves ==
    ASSUME ProofTypeOK, NEW l \in Lookups, NEW at \in {"index", "search", "index again", "done"},
           NEW n \in Nat, NEW answer \in Erasures \cup {0}, LookupGo(l, at, n, answer)
    PROVE  /\ lookup' \in [Lookups -> LookupStates] /\ lookup'[l].at = at /\ lookup'[l].index = n
           /\ lookup'[l].id = lookup[l].id /\ lookup'[l].zero = lookup[l].zero
           /\ \A m \in Lookups \ {l} : lookup'[m] = lookup[m]
<1> DEFINE x1 == [lookup[l] EXCEPT !.at = at]
           x2 == [x1 EXCEPT !.index = n]
           x  == [x2 EXCEPT !.answer = answer]
<1>1. lookup[l] \in LookupStates
  BY DEF ProofTypeOK
<1>2. x1 \in LookupStates /\ x1.at = at /\ x1.id = lookup[l].id /\ x1.zero = lookup[l].zero
  BY <1>1 DEF LookupStates
<1>3. lookup' = [lookup EXCEPT ![l] = x]
  BY Zenon DEF LookupGo, ProofTypeOK
<1> HIDE DEF x1
<1>4. x2 \in LookupStates /\ x2.at = at /\ x2.index = n /\ x2.id = lookup[l].id /\ x2.zero = lookup[l].zero
  BY <1>2 DEF LookupStates
<1> HIDE DEF x2
<1>5. x \in LookupStates /\ x.at = at /\ x.index = n /\ x.id = lookup[l].id /\ x.zero = lookup[l].zero
  BY <1>4 DEF LookupStates
<1> HIDE DEF x
<1> QED
  BY <1>3, <1>5 DEF ProofTypeOK

LEMMA LookupReadsKeepsProofs ==
    ASSUME TenantAssumption, TenantTypeOK, ProofInv, NEW l \in Lookups, LookupReads(l)
    PROVE  ProofInv'
<1> DEFINE w == lookup[l]
<1>1. ProofTypeOK /\ w \in LookupStates /\ w.at \in {"index", "search"} /\ w.id \in RequestIds
  BY DEF ProofInv, ProofTypeOK, LookupReads
<1>2. Running(w)
  BY <1>1, StatusFacts
<1>3. UNCHANGED <<erasure, mapping, proofCache, entries, disturbed>>
  BY Zenon DEF LookupReads, proofVars
<1>4. /\ \A n \in DOMAIN entries \cup {0} : n \in Nat /\ EntryAt(n) \in Erasures \cup {0}
  <2>1. \A n \in DOMAIN entries : n \in Nat /\ entries[n] \in Erasures \cup {0}
    BY <1>1, ElementOfSeq, LenProperties DEF ProofTypeOK
  <2> QED
    BY <2>1 DEF EntryAt
<1>5. Found(w.id) \in DOMAIN entries \cup {0}
  BY <1>1, FoundFacts
<1>6. PICK at \in {"search", "index again", "done"}, n \in DOMAIN entries \cup {0},
           answer \in Erasures \cup {0} :
         /\ LookupGo(l, at, n, answer)
         /\ at = "search" => mapping[w.id] = 0
         /\ at = "index again" => w.at = "search" /\ ~w.zero /\ Found(w.id) # 0
  <2>1. CASE w.at = "index" /\ mapping[w.id] # 0 /\ LookupGo(l, "done", 0, EntryAt(mapping[w.id]))
    <3>1. EntryAt(mapping[w.id]) \in Erasures \cup {0}
      BY <1>1, <1>4 DEF ProofInv
    <3> QED
      BY <2>1, <3>1
  <2>2. CASE w.at = "index" /\ mapping[w.id] = 0 /\ LookupGo(l, "search", 0, 0)
    BY <2>2
  <2>3. ASSUME w.at = "search",
               LookupGo(l, IF Found(w.id) = 0 \/ w.zero THEN "done" ELSE "index again", Found(w.id), EntryAt(Found(w.id)))
        PROVE  \E at \in {"search", "index again", "done"}, n \in DOMAIN entries \cup {0},
                  answer \in Erasures \cup {0} :
                 /\ LookupGo(l, at, n, answer)
                 /\ at = "search" => mapping[w.id] = 0
                 /\ at = "index again" => w.at = "search" /\ ~w.zero /\ Found(w.id) # 0
    <3>1. EntryAt(Found(w.id)) \in Erasures \cup {0}
      BY <1>4, <1>5
    <3>2. CASE Found(w.id) = 0 \/ w.zero
      BY <1>5, <2>3, <3>1, <3>2
    <3>3. CASE ~(Found(w.id) = 0 \/ w.zero)
      BY <1>5, <2>3, <3>1, <3>3
    <3> QED
      BY <3>2, <3>3
  <2>4. \/ w.at = "index" /\ mapping[w.id] # 0 /\ LookupGo(l, "done", 0, EntryAt(mapping[w.id]))
        \/ w.at = "index" /\ mapping[w.id] = 0 /\ LookupGo(l, "search", 0, 0)
        \/ /\ w.at = "search"
           /\ LookupGo(l, IF Found(w.id) = 0 \/ w.zero THEN "done" ELSE "index again", Found(w.id), EntryAt(Found(w.id)))
    BY Zenon DEF LookupReads
  <2> QED
    BY <2>1, <2>2, <2>3, <2>4, Zenon
<1>7. /\ lookup' \in [Lookups -> LookupStates] /\ lookup'[l].at = at /\ lookup'[l].index = n
      /\ lookup'[l].id = w.id /\ lookup'[l].zero = w.zero
      /\ \A m \in Lookups \ {l} : lookup'[m] = lookup[m]
  <2>1. at \in {"index", "search", "index again", "done"} /\ n \in Nat
    BY <1>4
  <2>2. LookupGo(l, at, n, answer) /\ ProofTypeOK
    BY <1>1, <1>6
  <2> QED
    BY <2>1, <2>2, LookupMoves
<1>8. ASSUME NEW r \in RequestIds \ disturbed', r = w.id
      PROVE  at # "index again" /\ \A e \in Mine(r) : ~Running(erasure[e])
  <2>1. InOrder(r) /\ r \in RequestIds
    BY <1>3, <1>8 DEF ProofInv
  <2>2. \A e \in Mine(r) : ~Running(erasure[e])
    BY <1>2, <1>8, <2>1 DEF InOrder, OneAtATime
  <2>3. ASSUME at = "index again" PROVE FALSE
    <3>1. mapping[r] = 0 /\ Found(r) # 0
      BY <1>6, <1>8, <2>1, <2>3 DEF InOrder, SearchesStop
    <3> QED
      BY <2>1, <2>2, <3>1, NothingToFind
  <2> QED
    BY <2>2, <2>3
<1>9. ASSUME NEW r \in RequestIds \ disturbed' PROVE SearchesOfOthers(r)
  BY <1>6, <1>7, <1>8, <1>9 DEF SearchesOfOthers
<1>10. \A m \in Lookups : /\ lookup'[m].index \in DOMAIN entries \cup {0}
                          /\ lookup'[m].at # "new" => lookup'[m].id \in RequestIds
  BY <1>1, <1>6, <1>7 DEF ProofInv, ProofTypeOK
<1>11. proofCache' \in [RequestIds -> Erasures \cup {0}]
       /\ \A r \in RequestIds : proofCache'[r] \in {0, proofCache[r]}
  BY <1>1, <1>3 DEF ProofTypeOK
<1> QED
  BY <1>3, <1>7, <1>9, <1>10, <1>11, SearchKeepsProofs

LEMMA LookupWritesBackKeepsProofs ==
    ASSUME TenantAssumption, TenantTypeOK, ProofInv, NEW l \in Lookups, LookupWritesBack(l)
    PROVE  ProofInv'
<1> DEFINE w == lookup[l]
<1>1. ProofTypeOK /\ w \in LookupStates /\ w.at = "index again" /\ w.id \in RequestIds
      /\ w.index \in DOMAIN entries \cup {0}
  BY DEF ProofInv, ProofTypeOK, LookupWritesBack
<1>2. w.id \in disturbed
  BY <1>1 DEF ProofInv, InOrder, SearchesStop
<1>3. /\ UNCHANGED <<erasure, proofCache, entries, disturbed>>
      /\ mapping' = [mapping EXCEPT ![w.id] = w.index] /\ LookupGo(l, "done", w.index, w.answer)
  BY Zenon DEF LookupWritesBack
<1>4. w.index \in Nat /\ w.answer \in Erasures \cup {0}
  BY <1>1 DEF LookupStates
<1> HIDE DEF w
<1>5. /\ lookup' \in [Lookups -> LookupStates] /\ lookup'[l].at = "done" /\ lookup'[l].index = w.index
      /\ lookup'[l].id = w.id
      /\ \A m \in Lookups \ {l} : lookup'[m] = lookup[m]
  BY <1>1, <1>3, <1>4, LookupMoves DEF w
<1>6. /\ mapping' \in [RequestIds -> Nat]
      /\ \A r \in RequestIds : mapping'[r] \in DOMAIN entries \cup {0}
      /\ \A r \in RequestIds \ {w.id} : mapping'[r] = mapping[r]
  <2>1. mapping \in [RequestIds -> Nat] /\ \A r \in RequestIds : mapping[r] \in DOMAIN entries \cup {0}
    BY DEF ProofInv, ProofTypeOK
  <2>2. mapping' = [mapping EXCEPT ![w.id] = w.index]
    BY <1>3
  <2> QED
    BY <1>1, <1>4, <2>1, <2>2
<1>7. ASSUME NEW r \in RequestIds \ disturbed PROVE InOrder(r)'
  <2>1. InOrder(r) /\ r # w.id
    BY <1>2, <1>7 DEF ProofInv
  <2>2. Mine(r)' = Mine(r) /\ \A f \in Mine(r) : SameCall(erasure[f], erasure'[f])
    BY <1>3 DEF Mine, SameCall
  <2>3. EntriesOfOthers(r) /\ SearchesOfOthers(r)
    BY <1>3, <1>5, <2>1 DEF EntriesOfOthers, SearchesOfOthers
  <2>4. mapping'[r] = mapping[r] /\ proofCache'[r] = proofCache[r]
    BY <1>3, <1>6, <2>1
  <2> QED
    BY <1>1, <2>1, <2>2, <2>3, <2>4, InOrderStands
<1>8. \A m \in Lookups : /\ lookup'[m].index \in DOMAIN entries \cup {0}
                         /\ lookup'[m].at # "new" => lookup'[m].id \in RequestIds
  BY <1>1, <1>5 DEF ProofInv, ProofTypeOK
<1>9. ProofTypeOK'
  BY <1>1, <1>3, <1>5, <1>6, <1>8 DEF ProofTypeOK
<1>10. /\ (\A n \in DOMAIN entries : entries[n] # 0 => PlaceNo(erasure[entries[n]].at) > 11)'
       /\ (\A n, m \in DOMAIN entries : entries[n] # 0 /\ entries[n] = entries[m] => n = m)'
       /\ (\A e \in Erasures : erasure[e].at = "mapping" => \E n \in DOMAIN entries : entries[n] = e)'
  <2>1. entries' = entries /\ erasure' = erasure
    BY <1>3
  <2> QED
    BY <2>1 DEF ProofInv
<1>11. /\ (\A r \in RequestIds : mapping[r] \in DOMAIN entries \cup {0})'
       /\ (\A m \in Lookups : lookup[m].index \in DOMAIN entries \cup {0})'
       /\ (\A r \in RequestIds \ disturbed : InOrder(r))'
  BY <1>3, <1>6, <1>7, <1>8
<1> QED
  BY <1>9, <1>10, <1>11, Zenon DEF ProofInv

(* Every step.                                                             *)
LEMMA ProofsKeptByAll ==
    ASSUME TenantAssumption, TenantTypeOK, ProofInv, TenantNext
    PROVE  ProofInv'
<1>0. \A f \in Erasures : SameCall(erasure[f], erasure[f])
  BY DEF SameCall
<1>1. CASE TenantWrites
  <2>1. ASSUME NEW i \in Ingests, IngestBegins(i) PROVE ProofInv'
    <3>1. UNCHANGED <<lookup, proofCache, mapping, entries, disturbed>> /\ erasure' = Joined(i)
      BY <2>1 DEF IngestBegins, proofVars
    <3>2. \A f \in Erasures : SameCall(erasure[f], erasure'[f])
      BY <3>1, JoinedFacts
    <3> QED
      BY <3>1, <3>2, QuietKeepsProofs
  <2>2. CASE UNCHANGED <<erasure, lookup, proofVars, disturbed>>
    <3>1. UNCHANGED <<erasure, lookup, proofCache, mapping, entries, disturbed>>
      BY <2>2 DEF proofVars
    <3> QED
      BY <1>0, <3>1, QuietKeepsProofs
  <2>3. \/ \E i \in Ingests : IngestBegins(i)
        \/ UNCHANGED <<erasure, lookup, proofVars, disturbed>>
    BY <1>1, Zenon DEF TenantWrites, StreamBegins, StreamWrites, StreamFails, IngestWrites, IngestFails, Lapse
  <2> QED
    BY <2>1, <2>2, <2>3
<1>2. CASE SweepSteps
  <2>1. UNCHANGED <<erasure, lookup, proofVars, disturbed>>
    BY <1>2, Zenon DEF SweepSteps, SweepLooks, SweepGives, SweepFails
  <2>2. UNCHANGED <<erasure, lookup, proofCache, mapping, entries, disturbed>>
    BY <2>1 DEF proofVars
  <2> QED
    BY <1>0, <2>2, QuietKeepsProofs
<1>3. CASE TenantErases
  BY <1>3, BeginsKeepsProofs, ErasureStepKeepsProofs DEF TenantErases, ErasureSteps
<1>4. CASE \E l \in Lookups, r \in RequestIds, z \in BOOLEAN : LookupBegins(l, r, z)
  BY <1>4, LookupBeginsKeepsProofs
<1>5. CASE \E l \in Lookups : LookupReads(l) \/ LookupWritesBack(l)
  BY <1>5, LookupReadsKeepsProofs, LookupWritesBackKeepsProofs
<1>6. CASE (\E r \in RequestIds : CacheLapses(r)) \/ OtherEntry
  <2>1. UNCHANGED <<erasure, mapping, lookup, disturbed>>
    BY <1>6, Zenon DEF CacheLapses, OtherEntry
  <2>2. /\ proofCache' \in [RequestIds -> Erasures \cup {0}]
        /\ \A r \in RequestIds : proofCache'[r] \in {0, proofCache[r]}
        /\ entries' \in {entries, Append(entries, 0)}
    BY <1>6 DEF CacheLapses, OtherEntry, ProofInv, ProofTypeOK
  <2>3. \A l \in Lookups : /\ lookup'[l].index \in DOMAIN entries \cup {0}
                           /\ lookup'[l].at # "new" => lookup'[l].id \in RequestIds
    BY <2>1 DEF ProofInv, ProofTypeOK
  <2>4. \A r \in RequestIds \ disturbed' : SearchesOfOthers(r)
    BY <2>1 DEF SearchesOfOthers
  <2>5. lookup' \in [Lookups -> LookupStates]
    BY <2>1 DEF ProofInv, ProofTypeOK
  <2> QED
    BY <2>1, <2>2, <2>3, <2>4, <2>5, SearchKeepsProofs
<1> QED
  BY <1>1, <1>2, <1>3, <1>4, <1>5, <1>6 DEF TenantNext, TenantSearches

LEMMA ProofsStutter == TenantAssumption /\ ProofInv /\ UNCHANGED tenantVars => ProofInv'
<1> SUFFICES ASSUME TenantAssumption, ProofInv, UNCHANGED tenantVars PROVE ProofInv'
  OBVIOUS
<1>1. UNCHANGED <<erasure, lookup, proofCache, mapping, entries, disturbed>>
  BY DEF tenantVars
<1>2. \A f \in Erasures : SameCall(erasure[f], erasure'[f])
  BY <1>1 DEF SameCall
<1> QED
  BY <1>1, <1>2, QuietKeepsProofs

LEMMA ProofsAtFirst ==
    ASSUME TenantInit
    PROVE  ProofInv
<1>1. NewLookup \in LookupStates
  BY DEF NewLookup, LookupStates
<1>2. /\ \A l \in Lookups : lookup[l] = NewLookup /\ lookup[l].at = "new" /\ lookup[l].index = 0
      /\ \A e \in Erasures : erasure[e].at = "new"
      /\ entries = <<>> /\ DOMAIN entries = {}
      /\ \A r \in RequestIds : proofCache[r] = 0 /\ mapping[r] = 0
  BY DEF TenantInit, NewLookup, NewErasure
<1>3. ProofTypeOK
  BY <1>1, <1>2 DEF TenantInit, ProofTypeOK
<1>4. ASSUME NEW r \in RequestIds PROVE InOrder(r)
  <2>1. Mine(r) = {}
    BY <1>2 DEF Mine
  <2> QED
    BY <1>2, <2>1 DEF InOrder, NoneHurt, OneAtATime, CacheIsLast, EntriesFollow, IndexIsLast, SearchesStop
<1> QED
  BY <1>2, <1>3, <1>4 DEF ProofInv

(* What a search of a request id finds, between two erasures of it.        *)
LEMMA LastIsFound ==
    ASSUME TenantAssumption, TenantTypeOK, ProofInv
    PROVE  ProofFound
<1> SUFFICES ASSUME NEW r \in RequestIds \ disturbed, OnTheId(r) = {}, NEW e \in LastOf(r)
             PROVE  /\ proofCache[r] \in {0, e}
                    /\ EntryAt(mapping[r]) = e
                    /\ EntryAt(Found(r)) = e \/ \A n \in Window(Len(entries)) : entries[n] # e
  BY DEF ProofFound
<1>1. InOrder(r) /\ ProofTypeOK
  BY DEF ProofInv
<1>2. e \in Mine(r) /\ e \in Erasures /\ erasure[e].at = "done" /\ erasure[e].id = r
  BY DEF LastOf, Mine
<1>3. ASSUME NEW f \in Mine(r), PlaceNo(erasure[f].at) > 10 PROVE f <= e /\ erasure[f].at = "done"
  <2>1. f \in Erasures /\ erasure[f].id = r
    BY DEF Mine
  <2>2. ~Running(erasure[f])
    BY <2>1 DEF OnTheId
  <2>3. erasure[f].at = "done"
    BY <1>3, <2>1, <2>2, LastSteps
  <2> QED
    BY <2>1, <2>3 DEF LastOf
<1>4. PlaceNo(erasure[e].at) = 13
  BY <1>2 DEF PlaceNo
<1>5. Mine(r) \subseteq Nat \ {0}
  BY ErasureNumbers DEF Mine
<1>6. proofCache[r] \in {0, e}
  <2> SUFFICES ASSUME proofCache[r] # 0 PROVE proofCache[r] = e
    OBVIOUS
  <2>1. /\ proofCache[r] \in Mine(r) /\ PlaceNo(erasure[proofCache[r]].at) > 10 /\ e <= proofCache[r]
    BY <1>1, <1>2, <1>4 DEF InOrder, CacheIsLast
  <2> QED
    BY <1>2, <1>3, <1>5, <2>1
<1>7. EntryAt(mapping[r]) = e
  <2>1. /\ mapping[r] # 0 /\ mapping[r] \in DOMAIN entries /\ entries[mapping[r]] \in Mine(r)
        /\ erasure[entries[mapping[r]]].at = "done" /\ e <= entries[mapping[r]]
    BY <1>1, <1>2 DEF InOrder, IndexIsLast
  <2>2. entries[mapping[r]] <= e
    BY <1>3, <2>1 DEF PlaceNo
  <2> QED
    BY <1>2, <1>5, <2>1, <2>2 DEF EntryAt
<1>8. ASSUME NEW n \in Window(Len(entries)), entries[n] = e PROVE EntryAt(Found(r)) = e
  <2> DEFINE S == Matches(r) \cap Window(Len(entries))
  <2>1. Len(entries) \in Nat /\ DOMAIN entries = 1 .. Len(entries)
    BY <1>1, LenProperties DEF ProofTypeOK
  <2>2. n \in S
    <3>1. n \in DOMAIN entries
      BY <2>1 DEF Window
    <3> QED
      BY <1>2, <1>5, <1>8, <3>1 DEF Matches
  <2>3. /\ Found(r) \in S /\ n <= Found(r) /\ S \subseteq DOMAIN entries
        /\ entries[Found(r)] \in Mine(r) /\ PlaceNo(erasure[entries[Found(r)]].at) > 11
    BY <2>2, FoundFacts
  <2>4. entries[Found(r)] <= e
    <3>1. entries[Found(r)] \in Erasures
      BY <2>3 DEF Mine
    <3>2. PlaceNo(erasure[entries[Found(r)]].at) > 10
      BY <2>3, <3>1, PlaceIsNumber
    <3> QED
      BY <1>3, <2>3, <3>2
  <2>5. n # Found(r) => e < entries[Found(r)]
    <3>1. n \in DOMAIN entries /\ Found(r) \in DOMAIN entries /\ n <= Found(r)
      BY <2>2, <2>3
    <3>2. n # Found(r) => n < Found(r)
      BY <2>1, <3>1
    <3> QED
      BY <1>1, <1>2, <1>8, <2>3, <3>1, <3>2 DEF InOrder, EntriesFollow
  <2>6. Found(r) = n /\ Found(r) # 0
    BY <1>2, <1>5, <2>1, <2>3, <2>4, <2>5
  <2> QED
    BY <1>8, <2>6 DEF EntryAt
<1> QED
  BY <1>6, <1>7, <1>8

(* Between the erasures of a request id, the cache, the index and the tail *)
(* of the ledger name the same proof: that of the last of them.  The three *)
(* are written one after the other, a search may write the index too, the  *)
(* cached proof lapses, and others' entries push the proofs back           *)
(* (chimera/rtbf_proof_views.py).                                          *)
THEOREM ProofsFound == TenantSpec => []ProofFound
<1>1. TenantInit => TenantTypeOK /\ DataInv /\ ProofInv
  BY DataAtFirst, ProofsAtFirst, TenantAssumption
<1>2. TenantTypeOK /\ DataInv /\ ProofInv /\ [TenantNext]_tenantVars => TenantTypeOK' /\ DataInv' /\ ProofInv'
  BY TypesKept, DataKeptByAll, DataStutters, ProofsKeptByAll, ProofsStutter, TenantAssumption
<1>3. TenantTypeOK /\ DataInv /\ ProofInv => ProofFound
  BY LastIsFound, TenantAssumption
<1> QED
  BY <1>1, <1>2, <1>3, PTL DEF TenantSpec
=============================================================================
