----------------------------- MODULE TenantData -----------------------------
(***************************************************************************)
(* What the service keeps of one session of a tenant, the retention loop   *)
(* that gives it an end, its erasure on request and the proof of that      *)
(* (chimera/rtbf_routes.py, rtbf_proof_views.py; the writers are the risk  *)
(* engine, the stream preflight and the exemplar ingest).  Every call is a *)
(* sequence of single commands of Redis, and the calls interleave.  Keys   *)
(* that are written and never read (the index of requests, the tombstones  *)
(* of subjects and sessions) are left out.                                 *)
(***************************************************************************)
EXTENDS Naturals, Sequences, FiniteSets

CONSTANTS
    MaxStreams, MaxIngests, MaxErasures,  \* bounds of the model: calls of each kind,
    MaxLookups,                           \* numbered in the order they start
    ErasureKinds,   \* bound of the model: what a request asks for
    RequestIds,     \* request ids of erasures
    VectorBackend,  \* the drift backend is the vector store, not the bag of words
    Retained,       \* the kinds of data the tenant's policy gives a time to live
    MaxExemplars,   \* _dlp_semantic_max_exemplars
    MaxScan,        \* entries a search of the ledger reads, 5000 in the code
    MaxEntries,     \* bound of the model: entries of the ledger
    MaxDataFaults   \* bound of the model: calls of Redis that fail

Streams  == {<<"stream", n>> : n \in 1 .. MaxStreams}
Ingests  == {<<"ingest", n>> : n \in 1 .. MaxIngests}
Writers  == Streams \cup Ingests
Key(name) == <<name, 0>>
Text(w)  == w                             \* each writer brings one text, named by its writer
Texts    == {Text(w) : w \in Writers}
Named    == {Key(n) : n \in {"prompts", "vectors", "corpus", "global", "items", "meta"}}
Keys     == Named \cup Texts
Erasures == 1 .. MaxErasures
Lookups  == 1 .. MaxLookups

ASSUME TenantAssumption ==
    /\ MaxExemplars \in Nat \ {0} /\ MaxScan \in Nat \ {0} /\ MaxDataFaults \in Nat
    /\ VectorBackend \in BOOLEAN /\ Retained \subseteq {"prompts", "corpus", "content"}
    /\ MaxErasures \in Nat /\ MaxStreams \in Nat /\ MaxIngests \in Nat
    /\ ErasureKinds \subseteq [session : BOOLEAN, corpus : BOOLEAN, dlp : BOOLEAN,
                               refs : SUBSET Texts, objects : {"none", "allowed", "refused"}]

VARIABLES
    db,          \* each key: the writers whose data it holds; no writer, no key
    expires,     \* keys with a time to live
    stream,      \* each stream: [at, risky]
    ingest,      \* each ingest: [at, items]
    erasure,     \* each erasure: [at, ask, id, items, hurt, before, listed, during]
    lookup,      \* each search of a proof: [at, id, zero, index, answer]
    proofCache,  \* proof cache key of each request id: the erasure, or 0
    mapping,     \* proof_ledger_entry key of each request id: an index, or 0
    entries,     \* ledger list: 0, or the erasure an entry is the proof of
    sweep,       \* retention loop: [at, due], its place in SweepOrder
    dataFaults,  \* faults so far
    disturbed    \* request ids used by calls that overlapped, or by one that failed

tenantVars == <<db, expires, stream, ingest, erasure, lookup, proofCache, mapping,
                entries, sweep, dataFaults, disturbed>>
dataVars   == <<db, expires>>
proofVars  == <<proofCache, mapping, entries>>

NewErasure == [at |-> "new", ask |-> [session |-> FALSE], id |-> 0, items |-> {},
               hurt |-> FALSE, before |-> {}, listed |-> {}, during |-> {}]
NewLookup  == [at |-> "new", id |-> 0, zero |-> FALSE, index |-> 0, answer |-> 0]

TenantInit ==
    /\ db = [k \in Keys |-> {}] /\ expires = {}
    /\ stream = [s \in Streams |-> [at |-> "new", risky |-> FALSE]]
    /\ ingest = [i \in Ingests |-> [at |-> "new", items |-> {}]]
    /\ erasure = [e \in Erasures |-> NewErasure]
    /\ lookup = [l \in Lookups |-> NewLookup]
    /\ proofCache = [r \in RequestIds |-> 0] /\ mapping = [r \in RequestIds |-> 0]
    /\ entries = <<>>
    /\ sweep = [at |-> 1, due |-> FALSE]
    /\ dataFaults = 0 /\ disturbed = {}

Put(k, ws) == /\ db' = [db EXCEPT ![k] = ws]
              /\ expires' = IF ws = {} THEN expires \ {k} ELSE expires
Delete(ks) == /\ db' = [k \in Keys |-> IF k \in ks THEN {} ELSE db[k]]
              /\ expires' = expires \ ks
GiveTtl(k) == /\ expires' = IF db[k] = {} THEN expires ELSE expires \cup {k}
              /\ UNCHANGED db
CanFail    == dataFaults < MaxDataFaults /\ dataFaults' = dataFaults + 1
FirstNew(f, c) == /\ f[c].at = "new"
                  /\ \A d \in DOMAIN f : f[d].at = "new" => c[2] <= d[2]
Over(c)    == c.at \in {"done", "refused"}
Running(c) == c.at # "new" /\ ~Over(c)

(* The end Redis makes of a key with a time to live.                       *)
Lapse(k) == /\ k \in expires /\ Delete({k})
            /\ UNCHANGED <<stream, ingest, erasure, lookup, proofVars, sweep, dataFaults, disturbed>>

-----------------------------------------------------------------------------
(* The writers.  A stream adds its prompt to the session before the model  *)
(* is asked (stream_preflight); when the answer is over and found risky,   *)
(* it stores the text once and names it in two lists                       *)
(* (_finalize_governance_metadata).                                        *)
After(place, risky) ==
    CASE place = "prompts"    -> IF "prompts" \in Retained THEN "promptsTtl" ELSE "vectors"
      [] place = "promptsTtl" -> "vectors"
      [] place = "vectors"    -> IF risky THEN "text" ELSE "done"
      [] place = "text"       -> IF "content" \in Retained THEN "textTtl" ELSE "corpus"
      [] place = "textTtl"    -> "corpus"
      [] place = "corpus"     -> "global"
      [] place = "global"     -> IF "corpus" \in Retained THEN "corpusTtl" ELSE "done"
      [] place = "corpusTtl"  -> "globalTtl"
      [] place = "globalTtl"  -> "done"

StreamBegins(s) ==
    /\ FirstNew(stream, s)
    /\ \E risky \in BOOLEAN : stream' = [stream EXCEPT ![s] = [at |-> "prompts", risky |-> risky]]
    /\ UNCHANGED <<dataVars, ingest, erasure, lookup, proofVars, sweep, dataFaults, disturbed>>

TtlKey(s, place) == CASE place = "textTtl" -> Text(s) [] place = "corpusTtl" -> Key("corpus")
                      [] place = "globalTtl" -> Key("global") [] OTHER -> Key("prompts")
Giving == {"textTtl", "corpusTtl", "globalTtl", "promptsTtl"}

StreamWrites(s) ==
    LET place == stream[s].at IN
    /\ Running(stream[s])
    /\ \/ place = "text" /\ Put(Text(s), {s})
       \/ place \in Giving /\ GiveTtl(TtlKey(s, place))
       \/ place = "vectors" /\ ~VectorBackend /\ UNCHANGED dataVars
       \/ /\ place \in {"prompts", "corpus", "global"} \/ (place = "vectors" /\ VectorBackend)
          /\ Put(Key(place), db[Key(place)] \cup {s})
    /\ stream' = [stream EXCEPT ![s].at = After(place, stream[s].risky)]
    /\ UNCHANGED <<ingest, erasure, lookup, proofVars, sweep, dataFaults, disturbed>>

(* A command fails: the text and the times to live are a best effort, any  *)
(* other failure ends what the stream stores.                              *)
StreamFails(s) ==
    LET place == stream[s].at IN
    /\ Running(stream[s]) /\ CanFail
    /\ stream' = [stream EXCEPT ![s].at =
          IF place = "text" THEN "corpus"
          ELSE IF place \in Giving THEN After(place, stream[s].risky) ELSE "done"]
    /\ UNCHANGED <<dataVars, ingest, erasure, lookup, proofVars, sweep, disturbed>>

(* DlpSemanticStore.ingest: append reads the items first; the new ones are *)
(* those cut off beyond the limit; the text is stored before the items.    *)
AsCall(e) == <<"erasure", e>>
Joined(c) == [e \in Erasures |-> IF Running(erasure[e])
                 THEN [erasure[e] EXCEPT !.during = @ \cup {c}] ELSE erasure[e]]

IngestBegins(i) ==
    /\ FirstNew(ingest, i)
    /\ \E append \in BOOLEAN : ingest' = [ingest EXCEPT ![i] =
          [at |-> "text", items |-> IF append THEN db[Key("items")] ELSE {}]]
    /\ erasure' = Joined(i)
    /\ UNCHANGED <<dataVars, stream, lookup, proofVars, sweep, dataFaults, disturbed>>

Compiled(i) == IF Cardinality(ingest[i].items) < MaxExemplars
                 THEN ingest[i].items \cup {i} ELSE ingest[i].items

IngestWrites(i) ==
    LET place == ingest[i].at IN
    /\ Running(ingest[i])
    /\ \/ place = "text" /\ Put(Text(i), {i})
       \/ place = "textTtl" /\ GiveTtl(Text(i))
       \/ place = "items" /\ Put(Key("items"), Compiled(i))
       \/ place = "meta" /\ Put(Key("meta"), {i})
    /\ ingest' = [ingest EXCEPT ![i].at =
          CASE place = "text"    -> IF "content" \in Retained THEN "textTtl" ELSE "items"
            [] place = "textTtl" -> "items"
            [] place = "items"   -> "meta"
            [] OTHER             -> "done"]
    /\ UNCHANGED <<stream, erasure, lookup, proofVars, sweep, dataFaults, disturbed>>

IngestFails(i) ==
    /\ Running(ingest[i]) /\ CanFail
    /\ ingest' = [ingest EXCEPT ![i].at = IF @ \in {"text", "textTtl"} THEN "items" ELSE "done"]
    /\ UNCHANGED <<dataVars, stream, erasure, lookup, proofVars, sweep, disturbed>>

-----------------------------------------------------------------------------
(* retention_enforcer_loop: keys without a time to live get the tenant's.  *)
(* The corpus of all tenants and the exemplars are not among them.         *)
Kind(k)    == IF k \in Texts THEN "content" ELSE k[1]
SweepOrder == <<Key("prompts"), Key("corpus")>> \o [n \in 1 .. MaxStreams |-> Text(<<"stream", n>>)]
                                      \o [n \in 1 .. MaxIngests |-> Text(<<"ingest", n>>)]
Swept      == {k \in {Key("prompts"), Key("corpus")} \cup Texts : Kind(k) \in Retained}
SweptKey   == SweepOrder[sweep.at]
NewRound   == [at |-> 1, due |-> FALSE]    \* also a mutant: the cursor is lost with every key
SweepNext  == [at |-> (sweep.at % Len(SweepOrder)) + 1, due |-> FALSE]

SweepLooks ==
    /\ ~sweep.due
    /\ sweep' = IF db[SweptKey] # {} /\ SweptKey \notin expires /\ SweptKey \in Swept
                  THEN [sweep EXCEPT !.due = TRUE] ELSE SweepNext
    /\ UNCHANGED <<dataVars, stream, ingest, erasure, lookup, proofVars, dataFaults, disturbed>>

SweepGives ==
    /\ sweep.due /\ GiveTtl(SweptKey) /\ sweep' = SweepNext
    /\ UNCHANGED <<stream, ingest, erasure, lookup, proofVars, dataFaults, disturbed>>

(* An EXPIRE fails, and the loop goes on with the next key; or a SCAN      *)
(* does, which ends the round.                                             *)
SweepFails ==
    /\ CanFail
    /\ sweep' = NewRound \/ (sweep.due /\ sweep' = SweepNext)
    /\ UNCHANGED <<dataVars, stream, ingest, erasure, lookup, proofVars, disturbed>>

-----------------------------------------------------------------------------
(* The erasure: its steps in the order of the handler, each of them a best *)
(* effort, and those the request does not ask for left out.                *)
Path == <<"marker", "prompts", "anchor", "corpus", "load", "texts", "items", "refs",
          "objects", "cache", "entry", "mapping", "done">>

Asked(ask, place) ==
    CASE place \in {"prompts", "anchor"}         -> ask.session
      [] place = "corpus"                        -> ask.corpus
      [] place \in {"load", "texts", "items"}    -> ask.dlp
      [] place = "refs"                          -> ask.refs # {}
      [] place = "objects"                       -> ask.objects # "none"
      [] OTHER                                   -> TRUE

Onward(ask, place) ==
    LET here  == CHOOSE n \in 1 .. Len(Path) : Path[n] = place
        later == {n \in here + 1 .. Len(Path) : Asked(ask, Path[n])}
    IN  Path[CHOOSE n \in later : \A m \in later : n <= m]

OnTheId(r) == {e \in Erasures : Running(erasure[e]) /\ erasure[e].id = r}
SearchesOf(r) == {l \in Lookups : Running(lookup[l]) /\ lookup[l].id = r}

ErasureBegins(e, ask, r) ==
    /\ erasure[e].at = "new" /\ \A f \in 1 .. e - 1 : erasure[f].at # "new"
    /\ erasure' = [(IF ask.dlp THEN Joined(AsCall(e)) ELSE erasure) EXCEPT ![e] =
          [NewErasure EXCEPT !.at = "marker", !.ask = ask, !.id = r,
             !.before = {s \in Streams : Over(stream[s])} \cup {i \in Ingests : Over(ingest[i])},
             !.listed = db[Key("items")],
             !.during = {i \in Ingests : Running(ingest[i])} \cup
                        {AsCall(f) : f \in {g \in Erasures : Running(erasure[g]) /\ erasure[g].ask.dlp}}]]
    /\ disturbed' = IF OnTheId(r) # {} \/ SearchesOf(r) # {} THEN disturbed \cup {r} ELSE disturbed
    /\ UNCHANGED <<dataVars, stream, ingest, lookup, proofVars, sweep, dataFaults>>

(* The keys a step deletes.                                                *)
NoTexts(items) == {}     \* mutant: the references are matched without their tenant
TextsOf(items) == {Text(w) : w \in items}
Targets(e) ==
    CASE erasure[e].at = "prompts" -> {Key("prompts")}
      [] erasure[e].at = "anchor"  -> {Key(IF VectorBackend THEN "vectors" ELSE "prompts")}
      [] erasure[e].at = "corpus"  -> {Key("corpus")}
      [] erasure[e].at = "texts"   -> TextsOf(erasure[e].items)
      [] erasure[e].at = "items"   -> {Key("items"), Key("meta")}
      [] erasure[e].at = "refs"    -> erasure[e].ask.refs

Erases(e) ==
    /\ erasure[e].at \in {"prompts", "anchor", "corpus", "texts", "items", "refs"}
    /\ Delete(Targets(e))
    /\ erasure' = [erasure EXCEPT ![e].at = Onward(erasure[e].ask, @)]
    /\ UNCHANGED <<stream, ingest, lookup, proofVars, sweep, dataFaults, disturbed>>

LoadsItems(e) ==
    /\ erasure[e].at = "load"
    /\ erasure' = [erasure EXCEPT ![e].at = IF db[Key("items")] = {} THEN "items" ELSE "texts",
                                  ![e].items = db[Key("items")]]
    /\ UNCHANGED <<dataVars, stream, ingest, lookup, proofVars, sweep, dataFaults, disturbed>>

(* The objects of S3 come after the deletions: refusing them ends the      *)
(* request with an error, without a proof of what is already gone.         *)
ReachesObjects(e) ==
    /\ erasure[e].at = "objects"
    /\ erasure' = [erasure EXCEPT ![e].at = IF erasure[e].ask.objects = "refused"
                                              THEN "refused" ELSE Onward(erasure[e].ask, @)]
    /\ UNCHANGED <<dataVars, stream, ingest, lookup, proofVars, sweep, dataFaults, disturbed>>

(* What the handler writes of itself: the marker entry, the proof in the   *)
(* cache, the proof in the ledger and the index of that entry.             *)
RecordsProof(e) ==
    LET r == erasure[e].id IN
    /\ \/ /\ erasure[e].at = "marker" /\ entries' = Append(entries, 0)
          /\ UNCHANGED <<proofCache, mapping>>
       \/ /\ erasure[e].at = "cache" /\ proofCache' = [proofCache EXCEPT ![r] = e]
          /\ UNCHANGED <<entries, mapping>>
       \/ /\ erasure[e].at = "entry" /\ entries' = Append(entries, e)
          /\ UNCHANGED <<proofCache, mapping>>
       \/ /\ erasure[e].at = "mapping"
          /\ mapping' = [mapping EXCEPT ![r] = CHOOSE n \in DOMAIN entries : entries[n] = e]
          /\ UNCHANGED <<entries, proofCache>>
    /\ Len(entries') <= MaxEntries
    /\ erasure' = [erasure EXCEPT ![e].at = Onward(erasure[e].ask, @)]
    /\ UNCHANGED <<dataVars, stream, ingest, lookup, sweep, dataFaults, disturbed>>

(* A step fails, before or after Redis did the work, and the handler goes  *)
(* on.  After a failed load the exemplars stay; without a proof entry (or  *)
(* with the ledger's backlog full) there is no index either.               *)
ErasureFails(e) ==
    LET place == erasure[e].at IN
    /\ Running(erasure[e]) /\ place # "objects" /\ CanFail
    /\ IF place \in {"prompts", "anchor", "corpus", "texts", "items", "refs"}
         THEN UNCHANGED dataVars \/ Delete(Targets(e)) ELSE UNCHANGED dataVars
    /\ erasure' = [erasure EXCEPT ![e].hurt = TRUE,
          ![e].at = CASE place = "load"  -> Onward(erasure[e].ask, "items")
                      [] place = "entry" -> "done"
                      [] OTHER           -> Onward(erasure[e].ask, place)]
    /\ disturbed' = disturbed \cup {erasure[e].id}
    /\ UNCHANGED <<stream, ingest, lookup, proofVars, sweep>>

-----------------------------------------------------------------------------
(* get_rtbf_proof_payload: the cache, then the index, then a search of the *)
(* tail of the ledger, the newest first, which writes the index again.     *)
Window(n) == {k \in 1 .. n : k > n - MaxScan}
Matches(r) == {n \in DOMAIN entries : entries[n] # 0 /\ erasure[entries[n]].id = r}
Oldest(S)  == IF S = {} THEN 0 ELSE CHOOSE n \in S : \A m \in S : n <= m   \* mutant: the tail from its start
Newest(S)  == IF S = {} THEN 0 ELSE CHOOSE n \in S : \A m \in S : n >= m
Found(r)   == Newest(Matches(r) \cap Window(Len(entries)))
EntryAt(n) == IF n = 0 THEN 0 ELSE entries[n]

LookupGo(l, place, n, answer) ==
    lookup' = [lookup EXCEPT ![l].at = place, ![l].index = n, ![l].answer = answer]

LookupBegins(l, r, zero) ==
    /\ lookup[l].at = "new" /\ \A m \in 1 .. l - 1 : lookup[m].at # "new"
    /\ lookup' = [lookup EXCEPT ![l] = [NewLookup EXCEPT !.id = r, !.zero = zero,
          !.at = IF zero THEN "search" ELSE IF proofCache[r] # 0 THEN "done" ELSE "index",
          !.answer = IF zero THEN 0 ELSE proofCache[r]]]
    /\ disturbed' = IF OnTheId(r) # {} THEN disturbed \cup {r} ELSE disturbed
    /\ UNCHANGED <<dataVars, stream, ingest, erasure, proofVars, sweep, dataFaults>>

LookupReads(l) ==
    /\ \/ lookup[l].at = "index" /\ mapping[lookup[l].id] # 0
          /\ LookupGo(l, "done", 0, EntryAt(mapping[lookup[l].id]))
       \/ lookup[l].at = "index" /\ mapping[lookup[l].id] = 0 /\ LookupGo(l, "search", 0, 0)
       \/ lookup[l].at = "search"
          /\ LET n == Found(lookup[l].id)
             IN  LookupGo(l, IF n = 0 \/ lookup[l].zero THEN "done" ELSE "index again", n, EntryAt(n))
    /\ UNCHANGED <<dataVars, stream, ingest, erasure, proofVars, sweep, dataFaults, disturbed>>

LookupWritesBack(l) ==
    /\ lookup[l].at = "index again"
    /\ mapping' = [mapping EXCEPT ![lookup[l].id] = lookup[l].index]
    /\ LookupGo(l, "done", lookup[l].index, lookup[l].answer)
    /\ UNCHANGED <<dataVars, stream, ingest, erasure, proofCache, entries, sweep, dataFaults, disturbed>>

(* The cached proof reaches the end of its time to live.                   *)
CacheLapses(r) ==
    /\ proofCache[r] # 0 /\ proofCache' = [proofCache EXCEPT ![r] = 0]
    /\ UNCHANGED <<dataVars, stream, ingest, erasure, lookup, mapping, entries, sweep,
                   dataFaults, disturbed>>

(* An entry of someone else.                                               *)
OtherEntry ==
    /\ Len(entries) < MaxEntries /\ entries' = Append(entries, 0)
    /\ UNCHANGED <<dataVars, stream, ingest, erasure, lookup, proofCache, mapping, sweep,
                   dataFaults, disturbed>>

-----------------------------------------------------------------------------
SweepSteps == SweepLooks \/ SweepGives \/ SweepFails

TenantWrites ==
    \/ \E s \in Streams : StreamBegins(s) \/ StreamWrites(s) \/ StreamFails(s)
    \/ \E i \in Ingests : IngestBegins(i) \/ IngestWrites(i) \/ IngestFails(i)
    \/ \E k \in Keys : Lapse(k)

TenantErases ==
    \/ \E e \in Erasures, ask \in ErasureKinds, r \in RequestIds : ErasureBegins(e, ask, r)
    \/ \E e \in Erasures : Erases(e) \/ LoadsItems(e) \/ ReachesObjects(e) \/ RecordsProof(e)
                           \/ ErasureFails(e)

TenantSearches ==
    \/ \E l \in Lookups, r \in RequestIds, z \in BOOLEAN : LookupBegins(l, r, z)
    \/ \E l \in Lookups : LookupReads(l) \/ LookupWritesBack(l)
    \/ \E r \in RequestIds : CacheLapses(r)
    \/ OtherEntry

TenantNext == TenantWrites \/ SweepSteps \/ TenantErases \/ TenantSearches
TenantSpec == TenantInit /\ [][TenantNext]_tenantVars

-----------------------------------------------------------------------------
(* An erasure that meets no fault leaves nothing of what it was asked to   *)
(* erase: no prompt, vector or corpus line of a stream that ended before   *)
(* it began, and no exemplar or text of one that the items then named,     *)
(* unless one of two ran with it: an ingest, whose append writes the items *)
(* back that it read, or another erasure of exemplars, which may delete    *)
(* the items before this one has read them, and not all of their texts.    *)
(* The corpus of all tenants is outside this: no request deletes from it.  *)
ErasedIsGone == \A e \in Erasures :
    LET x == erasure[e] IN
    x.at = "done" /\ ~x.hurt =>
        /\ x.ask.session => db[Key("prompts")] \cap x.before = {} /\ db[Key("vectors")] \cap x.before = {}
        /\ x.ask.corpus  => db[Key("corpus")] \cap x.before = {}
        /\ x.ask.dlp /\ x.during = {} =>
              /\ db[Key("items")] \cap x.before = {}
              /\ \A w \in x.listed : db[Text(w)] = {}
        /\ \A w \in x.before : Text(w) \in x.ask.refs => db[Text(w)] = {}

(* The proof of the last erasure under a request id is what a search of it *)
(* answers, whether it comes from the cache, from the index, which a       *)
(* search writes too, or from the ledger, as long as the entry is in the   *)
(* part of the ledger that is read and no two calls on the id overlapped.  *)
LastOf(r) == {e \in Erasures : /\ erasure[e].at = "done" /\ erasure[e].id = r
                               /\ \A f \in Erasures : erasure[f].at = "done" /\ erasure[f].id = r
                                                        => f <= e}
ProofFound == \A r \in RequestIds \ disturbed : OnTheId(r) = {} =>
    \A e \in LastOf(r) :
        /\ proofCache[r] \in {0, e}
        /\ EntryAt(mapping[r]) = e
        /\ EntryAt(Found(r)) = e \/ \A n \in Window(Len(entries)) : entries[n] # e

(* Of the kinds the tenant's policy limits, no key that the retention loop *)
(* visits stays without an end for ever, whatever stream or ingest left it *)
(* so and whichever of the loop's own commands failed.                     *)
RetentionCatchesUp == \A k \in Swept : []<>(db[k] = {} \/ k \in expires)
=============================================================================
