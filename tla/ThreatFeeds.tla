---------------------------- MODULE ThreatFeeds ----------------------------
(***************************************************************************)
(* The versions of a tenant's threat intelligence feed, and the cache each *)
(* server process keeps of the one in force (ThreatIntelStore of           *)
(* chimera/threat_intel_store.py; the administrators call it through       *)
(* admin_security_routes.py, the risk engine through match).  Rules, list  *)
(* of versions and meta record are Redis keys without a lock: every call   *)
(* is a sequence of single commands, and the calls interleave.             *)
(***************************************************************************)
EXTENDS Naturals, Sequences, SequencesExt, FiniteSets

CONSTANTS
    FeedProcs,     \* server processes
    MaxFeedCalls,  \* bound of the model: calls, numbered in the order they start
    CallAt,        \* bound of the model: the process each call reaches
    MaxAtOnce,     \* bound of the model: calls that run at the same time
    Versions,      \* feed versions an ingest may name
    NoVersion,     \* no version
    CacheAge,      \* age from which a cache is not used, 30 seconds in the code
    IngestKinds,   \* bound of the model: how an ingest may be asked for, [mode, op]
    MaxFeedTime,   \* bound of the model: ticks of the clock
    MaxFeedFaults  \* bound of the model: errors in the best-effort list of versions

ASSUME FeedsAssumption ==
    /\ NoVersion \notin Versions
    /\ CallAt \in [1 .. MaxFeedCalls -> FeedProcs]
    /\ MaxFeedCalls \in Nat /\ MaxAtOnce \in Nat
    /\ CacheAge \in Nat \ {0} /\ MaxFeedTime \in Nat /\ MaxFeedFaults \in Nat
    /\ IngestKinds \subseteq [mode : {"append", "replace"}, op : {"ingest", "stage"}]

FeedCalls == 1 .. MaxFeedCalls   \* an ingest brings one rule, named after it

VARIABLES
    feedRules,     \* rules key of each version: the rule sets it holds, none or one
    versions,      \* versions key, the newest first
    meta,          \* meta key: [active, previous, staged]
    cache,         \* _THREAT_INTEL_CACHE of each process: [at, version, rules, full]
    call,          \* each call: [at, proc, op, version, new, meta, since]
    feedNow,       \* the time
    feedFaults,    \* faults so far
    everStored,    \* the rule sets each version ever held
    lastActive,    \* when each version was last in force
    wanted,        \* what the last write that activates put in force, and over what
    feedOverlap    \* two calls read the meta record before either wrote it

feedVars == <<feedRules, versions, meta, cache, call, feedNow, feedFaults,
              everStored, lastActive, wanted, feedOverlap>>

NoMeta  == [active |-> NoVersion, previous |-> NoVersion, staged |-> NoVersion]

(* A call at a place, before it reads the meta record.                     *)
CallOf(place, p, op, v, new, time) ==
    [at |-> place, proc |-> p, op |-> op, version |-> v, new |-> new, meta |-> NoMeta,
     since |-> time]

NewCall == CallOf("new", NoVersion, "load", NoVersion, {}, 0)
Over    == CallOf("done", NoVersion, "load", NoVersion, {}, 0)

FeedInit ==
    /\ feedRules = [v \in Versions |-> {}]
    /\ versions = <<>>
    /\ meta = NoMeta
    /\ cache = [p \in FeedProcs |-> [at |-> 0, version |-> NoVersion, rules |-> {}, full |-> FALSE]]
    /\ call = [k \in FeedCalls |-> NewCall]
    /\ feedNow = 0 /\ feedFaults = 0
    /\ everStored = [v \in Versions |-> {}]
    /\ lastActive = [v \in Versions |-> 0]
    /\ wanted = [active |-> NoVersion, over |-> NoVersion]
    /\ feedOverlap = FALSE

Shared == <<feedRules, versions, meta, cache, everStored, lastActive, wanted, feedOverlap>>

GoTo(k, place) == call' = [call EXCEPT ![k].at = place]

Usable(p) == cache[p].full /\ feedNow - cache[p].at < CacheAge

(* load_rules for a match: only when the cache is too old.                 *)
StartLoad(k, p) ==
    /\ call[k].at = "new" /\ ~Usable(p)
    /\ call' = [call EXCEPT ![k] = CallOf("meta", p, "load", NoVersion, {}, feedNow)]
    /\ UNCHANGED <<Shared, feedNow, feedFaults>>

(* ingest: "append" first loads the rules in force, "replace" does not.    *)
StartIngest(k, p, v, i) ==
    /\ call[k].at = "new"
    /\ call' = [call EXCEPT ![k] = CallOf(IF i.mode = "append" THEN "meta" ELSE "store",
                                         p, i.op, v, {k}, feedNow)]
    /\ UNCHANGED <<Shared, feedNow, feedFaults>>

Stored(v) == v \in Versions /\ feedRules[v] # {}

(* activate of a version that exists; of another it answers 404.           *)
StartActivate(k, p, v) ==
    /\ call[k].at = "new"
    /\ call' = [call EXCEPT ![k] = IF Stored(v) THEN CallOf("read", p, "activate", v, {}, 0)
                                               ELSE Over]
    /\ UNCHANGED <<Shared, feedNow, feedFaults>>

(* rollback: the version before, else the second of the list; 409 without  *)
(* one, 404 when its rules are not stored.                                 *)
StartRollback(k, p) ==
    /\ call[k].at = "new"
    /\ call' = [call EXCEPT ![k] = CallOf("target", p, "activate", meta.previous, {}, 0)]
    /\ UNCHANGED <<Shared, feedNow, feedFaults>>

RollbackTarget(k) ==
    /\ call[k].at = "target"
    /\ LET target == IF call[k].version # NoVersion THEN call[k].version
                     ELSE IF Len(versions) >= 2 THEN versions[2] ELSE NoVersion
       IN  call' = [call EXCEPT ![k] =
             IF Stored(target) THEN CallOf("read", call[k].proc, "activate", target, {}, 0)
                               ELSE Over]
    /\ UNCHANGED <<Shared, feedNow, feedFaults>>

(* GET of the meta record to change it; others may be about to write it.   *)
ReadMeta(k) ==
    /\ call[k].at = "read"
    /\ call' = [call EXCEPT ![k].at = "write", ![k].meta = meta]
    /\ feedOverlap' = (feedOverlap \/ \E o \in FeedCalls : call[o].at = "write")
    /\ UNCHANGED <<feedRules, versions, meta, cache, everStored, lastActive, wanted,
                   feedNow, feedFaults>>

NewMeta(k) ==
    LET m == call[k].meta v == call[k].version
    IN  IF call[k].op = "stage"
          THEN [active |-> m.active, previous |-> m.previous, staged |-> v]
          ELSE [active |-> v, previous |-> m.active,
                staged |-> IF call[k].op = "ingest" THEN NoVersion ELSE m.staged]

(* SET of the meta record.  A version goes out of force at this moment.    *)
WriteMeta(k) ==
    /\ call[k].at = "write"
    /\ meta' = NewMeta(k)
    /\ lastActive' = [v \in Versions |-> IF v \in {meta.active, meta'.active}
                                           THEN feedNow ELSE lastActive[v]]
    /\ wanted' = IF call[k].op = "stage" THEN wanted
                   ELSE [active |-> call[k].version, over |-> meta.active]
    /\ call' = [call EXCEPT ![k].at = IF call[k].op = "activate" THEN "list" ELSE "meta",
                            ![k].new = {}, ![k].since = feedNow]
    /\ UNCHANGED <<feedRules, versions, cache, everStored, feedOverlap, feedNow, feedFaults>>

(* SET of the rules key, over what the version held.                       *)
StoreRules(k) ==
    /\ call[k].at = "store"
    /\ feedRules' = [feedRules EXCEPT ![call[k].version] = {call[k].new}]
    /\ everStored' = [everStored EXCEPT ![call[k].version] = @ \cup {call[k].new}]
    /\ GoTo(k, "list")
    /\ UNCHANGED <<versions, meta, cache, lastActive, wanted, feedOverlap, feedNow, feedFaults>>

AfterList(k) == IF call[k].op = "activate" THEN "meta" ELSE "read"

SwallowFault == feedFaults < MaxFeedFaults /\ feedFaults' = feedFaults + 1

(* LREM of the version, on a best effort: an error skips the LPUSH too.    *)
ListVersion(k) ==
    /\ call[k].at = "list"
    /\ \/ /\ versions' = SelectSeq(versions, LAMBDA v : v # call[k].version)
          /\ GoTo(k, "push") /\ UNCHANGED feedFaults
       \/ SwallowFault /\ GoTo(k, AfterList(k)) /\ UNCHANGED versions
    /\ UNCHANGED <<feedRules, meta, cache, everStored, lastActive, wanted, feedOverlap,
                   feedNow>>

(* LPUSH of the version; an error leaves it off the list.                  *)
PushVersion(k) ==
    /\ call[k].at = "push"
    /\ \/ versions' = <<call[k].version>> \o versions /\ UNCHANGED feedFaults
       \/ SwallowFault /\ UNCHANGED versions
    /\ GoTo(k, AfterList(k))
    /\ UNCHANGED <<feedRules, meta, cache, everStored, lastActive, wanted, feedOverlap,
                   feedNow>>

(* Mutant of LoadedAt: the age counts from the end of the load. *)
LoadedLate(k) == feedNow

LoadedAt(k) == call[k].since
Loaded(k)   == IF call[k].meta.active = NoVersion THEN {} ELSE UNION feedRules[call[k].meta.active]

(* load_rules, forced or due: the clock was read first, then GET of meta.  *)
LoadMeta(k) ==
    /\ call[k].at = "meta"
    /\ call' = [call EXCEPT ![k].at = "rules", ![k].meta = meta]
    /\ UNCHANGED <<Shared, feedNow, feedFaults>>

(* GET of the rules of that version.  The load of an ingest that appends   *)
(* goes on with those rules and the new ones, any other call is over.      *)
LoadRules(k) ==
    /\ call[k].at = "rules"
    /\ cache' = [p \in FeedProcs |-> IF p # call[k].proc THEN cache[p] ELSE
         [at |-> LoadedAt(k), version |-> call[k].meta.active, rules |-> Loaded(k), full |-> TRUE]]
    /\ call' = IF call[k].new # {}
                 THEN [call EXCEPT ![k].at = "store", ![k].new = @ \cup Loaded(k)]
                 ELSE [call EXCEPT ![k] = Over]
    /\ UNCHANGED <<feedRules, versions, meta, everStored, lastActive, wanted, feedOverlap,
                   feedNow, feedFaults>>

FeedTick ==
    /\ feedNow < MaxFeedTime
    /\ feedNow' = feedNow + 1
    /\ lastActive' = [v \in Versions |-> IF v = meta.active THEN feedNow + 1 ELSE lastActive[v]]
    /\ UNCHANGED <<feedRules, versions, meta, cache, call, feedFaults, everStored, wanted,
                   feedOverlap>>

Idle(k) == call[k].at \in {"new", "done"}

FeedStart(k) == LET p == CallAt[k] IN
  /\ \A o \in 1 .. k - 1 : call[o].at # "new"
  /\ Cardinality({o \in FeedCalls : ~Idle(o)}) < MaxAtOnce
  /\ \/ StartLoad(k, p)
     \/ \E v \in Versions, i \in IngestKinds : StartIngest(k, p, v, i)
     \/ \E v \in Versions : StartActivate(k, p, v)
     \/ StartRollback(k, p)

FeedNext ==
    \/ \E k \in FeedCalls :
         FeedStart(k) \/ RollbackTarget(k) \/ ReadMeta(k) \/ WriteMeta(k) \/ StoreRules(k)
           \/ ListVersion(k) \/ PushVersion(k) \/ LoadMeta(k) \/ LoadRules(k)
    \/ FeedTick

FeedSpec == FeedInit /\ [][FeedNext]_feedVars

---------------------------------------------------------------------------
(* The rules a process matches with are those of a version in force.  The  *)
(* version in force has its rules stored.  A cache holds rules its version *)
(* had at some time, and while it is young enough to be used the version   *)
(* was in force at some moment since the cache was loaded, though it may   *)
(* have been replaced.  And the version in force is the one activated      *)
(* last, with the one it replaced as the version to go back to: staging,   *)
(* loading and failures change neither; only two calls that read the       *)
(* record before either wrote it can.                                      *)
FeedsInForce ==
    /\ meta.active # NoVersion => feedRules[meta.active] # {}
    /\ \A p \in FeedProcs :
         cache[p].full /\ cache[p].version # NoVersion =>
           /\ cache[p].rules \in everStored[cache[p].version]
           /\ lastActive[cache[p].version] >= cache[p].at
    /\ ~feedOverlap => meta.active = wanted.active /\ meta.previous = wanted.over

(* What the property rests on.  The records have their form, a version     *)
(* has one rule set and keeps the past ones in everStored.                 *)
AVersion == Versions \cup {NoVersion}
Metas    == [active : AVersion, previous : AVersion, staged : AVersion]
FeedPlaces == {"new", "target", "read", "write", "store", "list", "push", "meta", "rules", "done"}

CallStates == [at : FeedPlaces, proc : FeedProcs \cup {NoVersion},
               op : {"load", "ingest", "stage", "activate"}, version : AVersion,
               new : SUBSET FeedCalls, meta : Metas, since : Nat]
Caches == [at : Nat, version : AVersion, rules : SUBSET FeedCalls, full : BOOLEAN]

FeedTypeOK ==
    /\ feedRules \in [Versions -> SUBSET SUBSET FeedCalls]
    /\ meta \in Metas
    /\ cache \in [FeedProcs -> Caches]
    /\ call \in [FeedCalls -> CallStates]
    /\ feedNow \in Nat
    /\ everStored \in [Versions -> SUBSET SUBSET FeedCalls]
    /\ lastActive \in [Versions -> Nat]
    /\ wanted \in [active : AVersion, over : AVersion]
    /\ feedOverlap \in BOOLEAN

OneRuleSet == \A v \in Versions :
    feedRules[v] \subseteq everStored[v] /\ \A r, s \in feedRules[v] : r = s

(* A version that a call is to put in force, or found in force, is stored. *)
CallFits(c) ==
    /\ c.at \in {"read", "write", "list", "push"} => Stored(c.version)
    /\ c.at = "store" \/ c.new # {} => c.version \in Versions
    /\ c.meta.active # NoVersion => Stored(c.meta.active)
    /\ c.since <= feedNow
    /\ c.at \in {"new", "done"} \/ c.proc \in FeedProcs
    /\ c.at = "rules" /\ c.meta.active # NoVersion => lastActive[c.meta.active] >= c.since

CallsFit == \A k \in FeedCalls : CallFits(call[k])

LastInForce ==
    /\ \A v \in Versions : lastActive[v] <= feedNow
    /\ meta.active # NoVersion => Stored(meta.active) /\ lastActive[meta.active] = feedNow

(* Without two at once the one call about to write knows the record.       *)
WritesAlone == ~feedOverlap =>
    \A k, o \in FeedCalls : call[k].at = "write" =>
      call[k].meta = meta /\ (call[o].at = "write" => k = o)

FeedInv == FeedTypeOK /\ OneRuleSet /\ CallsFit /\ LastInForce /\ WritesAlone /\ FeedsInForce
=============================================================================
