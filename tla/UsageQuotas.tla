---------------------------- MODULE UsageQuotas ----------------------------
(***************************************************************************)
(* Usage quotas (chimera/usage_runtime.py, called by openai_sse_stream in  *)
(* streaming_runtime.py).  A stream counts its prompt on four counters of  *)
(* its tenant, of the minute, the day and the month it began in, in one    *)
(* MULTI with their times to live, and then looks whether one is above its *)
(* limit; when it ends it counts its completion on the counters it began   *)
(* with.  Time goes by minutes; a day and a month have a few of them.      *)
(***************************************************************************)
EXTENDS Integers, FiniteSets

CONSTANTS
    MaxStreams,       \* bound of the model: streams of one tenant, in the order they begin
    PromptTokens,     \* token estimates of a prompt, 0 for an empty one
    CompletionTokens, \* token estimates of a completion
    QuotaBaseline,    \* usage_quotas of the default policy, by counter
    QuotaPolicies,    \* usage_quotas a tenant policy may have, by counter
    Unset,            \* the policy does not name the counter
    MinutesPerDay,    \* bound of the model: minutes of a day
    DaysPerMonth,     \* bound of the model: days of a month
    MaxMinutes        \* bound of the model: minutes that pass

Streams == 1 .. MaxStreams
Counters == {"rpm", "tpm", "day", "month"}

ASSUME QuotasAssumption ==
    /\ MaxStreams \in Nat
    /\ PromptTokens \subseteq Nat /\ CompletionTokens \subseteq Nat
    /\ Unset \notin Int
    /\ QuotaBaseline \in [Counters -> Int]
    /\ \A p \in QuotaPolicies : DOMAIN p = Counters /\ \A c \in Counters : p[c] \in Int \cup {Unset}
    /\ MinutesPerDay \in Nat \ {0} /\ DaysPerMonth \in Nat \ {0} /\ MaxMinutes \in Nat

VARIABLES
    quotaPolicy,  \* the policy of the tenant
    minute,       \* the time
    counter,      \* the counters in Redis, by name and window: [n, until]
    stream        \* each stream: [at, began, prompt]

quotaVars == <<quotaPolicy, minute, counter, stream>>

(* get_usage_quotas: the policy over the baseline, nothing below zero.     *)
Limit(c) ==
    LET v == IF quotaPolicy[c] = Unset THEN QuotaBaseline[c] ELSE quotaPolicy[c]
    IN  IF v < 0 THEN 0 ELSE v

(* _keys: the window of a counter that a minute falls in.                  *)
Window(c, m) ==
    CASE c = "day"   -> m \div MinutesPerDay
      [] c = "month" -> m \div (MinutesPerDay * DaysPerMonth)
      [] OTHER       -> m

(* Mutant of TimeToLive: the month is given its own length. *)
AMonth(c) ==
    CASE c = "day"   -> 2 * MinutesPerDay
      [] c = "month" -> DaysPerMonth * MinutesPerDay - 1
      [] OTHER       -> 2

(* The times to live: two minutes, two days, and a few days more than a    *)
(* month.                                                                  *)
TimeToLive(c) ==
    CASE c = "day"   -> 2 * MinutesPerDay
      [] c = "month" -> (DaysPerMonth + 1) * MinutesPerDay
      [] OTHER       -> 2

Forever == -1   \* no time to live
Absent  == [n |-> 0, until |-> 0]
Keys == Counters \X (0 .. MaxMinutes)

QuotaInit ==
    /\ quotaPolicy \in QuotaPolicies
    /\ minute = 0
    /\ counter = [k \in Keys |-> Absent]
    /\ stream = [q \in Streams |-> [at |-> "new", began |-> 0, prompt |-> 0]]

(* INCR and EXPIRE of the four keys.                                       *)
Amount(c, tokens) == IF c = "rpm" THEN 1 ELSE tokens

Reserved(tokens) ==
    [k \in Keys |->
        IF k[2] = Window(k[1], minute)
          THEN [n |-> counter[k].n + Amount(k[1], tokens), until |-> minute + TimeToLive(k[1])]
          ELSE counter[k]]

Exceeds(c, n) == Limit(c) > 0 /\ n > Limit(c)

Begins(q) == stream[q].at = "new" /\ \A o \in 1 .. q - 1 : stream[o].at # "new"

(* reserve_usage_or_raise: all four are counted, then tested; nothing that *)
(* was counted is taken back when the answer is 429.                       *)
Reserve(q, tokens) ==
    /\ Begins(q)
    /\ counter' = Reserved(tokens)
    /\ stream' = IF \E c \in Counters : Exceeds(c, counter'[<<c, Window(c, minute)>>].n)
                   THEN [stream EXCEPT ![q].at = "refused"]
                   ELSE [stream EXCEPT ![q] = [at |-> "runs", began |-> minute, prompt |-> tokens]]
    /\ UNCHANGED <<quotaPolicy, minute>>

(* The MULTI ran and its reply was lost: the stream fails, it is counted.  *)
ReserveRaises(q, tokens) ==
    /\ Begins(q)
    /\ counter' = Reserved(tokens)
    /\ stream' = [stream EXCEPT ![q].at = "refused"]
    /\ UNCHANGED <<quotaPolicy, minute>>

(* add_completion_usage: nothing for an empty completion; else INCR of the *)
(* keys the stream began with, and of an expired one a new key that has no *)
(* time to live.                                                           *)
Complete(q, tokens) ==
    /\ stream[q].at = "runs"
    /\ counter' = [k \in Keys |->
         IF tokens > 0 /\ k[1] # "rpm" /\ k[2] = Window(k[1], stream[q].began)
           THEN [n |-> counter[k].n + tokens,
                 until |-> IF counter[k] = Absent THEN Forever ELSE counter[k].until]
           ELSE counter[k]]
    /\ stream' = [stream EXCEPT ![q].at = "done"]
    /\ UNCHANGED <<quotaPolicy, minute>>

(* A key expires in the minute its time to live ends.                      *)
KeyExpires(k) ==
    /\ counter[k] # Absent
    /\ counter[k].until = minute
    /\ counter' = [counter EXCEPT ![k] = Absent]
    /\ UNCHANGED <<quotaPolicy, minute, stream>>

QuotaTick ==
    /\ minute < MaxMinutes
    /\ \A k \in Keys : counter[k] # Absent => counter[k].until # minute
    /\ minute' = minute + 1
    /\ UNCHANGED <<quotaPolicy, counter, stream>>

QuotaNext ==
    \/ \E q \in Streams : \/ \E t \in PromptTokens : Reserve(q, t) \/ ReserveRaises(q, t)
                          \/ \E t \in CompletionTokens : Complete(q, t)
    \/ \E k \in Keys : KeyExpires(k)
    \/ QuotaTick

---------------------------------------------------------------------------
LetThrough(q) == stream[q].at \in {"runs", "done"}

(* The sums of the first streams' shares, and what the streams that were   *)
(* let through in a window have of a counter.                              *)
Sums(share) ==
    LET upTo[q \in 0 .. MaxStreams] == IF q = 0 THEN 0 ELSE upTo[q - 1] + share[q] IN upTo
Shares(c, w) ==
    [q \in Streams |-> IF LetThrough(q) /\ Window(c, stream[q].began) = w
                         THEN Amount(c, stream[q].prompt) ELSE 0]
Total(c, w) == Sums(Shares(c, w))[MaxStreams]

(* What the counters are for.  In no minute, day or month do the streams   *)
(* that were let through have more requests or prompt tokens than the      *)
(* limit of the window, however they interleave with completions, refused  *)
(* ones and counters that expire.  A counter loses its time to live only   *)
(* when its window is over, so none that enforces a limit stays for ever.  *)
QuotasHold ==
    /\ \A q \in Streams, c \in Counters : LetThrough(q) /\ Limit(c) > 0 =>
          Total(c, Window(c, stream[q].began)) <= Limit(c)
    /\ \A k \in Keys : counter[k].until = Forever => k[2] < Window(k[1], minute)

QuotaSpec == QuotaInit /\ [][QuotaNext]_quotaVars

(* The inductive invariant.  The counter of a window that is not over has  *)
(* at least what was let through in it and lives longer than the window;   *)
(* nothing is let through in a window that has not begun.                  *)
WindowEnds(c, w) ==
    CASE c = "day"   -> (w + 1) * MinutesPerDay
      [] c = "month" -> (w + 1) * (MinutesPerDay * DaysPerMonth)
      [] OTHER       -> w + 1

QuotaTypeOK ==
    /\ quotaPolicy \in QuotaPolicies
    /\ minute \in 0 .. MaxMinutes
    /\ counter \in [Keys -> [n : Nat, until : Nat \cup {Forever}]]
    /\ stream \in [Streams -> [at : {"new", "refused", "runs", "done"},
                               began : 0 .. MaxMinutes, prompt : Nat]]

QuotaInv ==
    /\ QuotaTypeOK
    /\ \A q \in Streams : stream[q].began <= minute
    /\ \A q \in Streams, c \in Counters :
          LetThrough(q) /\ Window(c, stream[q].began) = Window(c, minute)
            => counter[<<c, Window(c, minute)>>] # Absent
    /\ \A k \in Keys : k[2] >= Window(k[1], minute) =>
          /\ Total(k[1], k[2]) <= counter[k].n
          /\ counter[k] # Absent => counter[k].until >= WindowEnds(k[1], k[2])
    /\ \A k \in Keys : Limit(k[1]) > 0 => Total(k[1], k[2]) <= Limit(k[1])
=============================================================================
