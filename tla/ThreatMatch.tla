----------------------------- MODULE ThreatMatch -----------------------------
(***************************************************************************)
(* Matching a text against the threat intelligence feed in force (match    *)
(* and the two indexes of chimera/threat_intel_store.py).  A match may     *)
(* look at max_checked rules and stops early after enough hits, so what it *)
(* answers depends on the order in which it visits the rules: the hashed   *)
(* ones, by word count and window of words, then the plaintext ones, all   *)
(* of a small feed, those that share the most trigrams with the text of a  *)
(* large one.                                                              *)
(*                                                                         *)
(* Texts and indicators are normalised: sequences of characters, words set *)
(* apart by one blank.  A score is confidence times severity, in           *)
(* hundredths.  Two caps that only long indicators and texts reach, 256    *)
(* trigrams of an indicator and 20000 windows, are left out.               *)
(***************************************************************************)
EXTENDS Integers, Sequences, FiniteSets

CONSTANTS
    Rules,       \* what an ingest may append: [id, phrase, hashed, score, brief]
    MaxRules,    \* bound of the model: rules of the feed, 500000 in the code
    Characters,  \* bound of the model: what a text is made of, " " included
    MaxChars,    \* bound of the model: length of the text
    MaxChecked,  \* max_checked, 500 in the code
    MaxHits,     \* max_hits, 10 in the code
    MaxGrams     \* trigrams of the text that count, 1500 in the code

RuleOK(r) == /\ r.score \in 0 .. 100 /\ r.hashed \in BOOLEAN /\ r.brief \in BOOLEAN
             /\ r.phrase \in Seq(Characters) \ {<<>>}

ASSUME MatchAssumption ==
    /\ MaxRules \in Nat /\ MaxChars \in Nat
    /\ MaxChecked \in Nat \ {0} /\ MaxHits \in Nat \ {0} /\ MaxGrams \in Nat
    /\ \A r \in Rules : RuleOK(r)

VARIABLES
    feed,  \* the rules of the version in force, in their order
    said,  \* the text so far
    late   \* have the brief rules expired?

matchVars == <<feed, said, late>>

Live(r) == ~(late /\ r.brief)
Words(s) == 1 + Cardinality({i \in 1 .. Len(s) : s[i] = " "})
At(s, i) == i + Len(s) - 1 <= Len(said) /\ SubSeq(said, i, i + Len(s) - 1) = s
WordsAt(s, i) == /\ At(s, i)
                 /\ i = 1 \/ said[i - 1] = " "
                 /\ i + Len(s) > Len(said) \/ said[i + Len(s)] = " "
Occurs(r) == \E i \in 1 .. Len(said) : IF r.hashed THEN WordsAt(r.phrase, i) ELSE At(r.phrase, i)

-----------------------------------------------------------------------------
(* A match in progress; "stop" leaves the positions of one window.         *)
Start     == [checked |-> 0, hits |-> <<>>, best |-> 0, stop |-> FALSE]
Full(m)   == Len(m.hits) >= MaxHits /\ m.best >= 99
Spent(m)  == m.checked >= MaxChecked
Seen(m, p) == \E h \in 1 .. Len(m.hits) : feed[m.hits[h]].id = feed[p].id
Hit(m, p) == LET hits == Append(m.hits, p)
                 best == IF feed[p].score > m.best THEN feed[p].score ELSE m.best
             IN  [m EXCEPT !.hits = hits, !.best = best, !.stop = Len(hits) >= MaxHits /\ best >= 99]

(* _build_hashed_indicator_index: a word count comes where its first rule  *)
(* is in the feed, and has the hashed rules of that count.                 *)
Leads(first) ==
    /\ feed[first].hashed
    /\ \A q \in 1 .. first - 1 : feed[q].hashed => Words(feed[q].phrase) # Words(feed[first].phrase)

(* Is the rule under the hash of the window of n words at character i?     *)
InBucket(p, n, i) == feed[p].hashed /\ Words(feed[p].phrase) = n /\ WordsAt(feed[p].phrase, i)

VisitHashed(m, p) ==
    IF Spent(m) \/ m.stop \/ ~Live(feed[p]) \/ Seen(m, p) THEN m
    ELSE [Hit(m, p) EXCEPT !.checked = m.checked + 1]

MatchWindow(m, n, i) ==
    LET match[p \in 0 .. Len(feed)] ==
          IF p = 0 THEN [m EXCEPT !.stop = FALSE]
          ELSE IF InBucket(p, n, i) THEN VisitHashed(match[p - 1], p) ELSE match[p - 1]
    IN  match[Len(feed)]

MatchWindows(m, n) ==
    LET match[i \in 0 .. Len(said)] == IF i = 0 THEN m ELSE MatchWindow(match[i - 1], n, i)
    IN  match[Len(said)]

Hashed ==
    LET match[p \in 0 .. Len(feed)] ==
          IF p = 0 THEN Start
          ELSE IF Leads(p) THEN MatchWindows(match[p - 1], Words(feed[p].phrase)) ELSE match[p - 1]
    IN  match[Len(feed)]

(* _extract_ngrams: the trigrams of an indicator, and where each trigram   *)
(* of the text that counts begins first.                                   *)
GramAt(s, i) == SubSeq(s, i, i + 2)
GramsOf(s) == {GramAt(s, i) : i \in 1 .. Len(s) - 2}
Starts     == {i \in 1 .. Len(said) - 2 : \A j \in 1 .. i - 1 : GramAt(said, j) # GramAt(said, i)}
Grams      == LET starts == Starts IN {i \in starts : Cardinality({j \in starts : j < i}) < MaxGrams}
Shared(p) == IF feed[p].hashed THEN {}
             ELSE {i \in Grams : GramAt(said, i) \in GramsOf(feed[p].phrase)}

Earliest(p) == CHOOSE i \in Shared(p) : \A j \in Shared(p) : i <= j
More(p, q) == LET np == Cardinality(Shared(p)) nq == Cardinality(Shared(q))
              IN  \/ np > nq
                  \/ np = nq /\ Earliest(p) < Earliest(q)
                  \/ np = nq /\ Earliest(p) = Earliest(q) /\ p < q

(* Mutant of Ranks: the ones that share the fewest come first. *)
RanksLast(p, q) == More(q, p)

Ranks(p, q) == More(p, q)

(* The candidates of rank k, one at most.                                  *)
Small        == Len(feed) <= MaxChecked
Candidate(p) == Small \/ Shared(p) # {}
RankOf(p)    == IF Small THEN p
                ELSE 1 + Cardinality({q \in 1 .. Len(feed) : Candidate(q) /\ Ranks(q, p)})
Ranked(k)    == {p \in 1 .. Len(feed) : Candidate(p) /\ RankOf(p) = k}

(* A plaintext rule costs a check whether it is hit or not.                *)
VisitPlain(m, p) ==
    LET a == [m EXCEPT !.checked = m.checked + 1]
    IN  IF Live(feed[p]) /\ ~feed[p].hashed /\ Occurs(feed[p]) THEN Hit(a, p) ELSE a

VisitRank(m, k) ==
    IF Spent(m) \/ Full(m) THEN m
    ELSE LET ranked == Ranked(k)
         IN  IF ranked = {} THEN m ELSE VisitPlain(m, CHOOSE p \in ranked : TRUE)

PlainAfter(hashed) ==
    LET match[k \in 0 .. MaxChecked] ==
          IF k = 0 THEN hashed
          ELSE VisitRank(match[k - 1], k)
    IN  match[MaxChecked]

Match == LET hashed == Hashed
         IN  IF Full(hashed) THEN [hashed EXCEPT !.hits = SubSeq(@, 1, MaxHits)] ELSE PlainAfter(hashed)

-----------------------------------------------------------------------------
MatchInit == feed = <<>> /\ said = <<>> /\ late = FALSE

(* Ingest of one more rule, in append mode.                                *)
AppendRule(r) ==
    /\ said = <<>> /\ ~late /\ Len(feed) < MaxRules
    /\ feed' = Append(feed, r)
    /\ UNCHANGED <<said, late>>

(* The stream goes on.                                                     *)
Say(c) ==
    /\ feed # <<>> /\ Len(said) < MaxChars
    /\ c = " " => said # <<>> /\ said[Len(said)] # " "
    /\ said' = Append(said, c)
    /\ UNCHANGED <<feed, late>>

Expire == ~late /\ feed # <<>> /\ late' = TRUE /\ UNCHANGED <<feed, said>>

MatchNext == (\E r \in Rules : AppendRule(r)) \/ (\E c \in Characters : Say(c)) \/ Expire

MatchSpec == MatchInit /\ [][MatchNext]_matchVars

-----------------------------------------------------------------------------
(* What a match reports is there: rules that have not expired and occur in *)
(* the text.  And nothing worse is there, whatever the order of the visit: *)
(* a rule that occurs has at most the score reported, but for a match that *)
(* stopped early with the highest score, a hashed rule whose id was hit    *)
(* before, and the budget.  The budget goes to the hashed rules that       *)
(* occur; then, in a feed that fits into it, to the rules in their order;  *)
(* in a larger one, to the rules that share at least as many trigrams with *)
(* the text, and only indicators of three characters have one to share.    *)
MatchesAreBest ==
    LET m      == Match
        there  == {p \in 1 .. Len(feed) : Live(feed[p]) /\ Occurs(feed[p])}
        hashed == {p \in there : feed[p].hashed}
        Passed(p) ==
            IF feed[p].hashed THEN Seen(m, p) \/ Cardinality(hashed) > MaxChecked
            ELSE IF Small THEN Cardinality(hashed) + p > MaxChecked
            ELSE \/ Len(feed[p].phrase) < 3 \/ Cardinality(Starts) > MaxGrams
                 \/ Cardinality(hashed)
                    + Cardinality({q \in 1 .. Len(feed) \ {p} :
                           Shared(q) # {} /\ Cardinality(Shared(q)) >= Cardinality(Shared(p))})
                      >= MaxChecked
    IN  /\ \A h \in 1 .. Len(m.hits) : m.hits[h] \in there
        /\ m.best # 0 => \E p \in there : feed[p].score = m.best
        /\ Full(m) \/ \A p \in there : feed[p].score <= m.best \/ Passed(p)
=============================================================================
