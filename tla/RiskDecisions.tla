---------------------------- MODULE RiskDecisions ----------------------------
(***************************************************************************)
(* What the gateway decides of one answer while it streams: the axes of    *)
(* risk (chimera/risk_components.py, compute_risk_for_prompt of            *)
(* apex_engine.py), the decision on each chunk (evaluate_risk of           *)
(* risk_decisions.py under the policy read when the stream began), and the *)
(* second assessment that is recorded when the answer is complete          *)
(* (compute_unified_risk, under the policy of that moment).                *)
(*                                                                         *)
(* Every classifier asks which phrases the normalised text contains, so a  *)
(* text is a set of phrases, one or two for each list of the source;       *)
(* "long" stands for its length.  A longer text may have fewer of them: a  *)
(* pattern ends at a word boundary, and a phrase of several words is found *)
(* only in the base64 text that is decoded when there is no other, since   *)
(* the blanks between words are dropped.  Scores are thousandths, rounded  *)
(* down.  What other stores say (threat intelligence, semantic DLP, drift  *)
(* against the session) is of each text anew, and of one text it may       *)
(* change while they do.                                                   *)
(***************************************************************************)
EXTENDS Integers, FiniteSets, FiniteSetsExt

CONSTANTS
    Phrases,       \* bound of the model: the phrases that occur
    MaxPhrases,    \* bound of the model: how many an answer contains
    Facts,         \* what the other stores say: [intel, semantic, drift]
    SidecarScores, \* bound of the model: answers of the neural sidecar
    FailOpen       \* APEX_NEURAL_SAFETY_FAIL_OPEN

ASSUME RiskAssumption ==
    /\ MaxPhrases \in Nat /\ FailOpen \in BOOLEAN
    /\ Facts \subseteq [intel : 0 .. 1000, semantic : 0 .. 1000, drift : 0 .. 1000]
    /\ SidecarScores \subseteq [injection : 0 .. 1000, toxicity : 0 .. 1000]

VARIABLES
    answer,        \* the phrases of the answer so far
    facts,         \* what the other stores say of it now
    judgedOn,      \* what they said of it when it was judged
    policyRead,    \* the policy the stream decides under
    policyInForce, \* the policy of the tenant
    verdict,       \* of the last chunk
    assessed       \* the second assessment

riskVars == <<answer, facts, judgedOn, policyRead, policyInForce, verdict, assessed>>

Clamp(n)  == IF n > 1000 THEN 1000 ELSE n
Larger(m, n) == IF m > n THEN m ELSE n
Sum(text, weight) == MapThenSumSet(LAMBDA p : weight[p], text \cap DOMAIN weight)
Contains(text, terms) == text \cap terms # {}

(* The lists of the source.                                                *)
PiiPatterns    == {"email", "phone"}
JailbreakTerms == {"ignore_previous_instructions", "system_prompt", "dan"}
GroomingTerms  == {"how_old_are_you"}
ToxicTerms     == {"idiot", "kill_yourself"}
Steps          == {"how_to", "ignore_previous_instructions"}
Evasion        == {"ignore_previous_instructions", "system_prompt"}
DlpWeight ==
    [p \in {"insider", "wire_transfer", "password", "malware", "how_old_are_you"} |->
        CASE p = "insider" -> 650 [] p = "wire_transfer" -> 450 [] p = "password" -> 250
          [] p = "malware" -> 350 [] p = "how_old_are_you" -> 200]
InjectionWeight ==
    [p \in {"ignore_previous_instructions", "system_prompt"} |-> IF p = "system_prompt" THEN 400 ELSE 550]
ToxicityWeight == [p \in {"idiot", "kill_yourself"} |-> IF p = "idiot" THEN 250 ELSE 950]
CoarseWeight ==
    [p \in {"ignore_previous_instructions", "system_prompt", "malware", "kill_yourself", "how_old_are_you"} |->
        CASE p = "ignore_previous_instructions" -> 550 [] p = "system_prompt" -> 450
          [] p = "malware" -> 750 [] p = "kill_yourself" -> 1000 [] p = "how_old_are_you" -> 250]

(* Three of the templates a tenant's policy starts from: thresholds and    *)
(* weights, in thousandths and hundredths.                                 *)
Thresholds(pii, jailbreak, grooming, dlp) ==
    [pii |-> pii, jailbreak |-> jailbreak, grooming |-> grooming, toxicity |-> 0, dlp |-> dlp]
BaselineWeights ==
    [pii |-> 100, jailbreak |-> 120, grooming |-> 80, toxicity |-> 50, drift |-> 30, dlp |-> 90, semantic |-> 100]
DefaultPolicy ==
    [mode |-> "block", unified |-> 650, thresholds |-> Thresholds(200, 300, 300, 0), weights |-> BaselineWeights]
FinancePolicy ==
    [mode |-> "block", unified |-> 750, thresholds |-> Thresholds(100, 200, 300, 250), weights |-> BaselineWeights]
DadbotPolicy ==
    [mode |-> "redact", unified |-> 600, thresholds |-> Thresholds(250, 250, 350, 300),
     weights |-> [pii |-> 120, jailbreak |-> 70, grooming |-> 80, toxicity |-> 60, drift |-> 40,
                  dlp |-> 100, semantic |-> 100]]
Templates == {DefaultPolicy, FinancePolicy, DadbotPolicy}

-----------------------------------------------------------------------------
(* The axes.                                                               *)
Count(text, terms, each) == Clamp(each * Cardinality(text \cap terms))

Dlp(text) ==
    LET score == Sum(text, DlpWeight)
    IN  Clamp(IF Contains(text, Steps) THEN (score * 115) \div 100 ELSE score)

Axes(text, f) ==
    [pii       |-> Count(text, PiiPatterns, 350),
     jailbreak |-> Larger(Count(text, JailbreakTerms, 250), f.intel),
     grooming  |-> Count(text, GroomingTerms, 250),
     toxicity  |-> Count(text, ToxicTerms, 350),
     dlp       |-> Dlp(text),
     semantic  |-> f.semantic,
     drift     |-> f.drift,
     context   |-> IF "long" \in text THEN 1000 ELSE 0]

(* The weighted sum, and the multipliers: 1 + context / 5, and constants   *)
(* whose product is 1.751.                                                 *)
Multiplied(severity, context)   == (((severity * (1000 + context \div 5)) \div 1000) * 1751) \div 1000
Tony(x, w) ==
    Multiplied((x.pii * w.pii + x.jailbreak * w.jailbreak + x.grooming * w.grooming
                + x.toxicity * w.toxicity + x.drift * w.drift + x.dlp * w.dlp
                + x.semantic * w.semantic) \div 100, x.context)

(* evaluate_risk: an axis decides if its threshold is above zero; the      *)
(* semantic axis has a threshold in the policy and none here.              *)
Reached(x, t) == {a \in DOMAIN t : t[a] > 0 /\ x[a] >= t[a]}
EvaluateRisk(x, p) ==
    IF Reached(x, p.thresholds) # {} \/ Tony(x, p.weights) >= p.unified THEN "BLOCK" ELSE "PASS"

(* stream_llm_with_risk asks the PII axis once more, in block mode.        *)
Decision(text, f, p) ==
    LET x == Axes(text, f)
    IN  IF p.mode = "block" /\ x.pii >= p.thresholds.pii THEN "BLOCK" ELSE EvaluateRisk(x, p)

-----------------------------------------------------------------------------
(* The second assessment: a coarse classifier first, ...                   *)
CoarseRisk(text) ==
    LET matched == text \cap DOMAIN CoarseWeight
        score   == Sum(text, CoarseWeight)
                   + (IF "password" \in text THEN 250 ELSE 0)
                   + (IF Contains(text, Evasion) THEN 300 ELSE 0)
                   + (IF Contains(text, Steps) THEN 50 ELSE 0)
                   + (IF "long" \in text THEN 50 ELSE 0)
    IN  Clamp(IF Cardinality(matched) > 1 THEN score + 50 * (Cardinality(matched) - 1) ELSE score)

(* ... then the neural one: phrases, or a sidecar in remote mode, whose    *)
(* failure falls back on the phrases and, where they find nothing, on what *)
(* the operator chose.                                                     *)
Local(text) ==
    [injection |-> Clamp(Clamp(Sum(text, InjectionWeight)) + IF Contains(text, Evasion) THEN 150 ELSE 0),
     toxicity  |-> LET score == Clamp(Sum(text, ToxicityWeight))
                   IN  IF "kill_yourself" \in text THEN Larger(score, 900) ELSE score]
Nothing    == [injection |-> 0, toxicity |-> 0]
Everything == [injection |-> 1000, toxicity |-> 1000]
Fallback(text) == IF Local(text) # Nothing THEN Local(text)
                  ELSE IF FailOpen THEN Nothing ELSE Everything

(* Mutant of WithNeural: the two scores of an axis add up. *)
NeuralAdded(x, n) == [x EXCEPT !.jailbreak = Clamp(@ + n.injection), !.toxicity = Clamp(@ + n.toxicity)]

WithNeural(x, n) == [x EXCEPT !.jailbreak = Larger(@, n.injection), !.toxicity = Larger(@, n.toxicity)]

UnifiedRisk(text, f, p, n) ==
    IF CoarseRisk(text) < 100 THEN [decision |-> "PASS", tier |-> 1, neural |-> n]
    ELSE [decision |-> IF Tony(WithNeural(Axes(text, f), n), p.weights) < p.unified THEN "PASS" ELSE "BLOCK",
          tier |-> 2, neural |-> n]

-----------------------------------------------------------------------------
NotAssessed == [decision |-> "none", tier |-> 0, neural |-> Nothing]

RiskInit ==
    /\ answer = {} /\ facts \in Facts /\ judgedOn = facts
    /\ policyRead \in Templates /\ policyInForce = policyRead
    /\ verdict = "none" /\ assessed = NotAssessed

Streaming == verdict # "BLOCK" /\ assessed = NotAssessed

(* A chunk makes another text of the answer; BLOCK ends the stream.        *)
Judge(text, said) ==
    /\ Streaming
    /\ Cardinality(text) <= MaxPhrases
    /\ answer' = text /\ facts' = said /\ judgedOn' = said
    /\ verdict' = Decision(text, said, policyRead)
    /\ UNCHANGED <<policyRead, policyInForce, assessed>>

(* Feeds, exemplars and the prompts of the session change meanwhile, and   *)
(* so does the policy of the tenant.                                       *)
FactsChange ==
    /\ Streaming /\ facts' \in Facts \ {facts}
    /\ UNCHANGED <<answer, judgedOn, policyRead, policyInForce, verdict, assessed>>
PolicyChanges ==
    /\ Streaming /\ policyInForce' \in Templates \ {policyInForce}
    /\ UNCHANGED <<answer, facts, judgedOn, policyRead, verdict, assessed>>

(* The answer is complete: phrases alone, the sidecar, or its failure.     *)
Assess ==
    /\ Streaming
    /\ \E n \in {Local(answer), Fallback(answer)} \cup SidecarScores :
         assessed' = UnifiedRisk(answer, facts, policyInForce, n)
    /\ UNCHANGED <<answer, facts, judgedOn, policyRead, policyInForce, verdict>>

RiskNext == \/ \E text \in SUBSET Phrases, said \in Facts : Judge(text, said)
            \/ FactsChange \/ PolicyChanges \/ Assess

RiskSpec == RiskInit /\ [][RiskNext]_riskVars

-----------------------------------------------------------------------------
(* The two assessments of one answer agree: when its last chunk passed,    *)
(* which made it the text it is, and it is then recorded as blocked, the   *)
(* record knows something that text was not judged on.  The neural         *)
(* classifier found more than the lists did, or the policy or what the     *)
(* other stores say of the text changed meanwhile.  And a sidecar that     *)
(* fails closed blocks whatever reaches it without a phrase of its own.    *)
RiskCoherent ==
    /\ LET x == Axes(answer, facts)
       IN  assessed.decision = "BLOCK" =>
             \/ verdict = "none"
             \/ judgedOn # facts \/ policyRead # policyInForce
             \/ assessed.neural.injection > x.jailbreak \/ assessed.neural.toxicity > x.toxicity
    /\ assessed.tier = 2 /\ assessed.neural = Everything /\ ~FailOpen => assessed.decision = "BLOCK"
=============================================================================
