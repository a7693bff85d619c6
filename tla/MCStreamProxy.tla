---------------------------- MODULE MCStreamProxy ----------------------------
(***************************************************************************)
(* One stream, the risk of one answer, and the match of one text against a *)
(* feed: a behaviour moves one of the three.  Lines of one or two          *)
(* characters are enough to cut a match at every place.                    *)
(***************************************************************************)
EXTENDS StreamProxy, RiskDecisions, ThreatMatch

MCDeltas == {<<"p">>, <<"q", "q">>, <<"-">>, <<",">>}

MCPhrases == {"email", "phone", "ignore_previous_instructions", "dan", "how_old_are_you",
              "idiot", "kill_yourself", "how_to", "password", "malware", "long"}

Said(i, s, d) == [intel |-> i, semantic |-> s, drift |-> d]
MCFacts == {Said(0, 0, 0), Said(100, 0, 0), Said(0, 300, 0), Said(100, 300, 1000)}
MCSidecarScores == {[injection |-> 200, toxicity |-> 700]}

(* Hashed and plaintext indicators of one word and two, too short for a    *)
(* trigram or not, and two rules under one id.                             *)
Rule(id, phrase, hashed, score, brief) ==
    [id |-> id, phrase |-> phrase, hashed |-> hashed, score |-> score, brief |-> brief]
MCRules ==
    {Rule(1, <<"a", "b", "a">>, FALSE, 60, FALSE),
     Rule(2, <<"a", " ", "b">>, TRUE, 99, FALSE),
     Rule(2, <<"a", " ", "b">>, TRUE, 36, FALSE),
     Rule(3, <<"a">>, TRUE, 30, TRUE),
     Rule(4, <<"a", "b">>, FALSE, 90, FALSE),
     Rule(5, <<"b", "a", " ", "a">>, FALSE, 100, TRUE),
     Rule(6, <<"b", "a", " ", "b">>, FALSE, 70, FALSE),
     Rule(6, <<"b", "a", " ", "b">>, FALSE, 36, FALSE),
     Rule(7, <<"b">>, TRUE, 80, FALSE)}
MCCharacters == {"a", "b", " "}

VARIABLE focus  \* which of the three a behaviour moves

MCInit ==
    /\ Init /\ RiskInit /\ MatchInit
    /\ \/ focus = "stream" /\ facts.intel + facts.semantic + facts.drift = 0 /\ policyRead.mode = "redact"
       \/ /\ mode = "block" /\ piiBlocks /\ failing = {}
          /\ \/ focus = "risk"
             \/ focus = "match" /\ facts.intel + facts.semantic + facts.drift = 0 /\ policyRead.mode = "redact"

MCNext ==
    /\ UNCHANGED focus
    /\ \/ focus = "stream" /\ Next /\ UNCHANGED <<riskVars, matchVars>>
       \/ focus = "risk" /\ RiskNext /\ UNCHANGED <<vars, matchVars>>
       \/ focus = "match" /\ MatchNext /\ UNCHANGED <<vars, riskVars>>

MCSpec == MCInit /\ [][MCNext]_<<focus, vars, riskVars, matchVars>>
============================================================================
