---------------------------- MODULE StreamProxy ----------------------------
(***************************************************************************)
(* One request of POST /v1/stream: the gates it passes first               *)
(* (chimera/stream_preflight.py), then the answer of the model, judged and *)
(* passed on chunk by chunk behind a sliding window                        *)
(* (chimera/streaming_runtime.py).  Every step ends where the code awaits  *)
(* Redis, a provider or the client.  The slots, the breaker and the quota  *)
(* of the same code are in UpstreamCalls, the ledger in AuditLedger, the   *)
(* axes of risk other than PII in RiskDecisions: here they accept, refuse  *)
(* or fail.  The same pattern is searched for in two texts: what is judged *)
(* is the normalised text, what is redacted and sent is the text as it is. *)
(***************************************************************************)
EXTENDS Naturals, Sequences, FiniteSets

CONSTANTS
    Window,      \* STREAM_WINDOW
    Retained,    \* is the prompt kept (no_content_retention off)?
    Providers,   \* length of the provider order
    Deltas,      \* what one line of the upstream response may add
    MaxText      \* bound of the model: length of the whole answer

(* A text is a sequence of letters.  "p", "q", "q" in a row are a PII      *)
(* pattern between two word boundaries; "-" stands for what                *)
(* normalize_for_security drops between two word characters (blanks, dots, *)
(* dashes), "," for what it keeps; "R" is what is shown of a match.        *)
Word    == {"p", "q"}
Gap     == "-"
Letters == Word \cup {Gap, ","}
Shown   == Letters \cup {"R"}

ASSUME StreamAssumption ==
    /\ Retained \in BOOLEAN
    /\ Window \in Nat /\ MaxText \in Nat /\ Providers \in Nat \ {0}
    /\ Deltas \subseteq Seq(Letters) \ {<< >>}

VARIABLES
    stage,      \* where the handler is
    mode,       \* pii_mode of the tenant's policy: "block" or "redact"
    piiBlocks,  \* does the score of one PII hit reach axis_thresholds["pii"]?
    failing,    \* the checks of the preflight this request does not pass
    prompts,    \* the stored prompt: "none", "kept" or "expiring"
    raw,        \* committed_prefix_raw
    streamed,   \* committed_prefix_streamed
    tail,       \* overlap_tail
    left,       \* providers not tried yet
    usage,      \* "none", "reserved" or "final"
    point,      \* where the decision was made: "preflight", "chunk", "end"
    decision,   \* decision of the audit payload in hand
    recorded,   \* decisions in the ledger
    outcome,    \* how the request ended
    received,   \* history: what the providers sent
    commits,    \* history: the lengths at which the text was cut
    refused,    \* history: an audit payload was dropped
    out         \* what the client was sent, the block notice left out

given == <<mode, piiBlocks, failing>>
text == <<raw, streamed, tail, received, commits, out>>
control == <<stage, point, decision, outcome>>
vars == <<stage, given, prompts, raw, streamed, tail, left, usage, point, decision,
          recorded, outcome, received, commits, refused, out>>

Checks == {"text", "model", "authz", "tools"}

(* A match of the text as it is: the boundary after it is where the text   *)
(* ends or no word character follows.                                      *)
MatchAt(s, i) == /\ i + 2 <= Len(s)
                 /\ s[i] = "p" /\ s[i + 1] = "q" /\ s[i + 2] = "q"
                 /\ i > 1 => s[i - 1] \notin Word
                 /\ i + 2 < Len(s) => s[i + 3] \notin Word

(* A match of the normalised text: the characters at a, b and c are next   *)
(* to each other there, and no word character is next to them.             *)
Glued(s, i, j) == i < j /\ \A k \in i + 1 .. j - 1 : s[k] = Gap
MatchSpans(s, a, c) ==
    /\ s[a] = "p" /\ s[c] = "q"
    /\ \E b \in a + 1 .. c - 1 : s[b] = "q" /\ Glued(s, a, b) /\ Glued(s, b, c)
    /\ \A j \in 1 .. Len(s) : s[j] \in Word => ~Glued(s, j, a) /\ ~Glued(s, c, j)

(* Mutant of HasMatch: the search is in the text as it is. *)
HasRawMatch(s) == \E i \in 1 .. Len(s) : MatchAt(s, i)

HasMatch(s) == \E a, c \in 1 .. Len(s) : MatchSpans(s, a, c)

Before(s, n) == SubSeq(s, 1, n)
From(s, n) == SubSeq(s, n + 1, Len(s))
PrefixOf(s, t) == Len(s) <= Len(t) /\ Before(t, Len(s)) = s

(* redact_pii: a match shrinks to "R", which stands for its first letter.  *)
Kept(s)    == {i \in 1 .. Len(s) : \A d \in {1, 2} : i > d => ~MatchAt(s, i - d)}
Rank(S, i) == Cardinality({k \in S : k <= i})
Place(S, j) == CHOOSE i \in S : Rank(S, i) = j
Redact(s) ==
    [j \in 1 .. Cardinality(Kept(s)) |->
        LET i == Place(Kept(s), j) IN IF MatchAt(s, i) THEN "R" ELSE s[i]]

ForClient(s) == IF mode = "redact" THEN Redact(s) ELSE s

Init ==
    /\ mode \in {"block", "redact"} /\ piiBlocks \in BOOLEAN
    /\ stage = "preflight" /\ failing \in SUBSET Checks
    /\ prompts = "none" /\ usage = "none" /\ left = Providers
    /\ point = "preflight" /\ decision = "none" /\ outcome = "none"
    /\ raw = << >> /\ streamed = << >> /\ tail = << >>
    /\ received = << >> /\ commits = {} /\ out = << >>
    /\ recorded = << >> /\ refused = FALSE

Decide(where, what, next) ==
    point' = where /\ decision' = what /\ stage' = next /\ UNCHANGED outcome

Move(next) == stage' = next /\ UNCHANGED <<point, decision, outcome>>

Finish(how) == stage' = "over" /\ outcome' = how /\ UNCHANGED <<point, decision>>

(* The four refusals of run_stream_preflight, all alike. *)
Deny ==
    /\ stage = "preflight"
    /\ failing # {}
    /\ Decide("preflight", "DENY", "record")
    /\ UNCHANGED <<given, prompts, left, usage, recorded, refused, text>>

Admit ==
    /\ stage = "preflight"
    /\ failing = {}
    /\ Move(IF Retained THEN "store" ELSE "reserve")
    /\ UNCHANGED <<given, prompts, left, usage, recorded, refused, text>>

StorePrompt ==
    /\ stage = "store"
    /\ prompts' = "kept"
    /\ Move("expire")
    /\ UNCHANGED <<given, left, usage, recorded, refused, text>>

ExpirePrompt ==
    /\ stage = "expire"
    /\ prompts' = "expiring"
    /\ Move("reserve")
    /\ UNCHANGED <<given, left, usage, recorded, refused, text>>

(* EXPIRE fails and the exception is swallowed. *)
ExpireFails ==
    /\ stage = "expire"
    /\ refused' = TRUE
    /\ Move("reserve")
    /\ UNCHANGED <<given, prompts, left, usage, recorded, text>>

ReserveUsage ==
    /\ stage = "reserve"
    /\ usage' = "reserved"
    /\ Move("call")
    /\ UNCHANGED <<given, prompts, left, recorded, refused, text>>

(* A provider answers 200. *)
Connect ==
    /\ stage = "call"
    /\ Move("stream")
    /\ UNCHANGED <<given, prompts, left, usage, recorded, refused, text>>

(* Mutant of KeepText: the text of the provider that broke off is dropped. *)
DropText ==
    /\ raw' = << >> /\ streamed' = << >> /\ tail' = << >>
    /\ UNCHANGED <<received, commits, out>>

(* The next provider goes on with the prefix and the tail of this one. *)
KeepText == UNCHANGED text

(* httpx.RequestError before or during the response, or a status worth a retry. *)
ProviderFails ==
    /\ stage \in {"call", "stream"}
    /\ left' = left - 1
    /\ IF left > 1 THEN Move("call") ELSE Finish("failed")
    /\ KeepText
    /\ UNCHANGED <<given, prompts, usage, recorded, refused>>

(* A Redis call or a reply nobody retries ends the request. *)
Fail ==
    /\ stage \in {"preflight", "store", "reserve", "call", "stream"}
    /\ Finish("failed")
    /\ UNCHANGED <<given, prompts, left, usage, recorded, refused, text>>

(* evaluate_risk: the PII axis alone is enough, in both modes. *)
Flagged(s) == piiBlocks /\ HasMatch(s)

(* Mutant of Cut: everything is safe to send. *)
CutNothing(n) == n

Cut(n) == IF n > Window THEN n - Window ELSE 0

Commit(s) ==
    LET n == Cut(Len(s)) shown == ForClient(Before(s, n))
    IN  /\ raw' = Before(s, n) /\ tail' = From(s, n)
        /\ streamed' = shown
        /\ out' = out \o From(shown, Len(streamed))
        /\ commits' = commits \cup {n}

(* One line of the response.  Any other axis may stop it too. *)
Delta(d) ==
    LET candidate == raw \o tail \o d
    IN  /\ stage = "stream"
        /\ Len(received) + Len(d) <= MaxText
        /\ received' = received \o d
        /\ \/ /\ Decide("chunk", "BLOCK", "account")
              /\ UNCHANGED <<raw, streamed, tail, commits, out>>
           \/ ~Flagged(candidate) /\ Commit(candidate) /\ UNCHANGED control
        /\ UNCHANGED <<given, prompts, left, usage, recorded, refused>>

(* The response is complete: compute_unified_risk on the whole text, which *)
(* weighs the user's history too and may say BLOCK.  If it raises, the     *)
(* except around the audit lets the text through.                          *)
JudgeWhole ==
    /\ stage = "stream"
    /\ \/ \E d \in {"PASS", "BLOCK"} : Decide("end", d, "account") /\ UNCHANGED refused
       \/ Decide("end", "none", "send") /\ refused' = TRUE
    /\ UNCHANGED <<given, prompts, left, usage, recorded, text>>

(* finalize_usage. *)
FinalizeUsage ==
    /\ stage = "account"
    /\ usage' = "final"
    /\ Move("record")
    /\ UNCHANGED <<given, prompts, left, recorded, refused, text>>

(* It raises: a blocked stream fails, a complete one is sent unrecorded. *)
FinalizeFails ==
    /\ stage = "account"
    /\ refused' = TRUE
    /\ IF point = "chunk" THEN Finish("failed") ELSE Move("send")
    /\ UNCHANGED <<given, prompts, left, usage, recorded, text>>

(* Mutant of Entry: the ledger gets another decision. *)
EntryPassed == Append(recorded, "PASS")

Entry == Append(recorded, decision)

(* create_unsigned_ledger_entry. *)
Record ==
    /\ stage = "record"
    /\ recorded' = Entry
    /\ Move("send")
    /\ UNCHANGED <<given, prompts, left, usage, refused, text>>

(* The ledger refuses (backpressure) or fails: swallowed everywhere. *)
RecordRefused ==
    /\ stage = "record"
    /\ refused' = TRUE
    /\ Move("send")
    /\ UNCHANGED <<given, prompts, left, usage, recorded, text>>

Refuse ==
    /\ stage = "send" /\ point = "preflight"
    /\ Finish("denied")
    /\ UNCHANGED <<given, prompts, left, usage, recorded, refused, text>>

Notice ==
    /\ stage = "send" /\ point = "chunk"
    /\ Finish("blocked")
    /\ UNCHANGED <<given, prompts, left, usage, recorded, refused, text>>

(* Mutant of SendTail: the tail is sent as it came. *)
SendTailRaw ==
    /\ stage = "send" /\ point = "end"
    /\ out' = out \o tail
    /\ Finish("delivered")
    /\ UNCHANGED <<given, prompts, left, usage, recorded, refused,
                   raw, streamed, tail, received, commits>>

SendTail ==
    /\ stage = "send" /\ point = "end"
    /\ out' = out \o From(ForClient(raw \o tail), Len(streamed))
    /\ Finish("delivered")
    /\ UNCHANGED <<given, prompts, left, usage, recorded, refused,
                   raw, streamed, tail, received, commits>>

(* The client disconnects: CancelledError at whatever the handler awaits. *)
Leave ==
    /\ stage # "over"
    /\ Finish("gone")
    /\ UNCHANGED <<given, prompts, left, usage, recorded, refused, text>>

Next ==
    \/ Deny \/ Admit \/ StorePrompt \/ ExpirePrompt \/ ExpireFails
    \/ ReserveUsage \/ Connect \/ ProviderFails \/ Fail
    \/ (\E d \in Deltas : Delta(d))
    \/ JudgeWhole \/ FinalizeUsage \/ FinalizeFails \/ Record \/ RecordRefused
    \/ Refuse \/ Notice \/ SendTail \/ Leave

Spec == Init /\ [][Next]_vars

----------------------------------------------------------------------------
(* The variables have their types. *)
TypeOK ==
    /\ stage \in {"preflight", "store", "expire", "reserve", "call", "stream",
                  "account", "record", "send", "over"}
    /\ mode \in {"block", "redact"} /\ piiBlocks \in BOOLEAN /\ failing \subseteq Checks
    /\ prompts \in {"none", "kept", "expiring"}
    /\ usage \in {"none", "reserved", "final"}
    /\ left \in 0 .. Providers
    /\ point \in {"preflight", "chunk", "end"}
    /\ decision \in {"none", "DENY", "BLOCK", "PASS"}
    /\ outcome \in {"none", "denied", "blocked", "delivered", "failed", "gone"}
    /\ recorded \in Seq({"DENY", "BLOCK", "PASS"}) /\ Len(recorded) <= 1
    /\ {raw, tail, received} \subseteq Seq(Letters) /\ {streamed, out} \subseteq Seq(Shown)
    /\ commits \subseteq 0 .. MaxText
    /\ refused \in BOOLEAN

(* While an answer comes in, over however many providers, the proxy holds  *)
(* back its last STREAM_WINDOW characters and nothing else, and in block   *)
(* mode the client has the rest: no text is lost or sent twice at a commit *)
(* or at a failover.                                                       *)
HoldsBackWindow ==
    stage = "stream" =>
        /\ raw \o tail = received
        /\ Len(tail) = (IF Len(received) < Window THEN Len(received) ELSE Window)
        /\ mode = "block" => out = raw

(* Where a match of the normalised text is reason enough, no complete      *)
(* answer has one, and when one stops a stream nothing of it was committed *)
(* or, in block mode, sent, if it spans at most one character more of the  *)
(* text as it came than the window: the characters between count too.      *)
NoPartOfMatchSent ==
    piiBlocks =>
        \A a, c \in 1 .. Len(received) :
            MatchSpans(received, a, c) =>
                /\ outcome # "delivered"
                /\ c - a <= Window => /\ Len(raw) < a
                                      /\ mode = "block" => Len(out) < a

Uncut(s) == \A n \in commits : \A i \in 1 .. n : MatchAt(Before(s, n), i) <=> MatchAt(s, i)

(* As long as no commit falls inside a match, or where the text goes on as *)
(* if there were none, what the client sees is the redaction of the        *)
(* answer, however it was cut into chunks.                                 *)
RedactedUnlessCut ==
    Uncut(received) =>
       /\ PrefixOf(out, ForClient(received))
       /\ outcome = "delivered" => out = ForClient(received)

(* A denied request leaves no prompt behind and reserves nothing; a prompt *)
(* that is kept expires, but for a failed EXPIRE or a request cut off      *)
(* between RPUSH and EXPIRE.                                               *)
PromptsExpire ==
    /\ failing # {} => prompts = "none" /\ usage = "none"
    /\ prompts = "kept" => \/ stage = "expire"
                           \/ outcome = "gone" /\ usage = "none"
                           \/ refused

(* A request that was denied, blocked or answered is in the ledger with    *)
(* that decision, unless the ledger or the accounting refused; what is in  *)
(* the ledger was accounted for first; and what a request leaves outside   *)
(* the ledger is what its decision allows.                                 *)
RecordedUnlessRefused ==
    /\ outcome = "denied" => recorded = <<"DENY">> \/ refused
    /\ outcome = "blocked" => recorded = <<"BLOCK">> \/ refused
    /\ outcome = "delivered" => Len(recorded) = 1 \/ refused
    /\ recorded # << >> => recorded[1] = "DENY" \/ usage = "final"
    /\ PromptsExpire

----------------------------------------------------------------------------
(* What the properties rest on.  How far the request came says what it     *)
(* left outside the text.                                                  *)
StagesCoherent ==
    /\ stage # "over" => left >= 1 /\ outcome = "none"
    /\ stage \in {"preflight", "store", "expire", "reserve", "call", "stream"} =>
         point = "preflight" /\ recorded = << >>
    /\ stage \in {"preflight", "store", "expire", "reserve"} => usage = "none"
    /\ stage \in {"preflight", "store"} => prompts = "none"
    /\ stage \notin {"preflight", "record", "send", "over"} \/ point # "preflight" => failing = {}
    /\ stage = "account" => recorded = << >> /\ point # "preflight" /\ decision # "none"
    /\ stage = "record" => /\ recorded = << >> /\ decision # "none"
                           /\ IF point = "preflight" THEN decision = "DENY" ELSE usage = "final"
    /\ stage \in {"account", "record"} /\ point = "chunk" => decision = "BLOCK"
    /\ stage = "send" => \/ refused
                         \/ /\ Len(recorded) = 1
                            /\ point = "preflight" => recorded = <<"DENY">>
                            /\ point = "chunk" => recorded = <<"BLOCK">>

(* The committed prefix and the tail are the answer, up to the line that   *)
(* stopped it, and the client has the redaction of the prefix, unless a    *)
(* commit cut a match.                                                     *)
TextCoherent ==
    /\ streamed = ForClient(raw)
    /\ raw = << >> \/ Len(raw) \in commits
    /\ Len(raw) = Cut(Len(raw) + Len(tail))
    /\ PrefixOf(raw \o tail, received)
    /\ point # "chunk" => raw \o tail = received
    /\ piiBlocks => ~HasMatch(raw \o tail)
    /\ outcome = "delivered" => point = "end"
    /\ \A n \in commits : n <= Len(raw)
    /\ outcome # "delivered" /\ (mode = "block" \/ Uncut(raw)) => out = streamed
    /\ outcome = "delivered" /\ (mode = "block" \/ Uncut(raw \o tail)) => out = ForClient(raw \o tail)

StreamInv == TypeOK /\ StagesCoherent /\ RecordedUnlessRefused /\ TextCoherent
============================================================================
