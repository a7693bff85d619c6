# Verification of Apex-Sovereign

TLA+ models of the Apex-Sovereign gateway (`ApexSov/`), the TLC runs that check
them on small instances and the TLAPS proofs of what matters most for every
instance. Paths are relative to `src/`; `chimera/x.py` and plain `x.py` stand
for `ApexSov/chimera/x.py`.

The gateway is a FastAPI application, run as any number of server processes
over one Redis. A chat request passes authentication, idempotency, health and
policy gates, is streamed from an upstream model while windows of the text are
evaluated, and leaves entries in a hash-chained audit ledger, which a worker
signs and another ships to S3. Administrators change policies, threat feeds and
the environment configuration, the first and last under a two-person rule, and
erase the data of a session on request. Within a process tasks interleave at
every `await`; between processes at every Redis call.

## 1. Inventory

| component | state | operations | what is hard |
|---|---|---|---|
| Ledger writers (`ledger_write.py`, `ledger_primitives.py`) | Redis lists `apex:audit_ledger`, `apex:audit_checkpoints`, the signing queue, the entry index | `create_unsigned_ledger_entry`: backlog test, optimistic append, checkpoint, anchor entry (a recursive call), enqueue | WATCH conflicts and retries, backlog tested awaits before the push, failure between the append and the enqueue, anchors that move the interval |
| Signing worker (`signing_runtime.py`) | position in hand, a copy of the entry, `SIGNER_HEALTH` | BLPOP, read, dual control, sign in a thread, LSET, retry, push to the S3 buffer | several workers, a copy that is read awaits before it is written back, crash after BLPOP |
| Key dual control (`signing_audit.py`) and health (`runtime_health.py`, `runtime_status_routes.py`) | the desired configuration in Redis, a cached verdict per process; `SIGNER_HEALTH`, `SELF_TEST` | enforce, self test, readyz, zeroize, the gate of every request | a cached verdict outlives the approvals, flags that nothing sets back |
| S3 shipping (`ledger_s3_sync.py`) | `apex:signed_ledger_buffer`, a local batch, one S3 object a day | LPOP, batch, read-modify-write of the object | upload errors are swallowed, two processes overwrite each other, a crash loses the batch |
| Ledger verification (`ledger_verify_routes.py`, `ledger_verify_helpers.py`, `verify_proof.py`, Merkle functions of `kms_signer.py`) | none | walk the chain, inclusion proofs, certificates | odd levels of the tree, two ways to find a leaf, two verifiers |
| Idempotency (`idempotency_runtime.py`, `BaseT8.py` `streaming_proxy`) | in-flight futures and cached results per process | acquire or wait or replay, record chunks, store | errors and cancellation between acquire and store |
| Stream proxy (`streaming_runtime.py`, `stream_preflight.py`) | text streamed so far, window, provider in use | preflight, provider loop, PII and risk gates, window commit, final audit | failover in mid-stream, ledger errors swallowed, quota and breaker taken before they are needed |
| Risk engine (`apex_engine.py`, `risk_decisions.py`, `risk_components.py`, `policy_templates.py`) | none | score of each axis, coarse and unified decision, neural sidecar | two rules for one answer, policy read at two moments |
| Circuit breaker and drift (`drift_runtime.py`) | breaker state per process, drift vectors | before_call, after_call_success, after_call_failure | half-open attempts of overlapping requests |
| Quotas (`usage_runtime.py`) | four counters a tenant in Redis | reserve, add completion, cost | count first, test afterwards; windows and times to live |
| Tenant policies (`tenant_policy_store.py`, `policy_routes.py`, `policy_governance.py`, `policy_records.py`) | current policy and history per tenant, pending changes | seed, set, propose, approve, reject, rollback, allowlist | read-modify-write between processes, two Redis writes per approval |
| Environment configuration (`env_config_routes.py`, `env_config_governance.py`, `env_config_changes.py`) | active configuration, pending changes | propose, approve, reject | two reviewers at once |
| Right to be forgotten and retention (`rtbf_routes.py`, `rtbf_proof_views.py`, `runtime_health.py` retention loop) | prompts, vectors, corpora, exemplars, their texts and objects; proofs and their indexes | erase a session from every store, record and find the proof, set times to live | failure in the middle, a concurrent stream or ingest that adds data again |
| Incident response (`siem_ir.py`) | active incident per tenant and class, records | classify, correlate, alert | two alerts that correlate at once |
| Threat intelligence (`threat_intel_store.py`) | feed versions, the record of the version in force, a cache per process | ingest, stage, activate, roll back, load, match | read-modify-write of the record, caches, one budget for two indexes |
| Identity (`auth_identity.py`) | signing keys of the identity provider, cached | fetch, verify a token, roles and tenant | threads that fetch at once while keys rotate |
| Content store, metrics, control plane reads, dashboards, sanitiser, configuration, UI, avatar, offline tools | caches, Redis hashes | | mostly pure I/O and formatting |

What makes each component correct, in a sentence each:

- **Ledger**: one chain, whatever interleaves; no event twice unless the answer
  to its append was lost; every entry on its way to the signer or lost by a
  failure one can count; checkpoints and anchors that tell the truth about the
  entries they cover.
- **Signing**: one worker per entry, nothing stale written back, an entry settles
  once and, with fair workers and no faults, does settle; the key signs only
  with approval, and a gate that shuts can open again.
- **Copies and proofs**: nothing is shipped twice or silently lost; a certified
  leaf is the one that was anchored.
- **Idempotency**: one execution per key and process at a time, every duplicate
  gets the stream or the error of the execution it names, no duplicate waits for
  nothing.
- **Stream proxy and risk**: nothing of a text that stops the stream was sent
  before it was judged, nothing is lost or sent twice, every decision is
  recorded, and the decisions on one answer agree.
- **Breaker, slots, quotas**: an open breaker lets nothing through, a probe
  decides, every slot comes back, the breaker closes again, no window lets more
  through than its limit.
- **Policies and environment**: nothing one admin wants alone is put in force,
  a decision is final, the history tells every policy.
- **Data of a session**: an erasure that reports completion is complete, its
  proof is found, nothing stays without an end that a policy limits.
- **Incidents, feeds, identity**: one incident per class and window counts all
  its alerts; the rules in force are those of the version activated last, and a
  match reports the worst of them; a rotation of keys takes effect in time.

## 2. Modules

| module | models | composed with |
|---|---|---|
| `LedgerTypes` | entries, windows, hashes and the operators on them | |
| `AuditLog` | abstract: a hash-chained log that grows by one entry whose status settles once | |
| `AuditLedger` | `create_unsigned_ledger_entry` run by any number of writers; implements `AuditLog` | `LedgerTypes`, `AuditLog` |
| `SigningPipeline` | `signing_worker_loop` beside the writers; implements `AuditLog` | extends `AuditLedger` |
| `AuditLedgerProofs` | theorems about `AuditLedger` | |
| `SigningPipelineProofs`, `SigningCountProofs` | theorems about `SigningPipeline` | extend `AuditLedgerProofs` |
| `GovernanceProofs` | theorems about `KeyControl`, `PolicyGovernance`, `EnvConfigGovernance`, `Identity` | |
| `IdempotencyProofs` | theorems about `Idempotency` | |
| `StreamProxyProofs` | theorems about `StreamProxy`, `RiskDecisions`, `ThreatMatch` | |
| `ServicesProofs` | theorems about `UpstreamCalls`, `Incidents`, `ThreatFeeds`, `UsageQuotas`, `LedgerShipping`, `InclusionProofs` | |
| `TenantProofs` | theorems about `TenantData` | |
| `KeyControl` | dual control of the signing key and its cache, worker health, readyz, self test, zeroize | |
| `LedgerShipping` | `s3_sync_loop` in several processes, verification of the copy | |
| `InclusionProofs` | Merkle root and proof, checkpoints, anchors, proof route, offline verifier | |
| `Idempotency` | the idempotency boundary and `streaming_proxy` around it | |
| `UpstreamCalls` | several requests over slots, breaker, quota and providers | |
| `UsageQuotas` | the four counters of a tenant and their windows | |
| `StreamProxy` | one request: preflight, text, window, decision, record | |
| `RiskDecisions` | the risk axes, both assessments of one answer, the sidecar | |
| `ThreatMatch` | the match of one text against a feed | |
| `ThreatFeeds` | versions of the feed, the record of the one in force, the caches | |
| `PolicyGovernance` | tenant policy, its history and proposals | |
| `EnvConfigGovernance` | desired environment configuration and its proposals | |
| `Identity` | the key cache, verification of tokens, roles | |
| `TenantData` | streams, ingests, erasures, proofs, the retention loop over one session | |
| `Incidents` | correlation of alerts | |

`MCx.tla` is the module TLC runs for `x`: its symmetry, and the constants a
`.cfg` cannot write. `MCGovernance`, `MCServices`, `MCStreamProxy` and
`MCTenantData` put modules side by side: a variable `focus`, chosen in the
initial state, says which of them (or, in `TenantData`, which group of its
actions) a behaviour moves. Those parts share no key and call no function of one
another, so interleaving them would only add states. What one request or one
process is configured with and never changes (`mode`, `piiBlocks`, `twoPerson`,
`loops`, `quotaPolicy`, `bookInterval`) is a variable no action assigns, so one
run covers every configuration.

How state and actions correspond to the code:

- **`AuditLedger`.** Redis lists are sequences (`ledger`, `queue`,
  `checkpoints`), a call in flight is `pc[w]` and the record `call[w]`, whose
  field `nested` says that it is in the recursive call for an anchor entry.
  WATCH is `watchOk`, which every write to the ledger by somebody else (an
  append, and the LSET of a signing worker) clears; EXEC with the watch gone is
  the retry branch. So is a connection lost under WATCH, which redis-py
  (`requirements.txt:3`, `redis>=5.0`) turns into a WatchError: before EXEC took
  effect (`ConnectionLost`), or after it, when only its reply is lost
  (`ReplyLost`) and the next attempt appends the event again under another id.
  `unanswered` are the positions of such entries. The client library is taken
  not to repeat commands itself, which is its default. A hash is the sequence of
  the payloads up to the entry, so equal hashes mean equal prefixes: collision
  freedom is assumed, not modelled. Canonical JSON and minimisation of the
  payload are left out.
- **`SigningPipeline`.** A worker holds a position from BLPOP until it lets go
  and a copy of the entry from the read until LSET; each await in between is a
  step. Dual control and the signature answer either way at every attempt.
  A refused position is put back, or lost when that command fails too, which the
  worker swallows.
- **`KeyControl`.** What dual control answers, in detail: the verdict is a
  record with the moment it ends at; the worker and readyz are two tasks that
  share it, read the desired configuration and write the verdict awaits later.
  Positions to sign are a number, since which one it is does not matter here.
  Another process may settle one of them, which does not touch the health of
  this one.
- **`LedgerShipping`.** A loop is `shipper[s]`, its batch, the body it has read
  and where it stands; the object of a day is the sequence of the entries in it.
  The check of the copy compares each entry with the last one before it, in the
  same object or in the latest earlier one that has any (`LastBefore`).
  `overlaps` counts the flushes that met another one between read and write. The
  loop may go on with its batch whatever its size: making the S3 client fails
  outside the `try` of the upload, and the batch is kept. An upload that its
  thread finishes after the loop was cancelled is not modelled.
- **`InclusionProofs`.** A ledger `book` with checkpoints and anchors in place;
  hashes are tuples of what they hash. A tree is a function of its levels, each
  made from the one below, up to the first that has one node; an index halves
  from level to level. Stored fields may change, before their window is anchored
  or after; `anchored` is what an anchor took its root from, and an anchor may
  be appended again with the same window. `Response` is the proof route,
  `Certified` is `verify_proof.py`.
- **`Idempotency`.** `_completed` and `_inflight` are functions of process and
  key, a future is what its owner resolved it with. An error reaches the owner's
  client after the chunks it has already; what is kept is the error alone. A
  refusal by a gate, a disconnected client and the restart of a process are the
  interrupts; an owner may hang.
- **`UpstreamCalls`.** The breaker is a record transformed by `BeforeCall`,
  `Success` and `Failure`, the three methods of the class; time is one bit, "the
  reset timeout has passed". Failures are counted up to the threshold because
  they are compared with nothing else. The body of an error is awaited too and may
  raise or hang like the answer itself.
- **`UsageQuotas`.** A counter is a number and the minute its key ends at; days
  and months are short, and a reservation counts on all four in one MULTI and
  then tests them, a completion counts on three; the reply may be lost.
- **`StreamProxy`.** A text is a sequence over four characters: two of words,
  one that `normalize_for_security` drops between words (blank, dot, dash), one
  that it keeps (comma). A PII pattern is three word characters between two
  boundaries. Detection looks for it in the normalised text, as the risk engine
  does (`HasMatch`, by positions of the text as it came), `Redact` in the text
  as it came (`MatchAt`), where the end of the prefix that is redacted is a
  boundary. `[REDACTED]` is one character. Every other axis may block at every
  chunk. `raw`, `streamed` and `tail` are the three local strings; `out` is what
  was yielded.
- **`RiskDecisions`.** A text is the set of the phrases of the code's lists that
  are in it; scores are integers in thousandths, rounded down, and the constant
  factors of the "tony" score are one factor of 1.751. The three templates are
  the policies. What drift, intelligence and the stores say of the text is
  `facts`, other ones at each chunk; and since a pattern can cease to match when
  the text goes on, a chunk may make any set of phrases of the text.
- **`ThreatMatch`.** Rules, texts and trigrams over three characters, in the
  order the code visits them, with the budget `MaxChecked`. A loop of the code
  is a function of how far it has come (`MatchWindow`, `MatchWindows`, `Hashed`,
  `PlainAfter`); the candidates of a large feed are visited by rank, which
  counts the candidates that come before, in place of the sort.
- **`ThreatFeeds`.** The record of the version in force is read and written in
  two steps of a call, as in the code; the auxiliary `wanted` is what the calls
  asked for in the order they wrote.
- **`PolicyGovernance`, `EnvConfigGovernance`.** A call is a job with the copy
  it read; MULTI/EXEC is one step, a read outside it another.
- **`Identity`.** A request fetches, stores the keys, stores the time and
  verifies in four steps, as threads of one process do. Keys are published and
  withdrawn at any time; a call lasts at most `CallTime`.
- **`TenantData`.** `db` maps each key of a session to the writers whose data it
  holds, `expires` are the keys with a time to live. A stream writes what
  retention keeps; an erasure is one action per deletion, in the code's order,
  then the ledger entry and the indexes of its proof. `before`, `listed` and
  `during` are auxiliary: what was there when the erasure began, and which
  ingests and other erasures of exemplars ran at some time with it.
- **`Incidents`.** SET NX, GET, read and write of the record are steps of an
  alert; `raced` are the incidents whose record two alerts read at once.

## 3. Runs

Bounds are the constants that end in `Max…` or are marked "bound of the model"
in the module; guards, not state constraints, enforce them.

| run | bounds | shows |
|---|---|---|
| `ledger_safety` | 2 writers, 5 requests, interval 2, queue limit 3, 2 retries, 1 fault | the chain, repeats only after a lost reply, one ticket per entry, checkpoints, anchors and index that agree with the ledger, refinement of `AuditLog` |
| `signing_safety` | 1 writer, 2 workers, 2 requests, interval 1, queue limit 2, 2 attempts, 2 faults, dual control | one worker per entry, no stale copy, verdicts and buffer agree with the ledger, only faults forget an entry, refinement of `AuditLog` (an entry settles once) |
| `signing_liveness` | 1 writer, 1 worker, 4 requests, queue limit 1, 2 attempts, no faults | every entry settles; how far the queue passes its limit |
| `idempotency` | 2 processes, 3 requests, 2 keys, 2 interrupts, owners that hang | one owner, what duplicates get, and which of them may wait for ever |
| `upstream` | 3 requests, 2 slots, 2 providers, threshold 3, 2 probes, 4 failures, calls that hang | the breaker, its recovery, the slots |
| `stream` | answers of 6 characters, window 3, 2 providers, both PII modes; texts of up to 3 of 11 phrases, 3 templates, a sidecar; feeds of 3 rules of 9, texts of 5 characters, a budget of 2 | window, redaction, failover, record, prompts; the two assessments agree; a match reports the worst rule |
| `governance` | 3 calls on policies, 4 on the configuration, 2 admins each, 1 failure, history of 2; dual control in 5 modes, verdicts of 2 and 1 units, 1 fault; 3 requests, 2 keys, 1 rotation | two-person rule, histories, proposals; approval of the key, the gate; how fast a rotation reaches every request |
| `services` | 2 shippers, 3 entries, 2 days; 3 alerts, 1 expiry; 3 streams, days of 2 minutes, months of 2 days; 3 feed calls in 2 processes, 2 at once; ledgers of 6 entries, intervals 3 and 5, 2 changed fields; 1 fault each | the copy on S3, incidents, quotas, feeds in force, certificates |
| `tenant_data` | 2 streams, 2 ingests, 2 exemplars, 2 erasures that may overlap, 1 lookup, 2 request ids, 1 fault, a scan of 3 of 5 entries | erased is gone, the proof is found, the retention loop catches up |

Why the bounds are enough: two writers give every interleaving of two appends,
and what a third would do to a watch one of the two does already; five requests
pass two checkpoint boundaries with an anchor between them and fill the queue.
One fault is one lost reply, of an entry or of an anchor, with its retry beside
the other writer. With an interval of 1 two requests have two anchors, four
positions for two workers; two faults lose a reply and a position. Two workers
and two attempts give the retry, the last attempt and two copies in hand. An
owner, a duplicate and a later retry are three requests; a second process and a
second key show that they do not mix. Three requests on two slots give one that
waits, one probe of the breaker and one late answer. An answer of six characters
has a match of three, or of four with a dropped character inside, at every place
of a window of three and behind it, cut in every way and followed or preceded by
another chunk. Three calls are a proposal and two overlapping decisions of it,
or a seed and two overlapping writers. Three alerts are one that opens an
incident and two that race on its record. Intervals 3 and 5 give trees with one
odd level and with two; two changed fields are one before the anchor is made and
one after it, or two that agree with one another. Three threads and a rotation
are the worst case of the key cache: with the bound of `RotationsTakeEffect` one
unit smaller TLC finds the violation. Three rules and a budget of two give one
rule too many. Where every constant matters, the theorems of section 5 take
over.

Several properties are conditional because the code promises no more, and each
condition is there because TLC finds a counterexample without it:
`RepeatsOnlyUnanswered` except entries whose reply was lost, `CertificatesSound`
hashes changed before their window was anchored, `NoPartOfMatchSent` matches
longer than the window and in redact mode a cut inside one, `RiskCoherent` what
the neural classifier, the policy or the stores tell the second assessment,
`AnsweredUnlessLost` owners that were refused or cancelled or that hang,
`HistoryIsChronicle` and `FeedsInForce` except calls that both read a record
before either wrote it, `ReplicaFaithful` faults and flushes at once,
`IncidentsAgree` alerts that race on the record, `GateCanReopen` what shuts the
gate for good, `ErasedIsGone` an ingest, or another erasure of exemplars, that
runs with the erasure, `ProofFound` calls that overlap on one request id,
`MatchesAreBest` rules the budget does not reach.

### Disagreements

Each of these runs checks one statement of the documentation or of the code, and
TLC finds the behaviour that contradicts it.

| run | statement | what happens |
|---|---|---|
| `no_worker_started` | signing by an async worker (README) | no startup code creates the worker |
| `owner_refused` | a duplicate of a failed request is told so (`BaseT8.py:981`) | it waits for ever when a gate refused the owner |
| `append_repeats` | an entry has a "UUID per logical event" (`ledger_write.py:238`) | each attempt makes its own (line 284); after a lost reply the event is there twice under two ids |

The models have more behaviour a reader of the documentation may not expect:

- **Ledger.** A refusing ledger is ignored by the stream, so some decisions
  produce no entry (`streaming_runtime.py:258, 305, 377`,
  `stream_preflight.py:91, 122, 153, 197`); an anchor entry that lands on a
  multiple of the interval suppresses the checkpoint there
  (`ledger_write.py:320`); signed entries reach the S3 buffer in the order of
  signing, not of the chain (`signing_runtime.py:247`). An entry whose reply was
  lost stays unsigned: nobody queues it; the same holds of the ledger entry of
  an erasure, whose proof names the last one. A proof asked for without
  `zero_cache` takes the stored hash of the entry at its word, and a hash
  changed before its window is anchored is anchored and certified as it was
  changed.
- **Stream and risk.** Detection and redaction see different texts.
  Normalisation (`BaseT8.py:582`) drops what separates words, so a pattern that
  stands among other words of the text is found only where punctuation keeps it
  apart, and the default patterns for e-mail addresses and social security
  numbers, which need their separators, never match the normalised text; what is
  not detected is sent as it is in block mode and redacted in redact mode.
  Conversely a number that normalisation puts together is detected and never
  redacted. The template comment "Redact family info rather than blocking"
  (`policy_templates.py:174`) notwithstanding, a PII hit over its threshold ends
  the stream in redact mode too (`risk_decisions.py:94`). In redact mode a cut
  inside a match sends its first part as it came or, where the part is a match
  itself, redacted. A match longer than the window is sent in part; failover in
  the middle of an answer joins the texts of two providers
  (`streaming_runtime.py:397`); a BLOCK on the complete answer is recorded and
  the answer is delivered (line 385). That last decision is made under the
  policy of that moment and by the unified threshold only; texts with a coarse
  risk below 0.1 skip the sidecar even when it fails closed; the threshold of
  the semantic axis (`policy_templates.py:32`) is never read by `evaluate_risk`.
- **Policies.** Writers of one tenant's policy that overlap can lose one, and a
  late seed can replace an approved policy without history
  (`tenant_policy_store.py:90, 99`); overlapping decisions on one proposal both
  succeed, although `control_plane_reads.py:40` refuses a proposal that is not
  pending; an allowlist set through a proposal is not normalised.
- **Key and health.** A failed readyz probe, zeroize, or a given-up entry with an
  empty queue shuts the gate for good; a failed self test is never forgotten;
  zeroize acts on a fresh signer and the next signature clears its flag. Readyz
  asks dual control only in PROD with `APEX_KMS_HEALTH_CHECK`
  (`runtime_status_routes.py:131`), while `OPERATIONS.md:280` has readiness fail
  closed in PROD and FIPS modes.
- **Session data.** The corpus of all tenants is neither erased nor limited by
  the retention loop; an ingest that appends during an erasure writes the items
  back; of two erasures of exemplars that overlap the second may find the items
  gone and report completion over a text the first did not know of
  (`rtbf_routes.py:257`); texts of exemplars that were replaced or truncated
  stay; a refusal by S3 after the deletions answers 400 and leaves no proof.
  Tombstones and the request index of an erasure are written and never read.
- **Feeds.** A second rollback undoes the first; an ingest under the name of the
  version in force changes its rules at once; two staged appends at once lose the
  first one's rules. In large feeds an indicator shorter than three characters is
  never looked at, and a rule added again under its id with a higher score keeps
  the old score when hashed.
- **Incidents.** The alert that loses the race for the key and writes its record
  first makes the winner report that it opened nothing; a window is never renewed.
- **Identity.** A token of a key that was just published is refused until the
  cache ages (no fetch on an unknown key id); a failed fetch is 500, not 401.

### Deadlock

Runs that say `CHECK_DEADLOCK FALSE` are of systems that stop by themselves at
the bound: all requests are made, all calls done. `upstream` has no such state and
checks for it.

## 4. Fairness

Safety runs assume none. The liveness runs assume:

- `SigningPipeline!Fairness`: a writer that began goes on and a worker's loop
  goes on (weak fairness). Both are asyncio tasks that are always ready between
  awaits, and Redis answers. A new call of a writer is never forced.
- `Idempotency`: a request that arrived goes on, its stream produces chunks and
  ends or raises, and the await of a resolved future returns (weak), unless the
  request hangs: an upstream without a timeout may do so at any moment, and
  nothing is then assumed of that owner. Refusals, disconnections and restarts
  happen or not.
- `UpstreamCalls!Fairness`: the clock runs, the body of an error arrives and a
  stream ends that does not hang (weak); a slot is granted in order, and a
  request is not over its quota or refused by the breaker for ever (strong,
  since the breaker and the semaphore disable these steps now and then). The
  semaphore of asyncio wakes its waiters first come, first served, which is what
  strong fairness of `Enter` says. A provider may go silent for good: the client
  has no timeout, so `SlotsReturn` and `Recovers` are stated up to hanging
  calls.
- `MCTenantData!Spec`: the retention loop goes on (weak). It is a task that
  startup creates, sleeps between rounds, catches the errors of single keys and,
  of a SCAN, starts the round again; streams and ingests are not forced to end.

## 5. Proofs

Each theorem holds for every value of the constants that satisfies the named
assumptions of its module: any number of writers, workers, requests, calls and
tenants' proposals, any interval, limit and window. The assumptions say that sets
are finite where they are counted, that limits are natural numbers, and that the
"none" values are none of the others. Only `QueueBounded` has a hypothesis more,
that there is a writer: without one the bound is not strict.

| module | theorem | property |
|---|---|---|
| `AuditLedgerProofs` | `TypeCorrect`, `InvariantHolds` | `TypeOK`, `LedgerInv` |
| | `ChainSafe`, `RepeatsUnanswered`, `TicketsUnique` | `ChainIntact`, `RepeatsOnlyUnanswered`, `SingleTicket` |
| | `DerivedFaithful` | `DerivedDataFaithful` |
| | `WritersRefineLog` | every behaviour of the writers is one of `AuditLog` |
| `SigningPipelineProofs` | `SigningSafe`, `VerdictsCorrect` | `SigningInv`, `VerdictsSound` |
| | `PipelineRefinesLog` | every behaviour of writers and workers is one of `AuditLog` |
| `SigningCountProofs` | `BufferCorrect`, `OnlyFaultsForget`, `QueueBounded` | `BufferFaithful`, `ForgottenOnlyByFaults`, `BacklogBound` |
| `GovernanceProofs` | `KeyControlSafe`, `GateReopens` | `KeyUseApproved`, `GateCanReopen` |
| | `TwoPersonRule`, `HistoryTells`, `ProposalsTell` | `NoLoneAdmin`, `HistoryIsChronicle`, `ProposalsFollow` |
| | `EnvConfigSafe` | `EnvRecordsAgree` |
| | `RotationsInTime` | the action property `RotationsTakeEffect` |
| `IdempotencyProofs` | `BoundaryInductive`, `BoundaryHolds`, `DuplicatesAgree` | `IInv`, `BoundaryCoherent`, `SameAnswer` |
| `ServicesProofs` | `BreakerStays`, `OnlyProbesDecide` | `BreakerCoherent`, the action property `ProbeDecides` |
| | `IncidentsCorrelate`, `FeedsFollow`, `QuotasKept` | `IncidentsAgree`, `FeedsInForce`, `QuotasHold` |
| | `CopyFaithful`, `CertificatesHold` | `ReplicaFaithful`, `CertificatesSound` |
| `StreamProxyProofs` | `WindowHeldBack`, `MatchesStayInside` | `HoldsBackWindow`, `NoPartOfMatchSent` |
| | `RedactionIsWhole`, `DecisionsRecorded` | `RedactedUnlessCut`, `RecordedUnlessRefused` |
| | `AssessmentsAgree`, `MatchesHold` | `RiskCoherent`, `MatchesAreBest` |
| `TenantProofs` | `ErasureComplete`, `ProofsFound` | `ErasedIsGone`, `ProofFound` |

The first section of `AuditLedgerProofs` has what the ledger proofs need of
sequences and sets. Everywhere
the argument is an inductive invariant, which TLC checked on the instances of
section 3 before it was proved, and a lemma for each kind of step; the theorem
puts them together.

- **Writers.** That an append keeps the chain needs to know that the hash a
  writer read is that of the tail as long as its watch holds (`SeenFresh`); that
  a request is appended again only after a lost reply needs that the payload in
  a writer's hands is in no other hands, and in an entry only by an earlier
  attempt that was not answered (`RequestsFresh`); an id is a request and the
  number of the attempt, so the abstract log, whose entries have ids of their
  own, is implemented all the same; both need the shapes of `call[w]`, also
  inside a recursive call (`TypeOK`). `LedgerInv` is the conjunction. For what
  is derived (`DerivedInv`): a writer that has yet to write a checkpoint is
  ahead of every checkpoint for its position, since the position is its own
  debt; a window in hand is that of a checkpoint that exists, and its root stays
  that of the entries, since hashes never change.
- **Workers.** One ticket per position now includes the hands of workers; a copy
  is that of the entry (`CopyCurrent`) because nobody else holds the position; a
  ticket is of a pending entry until its worker has signed it (`TicketsPending`).
  LSET by a worker keeps what the writers' proofs need, so the two steps of the
  proof are the writers' lemmas again and one lemma per kind of worker step.
- **Counting.** A fault can be charged with at most one unpublished entry, and
  with two forgotten ones, a call's and its anchor's: each step adds to these
  sets only what it adds to `faults`: an entry whose reply was lost is one of
  them. It is never queued, so it is never signed or shipped, and the buffer has
  no event twice. For the queue, the load (the queue, the calls that owe an
  entry, those that may still nest, the workers that hold one) grows only when a
  call begins, and then the queue was below its limit.
- **Governance.** A pass, cached or read and not yet cached, was true when its
  check began (`PassesWereTrue`), whichever task caches it last. In the policy
  store every record that is or may become the policy is `Fine` under the
  two-person rule, in whoever's hands (`JobOK`), and belongs to a proposal only if
  somebody approved that (`Backed`), which stays known by the copy its decider
  holds. The configuration adds that a copy keeps the proposer.
- **Idempotency.** `IInv` ties the tables of a process together and charges each
  key that is in flight without an owner at work to one interrupt: a restart
  frees all keys of its process, and everything else that loses an owner is an
  interrupt itself.
- **Breaker, incidents, feeds, quotas.** `BreakerCoherent` is inductive over the
  three methods of the class. The count of an incident is at most that of the
  alerts saved and equal without a race, because then one alert at most is
  between reading and writing (`Tallied`). A cache was loaded from a version
  that was in force when the load began (`CallFits`), and with one call at a
  time the one that writes the record knows it (`WritesAlone`). The counter of a
  window that is not over has at least what was let through in it, since it
  outlives the window (`QuotaInv`); that the sum of the shares grows as one
  share does is an induction on the number of streams, by a least
  counterexample.
- **The copy on S3.** An entry is in one place at most (`InOnePlace`): on the
  list, in the batch of one loop, or of one day, which counts what a flush has
  read of the object and will write back; each step moves entries from one place
  to another, so none is on S3 twice whatever fails. Without two flushes at once
  what a flush has read is what the object has (`CopiesCurrent`), so nothing is
  overwritten. One loop alone writes the days in their order (`OneLoopInOrder`),
  so its batch goes on at the last entry of the copy and the check passes.
- **Proofs of inclusion.** A recursion over levels or positions is solved for
  every length by a least counterexample, so the lemmas speak of every level of
  a tree of any size: the proof of a leaf leads up to the root; and down from
  the root only the leaf of that position leads there, since a node gives away
  its two children, and a lower tree would make a hash of an entry a node.
  `BookInv` says what changed fields cannot do: they leave signatures as they
  are, and the hash of a changed anchor is no longer the one that is recomputed,
  so what bears a signature of what it says is what was appended, and its root
  that of the leaves in `anchored`.
- **Identity.** Whatever a request holds, and whatever is cached, was the set of
  published keys at a moment not long ago (`AsOf`): the answer of a fetch since
  the request began, the cache since at most two calls before the time stored for
  it. Each step costs at most one `CallTime`, and the sum is `Lag`.
- **Data of a session.** `DataInv` says of an erasure that has passed a deletion
  that its key holds nothing of what was there before (`GoneSoFar`), and who
  could still bring that back: a stream that is over writes no more, a running
  ingest whose items were read before is in `during` (`Apart`). An attempt at
  this proof failed for an erasure that overlaps another one of exemplars; TLC
  then found that behaviour, and `during` now has those too. `ProofInv` follows
  a request id no two calls used at once (`InOrder`): its erasures come one
  after the other, the cache and the index name the last that got so far,
  entries in the ledger have the order of the erasures, each erasure has at most
  one, and no search in flight is about to write the index of an older one.
- **Stream.** `TextCoherent` says that the committed prefix and the tail are the
  text, that what was streamed is the redaction of the prefix, and that a text
  that is gone on with has no match of its normalised form. The lemmas below it
  are about texts: the redaction of a prefix is a prefix of the redaction unless
  the cut changes what matches before it (`Uncut`), since a cut is a boundary;
  and what lies in a prefix of a text and matches the normalised text matches
  the normalised prefix too (`SpanOfPrefix`), so a match that ends before the
  line in hand would have stopped an earlier one. `Redact` is written without
  recursion, as the letters at the places that are kept, so that they can be
  proved.
- **Risk.** `RiskInv` keeps the verdict equal to the decision on the text and
  the facts it was judged on, and the property compares that with the second
  assessment: the same axes under the same policy cannot reach the unified
  threshold without having reached the one of the chunk.

- **Match.** Each of the four nested loops is a recursive function over a range;
  that it has a value at every step is again a least counterexample. A visit
  only adds to a match (`Grows`: what was hit stays hit, score and budget spent
  do not shrink) and keeps it honest (`Honest`: hits are there, the score is
  that of one of them), so both hold of every loop. Hits of the hashed loop are
  different rules that are there, each cost one check, so the budget was spent
  on no more than there are; and whatever window a rule occurs in is visited
  under its word count, with which some rule leads. Of the plaintext rules, the
  order of candidates is strict and total, so two never have one rank, and a
  rank past the budget means as many candidates that share at least as much with
  the text. A rule of three characters or more that occurs shares its first
  trigram, so it is a candidate.

Only model-checked: liveness under fairness (`EverySettled`, `SlotsReturn`,
`Recovers`, `AnsweredUnlessLost`, `CatchesUp`), because the prover has no rule for
ENABLED. Every invariant and every other action property that a passing run checks
is stated by a theorem above.

## 6. Mutants

Every property of every passing run has a mutant: an operator next to the
definition it replaces, with a bug somebody could write (a watch that does not
hold, an append that is retried after it succeeded, an off-by-one in the window,
a rule that is not asked, an object that is overwritten instead of extended). TLC
finds the property violated with the mutant in place, which says that the run
could tell.

## 7. Not modelled, and the plan

Data stays abstract throughout: hashes, regular expressions, JSON, timestamps.
Not modelled, because nothing in them interleaves or persists in more than one
write:

- the sanitiser, message validation, tool scoping and telemetry rules: pure
  functions on one request, whose result the models take as an input;
- the configuration, secrets, tracing and metrics: read or counted, compared with
  nothing;
- control plane reads, dashboards and views: they format what other modules model;
- `decision_authority.py`, contracts, domain and migration: no route calls them;
- the similarity of vectors (drift, semantic DLP): floats, of which the models
  take the score;
- the guard of the two-person rule on an empty subject
  (`policy_governance.py:84`): every admin of the models has one;
- delivery to webhooks: best effort, without state;
- the Streamlit client, the avatar and the scripts that start processes;
- `_completed` of the idempotency store grows with every request: no property
  can show that in a model with finitely many keys, and the code promises nothing.

Nothing of safety is left in the plan: what the passing runs check is proved but for
liveness. What the components above leave out is left out for the reasons given.
