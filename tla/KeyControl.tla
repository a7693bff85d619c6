----------------------------- MODULE KeyControl -----------------------------
(***************************************************************************)
(* What decides whether a process may use its signing key, and whether it  *)
(* takes requests: the dual control of the key with its cache              *)
(* (signing_audit.py), the health of the signer and the fail-safe gate     *)
(* (runtime_health.py), the readiness check (runtime_status_routes.py) and *)
(* the zeroizing of the signer (admin_security_routes.py).  Two tasks ask  *)
(* dual control: the signing worker, of which only what it tells the gate  *)
(* is kept here, and the readiness check.  The desired configuration is    *)
(* changed by the approvals of EnvConfigGovernance.                        *)
(***************************************************************************)
EXTENDS Integers

CONSTANTS
    KeyModes,      \* configurations: [dual, fips, prod, healthCheck, gate, keyId]
    OkTtl,         \* how long a pass is cached, 30 seconds in the code
    FailTtl,       \* how long a refusal is cached, 10 seconds in the code
    MaxBacklog,    \* bound of the model: positions in the queue
    MaxKeyTime,    \* bound of the model: ticks of the clock
    MaxKeyFaults   \* bound of the model: errors of Redis and of the KMS

ASSUME KeyControlAssumption ==
    /\ KeyModes \subseteq [{"dual", "fips", "prod", "healthCheck", "gate", "keyId"} -> BOOLEAN]
    /\ OkTtl \in Nat \ {0} /\ FailTtl \in Nat \ {0}
    /\ MaxBacklog \in Nat \ {0} /\ MaxKeyTime \in Nat /\ MaxKeyFaults \in Nat

VARIABLES
    mode,          \* the configuration the process was started with
    desiredKey,    \* the key of the desired configuration
    verdict,       \* _KMS_DUAL_CONTROL_CACHE: [ok, until]
    task,          \* the two tasks: [at, since, copy]
    signer,        \* the worker has loaded its signer
    signerOk,      \* SIGNER_HEALTH: ok
    selfTestOk,    \* SELF_TEST: ok
    toSign,        \* positions the worker has yet to sign
    keyNow,        \* the time
    keyFaults,     \* faults so far
    lastApproved,  \* when the desired key was last the running one
    shaken         \* the signer is unhealthy and nothing is left to try it again

keyVars == <<mode, desiredKey, verdict, task, signer, signerOk, selfTestOk,
             toSign, keyNow, keyFaults, lastApproved, shaken>>

(* What a desired record can say: approved for the running key; approved   *)
(* for another, for none, or without that key; or missing, unreadable or   *)
(* unapproved.  Dual control tells them apart only in the reason it gives. *)
DesiredKeys == {"running", "other", "missing"}
Never == -OkTtl - 1
Asleep == [at |-> "idle", since |-> 0, copy |-> "missing"]

KeyInit ==
    /\ mode \in KeyModes
    /\ desiredKey = "missing" /\ lastApproved = Never
    /\ verdict = [ok |-> TRUE, until |-> 0]
    /\ task = [t \in {"worker", "ready"} |-> Asleep]
    /\ signer = FALSE /\ signerOk = TRUE /\ selfTestOk = TRUE
    /\ toSign = 0 /\ keyNow = 0 /\ keyFaults = 0 /\ shaken = FALSE

KeyFault == keyFaults < MaxKeyFaults /\ keyFaults' = keyFaults + 1

(* enforce_kms_dual_control_or_raise: off, or not in PROD nor FIPS mode.   *)
Enforced == mode.dual /\ (mode.fips \/ mode.prod)

Fresh == verdict.until > keyNow

(* The first part of the check, before the GET: nothing to enforce, a      *)
(* cached verdict, no key id (which is not cached), or the time is taken.  *)
Begin(t) ==
    task' = [task EXCEPT ![t] = [Asleep EXCEPT !.since = keyNow, !.at =
        CASE ~Enforced             -> "passed"
          [] Enforced /\ Fresh     -> IF verdict.ok THEN "passed" ELSE "refused"
          [] Enforced /\ ~Fresh    -> IF mode.keyId THEN "get" ELSE "refused"]]

(* The GET of the desired record.                                          *)
GetDesired(t) ==
    /\ task[t].at = "get"
    /\ task' = [task EXCEPT ![t].at = "got", ![t].copy = desiredKey]
    /\ UNCHANGED <<mode, desiredKey, verdict, signer, signerOk, selfTestOk, toSign, keyNow, keyFaults,
                   lastApproved, shaken>>

GetDesiredFails(t) ==
    /\ KeyFault
    /\ task[t].at = "get"
    /\ task' = [task EXCEPT ![t].at = "refused"]
    /\ UNCHANGED <<mode, desiredKey, verdict, signer, signerOk, selfTestOk, toSign, keyNow,
                   lastApproved, shaken>>

(* Mutant of CachedFrom: a verdict ages from the answer, not the question. *)
FromTheAnswer(t) == keyNow

CachedFrom(t) == task[t].since

(* The answer is there, the other task may have cached another meanwhile.  *)
Settle(t) ==
    LET ok == task[t].copy = "running"
    IN  /\ task[t].at = "got"
        /\ verdict' = [ok |-> ok, until |-> CachedFrom(t) + (IF ok THEN OkTtl ELSE FailTtl)]
        /\ task' = [task EXCEPT ![t].at = IF ok THEN "passed" ELSE "refused"]
        /\ UNCHANGED <<mode, desiredKey, signer, signerOk, selfTestOk, toSign, keyNow, keyFaults,
                       lastApproved, shaken>>

---------------------------------------------------------------------------
(* The signing worker.  load_signer_for_worker needs a key id in PROD and   *)
(* in FIPS mode; outside them a development key may be there or not.       *)
HasSigner == mode.keyId \/ ~(mode.fips \/ mode.prod)

LoadWorkerSigner ==
    /\ task["worker"].at = "idle" /\ ~signer
    /\ HasSigner
    /\ signer' = TRUE /\ signerOk' = TRUE /\ shaken' = FALSE
    /\ UNCHANGED <<mode, desiredKey, verdict, task, selfTestOk, toSign, keyNow, keyFaults,
                   lastApproved>>

LoadWorkerSignerFails ==
    /\ task["worker"].at = "idle" /\ ~signer
    /\ IF HasSigner THEN KeyFault ELSE UNCHANGED keyFaults
    /\ signerOk' = FALSE
    /\ UNCHANGED <<mode, desiredKey, verdict, task, signer, selfTestOk, toSign, keyNow,
                   lastApproved, shaken>>

PopToSign ==
    /\ task["worker"].at = "idle" /\ signer /\ toSign > 0
    /\ Begin("worker")
    /\ UNCHANGED <<mode, desiredKey, verdict, signer, signerOk, selfTestOk, toSign, keyNow, keyFaults,
                   lastApproved, shaken>>

(* Mutant of StillToSign: a refused position is not put back. *)
DropsIt == toSign - 1

StillToSign == toSign

(* Dual control refused: unhealthy, and the position goes round again,     *)
(* unless putting it back fails, which is swallowed.                       *)
WorkerRefused ==
    /\ task["worker"].at = "refused"
    /\ signerOk' = FALSE
    /\ \/ toSign' = StillToSign /\ UNCHANGED <<keyFaults, shaken>>
       \/ KeyFault /\ toSign' = toSign - 1 /\ shaken' = TRUE
    /\ task' = [task EXCEPT !["worker"] = Asleep]
    /\ UNCHANGED <<mode, desiredKey, verdict, signer, selfTestOk, keyNow, lastApproved>>

(* BLPOP raises, or the read of the entry after it: the loop goes on.      *)
WorkerRaises ==
    /\ KeyFault
    /\ task["worker"].at = "idle" /\ signer
    /\ signerOk' = FALSE /\ shaken' = TRUE
    /\ toSign' \in {toSign, IF toSign > 0 THEN toSign - 1 ELSE toSign}
    /\ UNCHANGED <<mode, desiredKey, verdict, task, signer, selfTestOk, keyNow, lastApproved>>

(* A position goes without a signature of this process: the worker of      *)
(* another one, which shares the queue but not this SIGNER_HEALTH, signs   *)
(* it, or this one finds it settled, missing or altered.                   *)
SettledWithoutSigning ==
    /\ toSign > (IF task["worker"].at = "idle" THEN 0 ELSE 1)
    /\ toSign' = toSign - 1
    /\ shaken' = (shaken \/ (~signerOk /\ toSign' = 0))
    /\ UNCHANGED <<mode, desiredKey, verdict, task, signer, signerOk, selfTestOk, keyNow, keyFaults,
                   lastApproved>>

WorkerSigns ==
    /\ task["worker"].at = "passed"
    /\ signerOk' = TRUE /\ toSign' = toSign - 1 /\ shaken' = FALSE
    /\ task' = [task EXCEPT !["worker"] = Asleep]
    /\ UNCHANGED <<mode, desiredKey, verdict, signer, selfTestOk, keyNow, keyFaults, lastApproved>>

(* The KMS raises: the position is put back, or given up at the limit or   *)
(* with a command of Redis that fails.                                     *)
WorkerSignFails ==
    /\ KeyFault
    /\ task["worker"].at = "passed"
    /\ signerOk' = FALSE
    /\ \/ toSign' = toSign /\ UNCHANGED shaken
       \/ toSign' = toSign - 1 /\ shaken' = TRUE
    /\ task' = [task EXCEPT !["worker"] = Asleep]
    /\ UNCHANGED <<mode, desiredKey, verdict, signer, selfTestOk, keyNow, lastApproved>>

---------------------------------------------------------------------------
(* The gate, the readiness check and the administrators.                   *)

(* enforce_failsafe_or_raise; the memory of Redis, read last, may be below *)
(* its limit or not at any time, so that an open gate may still refuse.    *)
GateOpen == ~mode.gate \/ (selfTestOk /\ signerOk)

(* A request passes the gate and is recorded; what an administrator does   *)
(* is recorded without it.                                                 *)
Recorded(gated) ==
    /\ toSign < MaxBacklog
    /\ gated => GateOpen
    /\ toSign' = toSign + 1
    /\ UNCHANGED <<mode, desiredKey, verdict, task, signer, signerOk, selfTestOk, keyNow, keyFaults,
                   lastApproved, shaken>>

Probes == mode.prod /\ mode.healthCheck

(* readyz: the gate first; then, in PROD, dual control and a signature.    *)
Readyz ==
    /\ task["ready"].at = "idle"
    /\ GateOpen
    /\ IF Probes THEN Begin("ready")
         ELSE task' = [task EXCEPT !["ready"] = [Asleep EXCEPT !.at = "ready", !.since = keyNow]]
    /\ UNCHANGED <<mode, desiredKey, verdict, signer, signerOk, selfTestOk, toSign, keyNow, keyFaults,
                   lastApproved, shaken>>

(* The probe was refused, or its own signer failed to load or to sign.     *)
ProbeFails ==
    /\ \/ task["ready"].at = "refused" /\ UNCHANGED keyFaults
       \/ /\ task["ready"].at = "passed"
          /\ IF HasSigner THEN KeyFault ELSE UNCHANGED keyFaults
    /\ signerOk' = FALSE /\ shaken' = TRUE
    /\ task' = [task EXCEPT !["ready"] = Asleep]
    /\ UNCHANGED <<mode, desiredKey, verdict, signer, selfTestOk, toSign, keyNow, lastApproved>>

ProbeSigns ==
    /\ task["ready"].at = "passed" /\ HasSigner
    /\ signerOk' = TRUE /\ shaken' = FALSE
    /\ task' = [task EXCEPT !["ready"].at = "ready"]
    /\ UNCHANGED <<mode, desiredKey, verdict, signer, selfTestOk, toSign, keyNow, keyFaults,
                   lastApproved>>

(* The answer, 200 or (the backlog is critical) 503.                       *)
Answered ==
    /\ task["ready"].at = "ready"
    /\ task' = [task EXCEPT !["ready"] = Asleep]
    /\ UNCHANGED <<mode, desiredKey, verdict, signer, signerOk, selfTestOk, toSign, keyNow, keyFaults,
                   lastApproved, shaken>>

(* admin_failsafe_zeroize: a signer loaded for the purpose is zeroized, the*)
(* one of the worker is not; the health is marked.                         *)
Zeroize ==
    /\ signerOk' = FALSE /\ shaken' = TRUE
    /\ toSign' \in {toSign, IF toSign < MaxBacklog THEN toSign + 1 ELSE toSign}
    /\ UNCHANGED <<mode, desiredKey, verdict, task, signer, selfTestOk, keyNow, keyFaults, lastApproved>>

(* The file of the program has changed, or cannot be read: for good.       *)
SelfTestFails ==
    /\ selfTestOk /\ KeyFault
    /\ selfTestOk' = FALSE
    /\ UNCHANGED <<mode, desiredKey, verdict, task, signer, signerOk, toSign, keyNow,
                   lastApproved, shaken>>

(* The desired configuration is approved anew.                             *)
DesiredMoves(k) ==
    /\ k # desiredKey
    /\ desiredKey' = k
    /\ lastApproved' = IF "running" \in {k, desiredKey} THEN keyNow ELSE lastApproved
    /\ UNCHANGED <<mode, verdict, task, signer, signerOk, selfTestOk, toSign, keyNow, keyFaults, shaken>>

KeyTick ==
    /\ keyNow < MaxKeyTime
    /\ keyNow' = keyNow + 1
    /\ lastApproved' = IF desiredKey = "running" THEN keyNow + 1 ELSE lastApproved
    /\ UNCHANGED <<mode, desiredKey, verdict, task, signer, signerOk, selfTestOk, toSign, keyFaults, shaken>>

KeyNext ==
    \/ \E t \in {"worker", "ready"} : GetDesired(t) \/ GetDesiredFails(t) \/ Settle(t)
    \/ LoadWorkerSigner \/ LoadWorkerSignerFails \/ PopToSign \/ WorkerRefused
    \/ WorkerRaises \/ SettledWithoutSigning \/ WorkerSigns \/ WorkerSignFails
    \/ \E gated \in BOOLEAN : Recorded(gated)
    \/ Readyz \/ ProbeFails \/ ProbeSigns \/ Answered
    \/ Zeroize \/ SelfTestFails
    \/ \E k \in DesiredKeys : DesiredMoves(k)
    \/ KeyTick

KeySpec == KeyInit /\ [][KeyNext]_keyVars

---------------------------------------------------------------------------
(* The key signs only with approval.  Whenever dual control lets a task    *)
(* use the key, the desired configuration named the running key at a       *)
(* moment since the check began or less than 30 seconds before it, however *)
(* late the answers of Redis come and whichever task wrote the cache last. *)
KeyUseApproved ==
    \A t \in DOMAIN task :
        task[t].at = "passed" /\ Enforced => lastApproved > task[t].since - OkTtl

(* A refusal of dual control, or a signature that is tried again, never    *)
(* shuts the gate for good: the worker has a position left to sign, or its *)
(* signer to load.  What can (shaken): a signature given up, a command of  *)
(* Redis that fails the worker or loses its position, a probe that fails,  *)
(* the zeroizing, and a last position that goes without this process       *)
(* signing it.                                                             *)
GateCanReopen == ~signerOk => toSign > 0 \/ ~signer \/ shaken

(* What makes these inductive: a pass that is cached, or read and not yet  *)
(* cached, was true when the check that asked began, and a worker at work  *)
(* has a position.                                                         *)
TaskPlaces == {"idle", "get", "got", "passed", "refused", "ready"}

KeyTypeOK ==
    /\ mode \in KeyModes /\ desiredKey \in DesiredKeys
    /\ verdict \in [ok : BOOLEAN, until : Nat]
    /\ task \in [{"worker", "ready"} -> [at : TaskPlaces, since : Nat, copy : DesiredKeys]]
    /\ signer \in BOOLEAN /\ signerOk \in BOOLEAN /\ selfTestOk \in BOOLEAN /\ shaken \in BOOLEAN
    /\ toSign \in 0 .. MaxBacklog /\ keyNow \in 0 .. MaxKeyTime /\ keyFaults \in 0 .. MaxKeyFaults
    /\ lastApproved \in Int

PassesWereTrue ==
    /\ lastApproved <= keyNow
    /\ desiredKey = "running" => lastApproved = keyNow
    /\ verdict.ok => verdict.until = 0 \/ lastApproved >= verdict.until - OkTtl
    /\ \A t \in DOMAIN task :
          /\ task[t].since <= keyNow
          /\ task[t].at = "got" /\ task[t].copy = "running" => lastApproved >= task[t].since

WorkerHasWork == task["worker"].at \in {"get", "got", "passed", "refused"} => toSign > 0

KeyInv ==
    KeyTypeOK /\ PassesWereTrue /\ WorkerHasWork /\ KeyUseApproved /\ GateCanReopen
=============================================================================
