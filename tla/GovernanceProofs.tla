-------------------------- MODULE GovernanceProofs --------------------------
(***************************************************************************)
(* Theorems about the governance of one tenant: the control of its signing *)
(* key, its policy, its desired configuration and the keys of its identity *)
(* provider, for any values of the constants.                              *)
(***************************************************************************)
EXTENDS PolicyGovernance, EnvConfigGovernance, KeyControl, Identity,
        SequenceTheorems, FiniteSetTheorems, WellFoundedInduction, TLAPS

-----------------------------------------------------------------------------
(* The signing key.                                                        *)

(* The two tasks of dual control.                                         *)
Tasks == {"worker", "ready"}
TaskStates == [at : TaskPlaces, since : Nat, copy : DesiredKeys]

(* One task moves, the other does not.                                     *)
LEMMA OneTaskMoves ==
    ASSUME task \in [Tasks -> TaskStates], NEW t \in Tasks, NEW r \in TaskStates,
           task' = [task EXCEPT ![t] = r]
    PROVE  /\ task' \in [Tasks -> TaskStates] /\ DOMAIN task' = Tasks
           /\ task'[t] = r /\ \A u \in Tasks \ {t} : task'[u] = task[u]
OBVIOUS

(* A task that has nothing to do.                                          *)
LEMMA AsleepFacts == Asleep = [at |-> "idle", since |-> 0, copy |-> "missing"] /\ Asleep \in TaskStates
BY DEF Asleep, TaskStates, TaskPlaces, DesiredKeys

(* What a task finds when it begins to ask: with a pass, the cache held    *)
(* one that is still fresh, so it was true less than OkTtl ago.            *)
LEMMA BeginFacts ==
    ASSUME KeyControlAssumption, KeyInv, NEW t \in Tasks, Begin(t)
    PROVE  \E place \in {"passed", "refused", "get"} :
              LET r == [at |-> place, since |-> keyNow, copy |-> "missing"]
              IN  /\ task' = [task EXCEPT ![t] = r] /\ r \in TaskStates
                  /\ place = "passed" /\ Enforced => lastApproved > keyNow - OkTtl
<1>1. PICK place \in {"passed", "refused", "get"} :
          /\ task' = [task EXCEPT ![t] = [Asleep EXCEPT !.since = keyNow, !.at = place]]
          /\ place = "passed" /\ Enforced => Fresh /\ verdict.ok
  <2> DEFINE place == CASE ~Enforced             -> "passed"
                        [] Enforced /\ Fresh     -> IF verdict.ok THEN "passed" ELSE "refused"
                        [] Enforced /\ ~Fresh    -> IF mode.keyId THEN "get" ELSE "refused"
  <2>1. /\ place \in {"passed", "refused", "get"}
        /\ place = "passed" /\ Enforced => Fresh /\ verdict.ok
    OBVIOUS
  <2>2. task' = [task EXCEPT ![t] = [Asleep EXCEPT !.since = keyNow, !.at = place]]
    BY Zenon DEF Begin
  <2> QED
    BY <2>1, <2>2
<1>2. [Asleep EXCEPT !.since = keyNow, !.at = place] = [at |-> place, since |-> keyNow, copy |-> "missing"]
  <2> DEFINE A == [at |-> "idle", since |-> 0, copy |-> "missing"]
             B == [at |-> "idle", since |-> keyNow, copy |-> "missing"]
             C == [at |-> place, since |-> keyNow, copy |-> "missing"]
  <2>1. [A EXCEPT !.since = keyNow] = B
    OBVIOUS
  <2>2. [B EXCEPT !.at = place] = C
    OBVIOUS
  <2>3. Asleep = A
    BY DEF Asleep
  <2> HIDE DEF A, B
  <2> QED
    BY <2>1, <2>2, <2>3, Zenon
<1>3. Fresh /\ verdict.ok => lastApproved > keyNow - OkTtl
  BY DEF Fresh, PassesWereTrue, KeyInv, KeyTypeOK, KeyControlAssumption
<1>4. [at |-> place, since |-> keyNow, copy |-> "missing"] \in TaskStates
  BY DEF KeyInv, KeyTypeOK, KeyControlAssumption, TaskPlaces, DesiredKeys, TaskStates
<1> QED
  BY <1>1, <1>2, <1>3, <1>4

(* A change of a task's place, and of what it has read.                    *)
LEMMA TaskGoes ==
    ASSUME task \in [Tasks -> TaskStates], NEW t \in Tasks, NEW place \in TaskPlaces,
           NEW k \in DesiredKeys
    PROVE  /\ LET r == [at |-> place, since |-> task[t].since, copy |-> task[t].copy]
              IN  [task EXCEPT ![t].at = place] = [task EXCEPT ![t] = r] /\ r \in TaskStates
           /\ LET r == [at |-> place, since |-> task[t].since, copy |-> k]
              IN  [task EXCEPT ![t].at = place, ![t].copy = k] = [task EXCEPT ![t] = r]
                  /\ r \in TaskStates
<1> DEFINE e == task[t]
           a == [at |-> place, since |-> e.since, copy |-> e.copy]
           b == [at |-> place, since |-> e.since, copy |-> k]
<1>1. e \in TaskStates
  OBVIOUS
<1>2. a \in TaskStates /\ b \in TaskStates
  BY <1>1 DEF TaskStates
<1>3. [e EXCEPT !.at = place] = a /\ [a EXCEPT !.copy = k] = b
  BY <1>1 DEF TaskStates
<1>4. [task EXCEPT ![t].at = place] = [task EXCEPT ![t] = a]
  BY <1>3
<1>5. [task EXCEPT ![t].at = place, ![t].copy = k] = [task EXCEPT ![t] = b]
  <2>1. [task EXCEPT ![t].at = place, ![t].copy = k]
          = [[task EXCEPT ![t] = a] EXCEPT ![t] = [[task EXCEPT ![t] = a][t] EXCEPT !.copy = k]]
    BY <1>4, Zenon
  <2>2. [task EXCEPT ![t] = a][t] = a
    OBVIOUS
  <2>3. [[task EXCEPT ![t] = a] EXCEPT ![t] = b] = [task EXCEPT ![t] = b]
    OBVIOUS
  <2> QED
    BY <1>3, <2>1, <2>2, <2>3, Zenon
<1> QED
  BY <1>2, <1>4, <1>5

(* The first states.                                                       *)
LEMMA KeyInitOK == KeyControlAssumption /\ KeyInit => KeyInv
<1> SUFFICES ASSUME KeyControlAssumption, KeyInit PROVE KeyInv
  OBVIOUS
<1> USE DEF KeyControlAssumption, KeyInit
<1>1. Asleep \in TaskStates /\ \A t \in Tasks : task[t] = Asleep
  BY AsleepFacts DEF Tasks
<1>2. task \in [Tasks -> TaskStates] /\ DOMAIN task = Tasks
  BY <1>1 DEF Tasks
<1>3. KeyTypeOK
  <2>1. verdict \in [ok : BOOLEAN, until : Nat] /\ lastApproved \in Int
    BY DEF Never
  <2>2. toSign \in 0 .. MaxBacklog /\ keyNow \in 0 .. MaxKeyTime /\ keyFaults \in 0 .. MaxKeyFaults
    OBVIOUS
  <2> QED
    BY <1>2, <2>1, <2>2, Zenon DEF KeyTypeOK, Tasks, TaskStates, DesiredKeys
<1>4. PassesWereTrue
  BY <1>1, <1>2, AsleepFacts DEF PassesWereTrue, Never
<1>5. WorkerHasWork /\ KeyUseApproved /\ GateCanReopen
  BY <1>1, <1>2, AsleepFacts DEF WorkerHasWork, KeyUseApproved, GateCanReopen, Tasks
<1> QED
  BY <1>3, <1>4, <1>5 DEF KeyInv

(* Steps that leave both tasks as they are.                                *)
QuietStep ==
    \/ LoadWorkerSigner \/ LoadWorkerSignerFails \/ Zeroize \/ SelfTestFails \/ KeyTick
    \/ \E gated \in BOOLEAN : Recorded(gated)
    \/ \E k \in DesiredKeys : DesiredMoves(k)

(* They change nothing that an approval or the gate depends on.            *)
LEMMA QuietKeeps ==
    ASSUME KeyControlAssumption, KeyInv, QuietStep
    PROVE  KeyInv'
<1> USE DEF KeyInv, KeyTypeOK, KeyControlAssumption
<1>1. UNCHANGED <<task, mode>>
  BY Zenon DEF QuietStep, LoadWorkerSigner, LoadWorkerSignerFails, Zeroize, SelfTestFails, KeyTick,
               Recorded, DesiredMoves
<1>2. /\ keyNow' \in keyNow .. keyNow + 1 /\ keyNow' <= MaxKeyTime
      /\ lastApproved' \in {lastApproved, keyNow'}
      /\ desiredKey' \in DesiredKeys /\ (desiredKey' = "running" => lastApproved' = keyNow')
      /\ UNCHANGED verdict
  BY DEF PassesWereTrue, QuietStep, LoadWorkerSigner, LoadWorkerSignerFails, Zeroize, SelfTestFails,
         KeyTick, Recorded, DesiredMoves
<1>3. /\ toSign' \in toSign .. MaxBacklog /\ keyFaults' \in 0 .. MaxKeyFaults
      /\ signer' \in BOOLEAN /\ signerOk' \in BOOLEAN /\ selfTestOk' \in BOOLEAN /\ shaken' \in BOOLEAN
  <2>1. toSign' \in toSign .. MaxBacklog
    BY DEF QuietStep, LoadWorkerSigner, LoadWorkerSignerFails, Zeroize, SelfTestFails, KeyTick,
           Recorded, DesiredMoves
  <2>2. keyFaults' \in 0 .. MaxKeyFaults
    <3>1. UNCHANGED keyFaults \/ KeyFault
      BY Zenon DEF QuietStep, LoadWorkerSigner, LoadWorkerSignerFails, Zeroize, SelfTestFails,
                   KeyTick, Recorded, DesiredMoves
    <3> QED
      BY <3>1 DEF KeyFault
  <2>3. signer' \in BOOLEAN /\ signerOk' \in BOOLEAN /\ selfTestOk' \in BOOLEAN /\ shaken' \in BOOLEAN
    BY Zenon DEF QuietStep, LoadWorkerSigner, LoadWorkerSignerFails, Zeroize, SelfTestFails,
                 KeyTick, Recorded, DesiredMoves
  <2> QED
    BY <2>1, <2>2, <2>3
<1>4. KeyTypeOK'
  BY <1>1, <1>2, <1>3
<1>5. PassesWereTrue' /\ KeyUseApproved'
  BY <1>1, <1>2 DEF PassesWereTrue, KeyUseApproved, Enforced
<1>6. WorkerHasWork'
  BY <1>1, <1>3 DEF WorkerHasWork
<1>7. GateCanReopen'
  BY <1>3 DEF GateCanReopen, QuietStep, LoadWorkerSigner, LoadWorkerSignerFails, Zeroize,
         SelfTestFails, KeyTick, Recorded, DesiredMoves
<1> QED
  BY <1>4, <1>5, <1>6, <1>7

(* A step of a task: where it stands, and what else changes.               *)
LEMMA TaskKeeps ==
    ASSUME KeyControlAssumption, KeyInv, NEW t \in Tasks, NEW r \in TaskStates,
           task' = [task EXCEPT ![t] = r],
           UNCHANGED <<mode, desiredKey, keyNow, lastApproved>>,
           \/ UNCHANGED verdict
           \/ /\ verdict' \in [ok : BOOLEAN, until : Nat]
              /\ verdict'.ok => lastApproved >= verdict'.until - OkTtl,
           r.since <= keyNow,
           r.at = "got" /\ r.copy = "running" => lastApproved >= r.since,
           r.at = "passed" /\ Enforced => lastApproved > r.since - OkTtl,
           t = "worker" /\ r.at \in {"get", "got", "passed", "refused"} => toSign > 0,
           \/ t = "worker" /\ r.at = "idle" /\ toSign' \in {toSign, toSign - 1} /\ toSign > 0
           \/ UNCHANGED toSign,
           keyFaults' \in 0 .. MaxKeyFaults,
           signer' = signer /\ selfTestOk' = selfTestOk,
           signerOk' \in BOOLEAN, shaken' \in BOOLEAN, GateCanReopen'
    PROVE  KeyInv'
<1> USE DEF KeyInv, KeyTypeOK, KeyControlAssumption
<1>1. task \in [Tasks -> TaskStates]
  BY DEF Tasks, TaskStates
<1>2. /\ task' \in [Tasks -> TaskStates] /\ DOMAIN task' = Tasks /\ DOMAIN task = Tasks
      /\ task'[t] = r /\ \A u \in Tasks \ {t} : task'[u] = task[u]
  BY <1>1, OneTaskMoves
<1>3. toSign' \in 0 .. MaxBacklog
  OBVIOUS
<1>4. KeyTypeOK'
  <2>1. verdict' \in [ok : BOOLEAN, until : Nat]
    OBVIOUS
  <2> QED
    BY <1>2, <1>3, <2>1, Zenon DEF Tasks, TaskStates
<1>5. PassesWereTrue' /\ KeyUseApproved'
  BY <1>2 DEF PassesWereTrue, KeyUseApproved, Enforced
<1>6. WorkerHasWork'
  BY <1>2 DEF WorkerHasWork, Tasks
<1> QED
  BY <1>4, <1>5, <1>6

(* Dual control, from the GET to the verdict.                              *)
LEMMA AskingKeeps ==
    ASSUME KeyControlAssumption, KeyInv, NEW t \in Tasks,
           GetDesired(t) \/ GetDesiredFails(t) \/ Settle(t)
    PROVE  KeyInv'
<1> USE DEF KeyInv, KeyTypeOK, KeyControlAssumption
<1>1. task[t] \in TaskStates /\ task \in [Tasks -> TaskStates]
  BY DEF Tasks, TaskStates
<1>2. GateCanReopen'
  BY DEF GetDesired, GetDesiredFails, Settle, GateCanReopen
<1>3. CASE GetDesired(t)
  <2> DEFINE r == [at |-> "got", since |-> task[t].since, copy |-> desiredKey]
  <2>1. task' = [task EXCEPT ![t] = r] /\ r \in TaskStates
    BY <1>1, <1>3, TaskGoes DEF GetDesired, TaskPlaces
  <2>2. r.since <= keyNow /\ (r.copy = "running" => lastApproved >= r.since)
        /\ (t = "worker" => toSign > 0)
    BY <1>1, <1>3 DEF GetDesired, PassesWereTrue, WorkerHasWork, Tasks
  <2> QED
    BY <1>2, <1>3, <2>1, <2>2, TaskKeeps DEF GetDesired
<1>4. CASE GetDesiredFails(t)
  <2> DEFINE r == [at |-> "refused", since |-> task[t].since, copy |-> task[t].copy]
  <2>1. task' = [task EXCEPT ![t] = r] /\ r \in TaskStates
    BY <1>1, <1>4, TaskGoes DEF GetDesiredFails, TaskPlaces, TaskStates
  <2>2. r.since <= keyNow /\ (t = "worker" => toSign > 0) /\ keyFaults' \in 0 .. MaxKeyFaults
    BY <1>1, <1>4 DEF GetDesiredFails, KeyFault, PassesWereTrue, WorkerHasWork, Tasks
  <2> QED
    BY <1>2, <1>4, <2>1, <2>2, TaskKeeps DEF GetDesiredFails
<1>5. CASE Settle(t)
  <2> DEFINE ok == task[t].copy = "running"
             place == IF ok THEN "passed" ELSE "refused"
             ttl == IF ok THEN OkTtl ELSE FailTtl
             r == [at |-> place, since |-> task[t].since, copy |-> task[t].copy]
  <2>1. /\ task[t].at = "got" /\ task' = [task EXCEPT ![t].at = place]
        /\ verdict' = [ok |-> ok, until |-> task[t].since + ttl]
        /\ UNCHANGED <<mode, desiredKey, signer, signerOk, selfTestOk, toSign, keyNow, keyFaults,
                       lastApproved, shaken>>
    BY <1>5, Zenon DEF Settle, CachedFrom
  <2>2. /\ place \in {"passed", "refused"} /\ (place = "passed" <=> ok)
        /\ ttl \in Nat /\ (ok => ttl = OkTtl)
    OBVIOUS
  <2>3. r.since <= keyNow /\ (ok => lastApproved >= r.since) /\ (t = "worker" => toSign > 0)
        /\ r.since \in Nat /\ task[t].since = r.since
    BY <1>1, <2>1 DEF PassesWereTrue, WorkerHasWork, Tasks, TaskStates
  <2> HIDE DEF place, ttl
  <2>4. task' = [task EXCEPT ![t] = r] /\ r \in TaskStates
    <3>1. place \in TaskPlaces /\ task[t].copy \in DesiredKeys
      BY <1>1, <2>2 DEF TaskPlaces, TaskStates
    <3> QED
      BY <1>1, <2>1, <3>1, TaskGoes, Zenon
  <2>5. r.at = place /\ (ok => lastApproved > r.since - OkTtl)
    BY <2>3
  <2> HIDE DEF r
  <2>6. verdict' \in [ok : BOOLEAN, until : Nat] /\ (verdict'.ok <=> ok)
        /\ verdict'.until = r.since + ttl
    <3>1. ok \in BOOLEAN /\ r.since + ttl \in Nat
      BY <2>2, <2>3
    <3>2. verdict' = [ok |-> ok, until |-> r.since + ttl]
      BY <2>1, <2>3
    <3> HIDE DEF ok
    <3> QED
      BY <3>1, <3>2, Zenon
  <2>7. verdict'.ok => lastApproved >= verdict'.until - OkTtl
    BY <2>2, <2>3, <2>6
  <2>8. keyFaults' \in 0 .. MaxKeyFaults /\ signerOk' \in BOOLEAN /\ shaken' \in BOOLEAN
    BY <2>1
  <2> QED
    BY <1>2, <2>1, <2>2, <2>3, <2>4, <2>5, <2>6, <2>7, <2>8, TaskKeeps
<1> QED
  BY <1>3, <1>4, <1>5

(* A check begins.                                                         *)
LEMMA BeginKeeps ==
    ASSUME KeyControlAssumption, KeyInv, NEW t \in Tasks, Begin(t),
           t = "worker" => toSign > 0,
           UNCHANGED <<mode, desiredKey, verdict, signer, signerOk, selfTestOk, toSign, keyNow,
                       keyFaults, lastApproved, shaken>>
    PROVE  KeyInv'
<1>1. PICK place \in {"passed", "refused", "get"} :
          LET r == [at |-> place, since |-> keyNow, copy |-> "missing"]
          IN  /\ task' = [task EXCEPT ![t] = r] /\ r \in TaskStates
              /\ place = "passed" /\ Enforced => lastApproved > keyNow - OkTtl
  BY BeginFacts
<1> DEFINE r == [at |-> place, since |-> keyNow, copy |-> "missing"]
<1>2. r.since <= keyNow /\ r.at = place /\ r.copy = "missing" /\ keyFaults' \in 0 .. MaxKeyFaults
  BY DEF KeyInv, KeyTypeOK, KeyControlAssumption
<1>3. GateCanReopen' /\ signerOk' \in BOOLEAN /\ shaken' \in BOOLEAN
  BY Zenon DEF KeyInv, KeyTypeOK, GateCanReopen
<1> QED
  BY <1>1, <1>2, <1>3, TaskKeeps

(* The worker and the readiness check.                                     *)
LEMMA WorkingKeeps ==
    ASSUME KeyControlAssumption, KeyInv,
           \/ PopToSign \/ WorkerRefused \/ WorkerSigns \/ WorkerSignFails
           \/ WorkerRaises \/ SettledWithoutSigning
           \/ Readyz \/ ProbeFails \/ ProbeSigns \/ Answered
    PROVE  KeyInv'
<1>a. Asleep \in TaskStates /\ Asleep.at = "idle" /\ Asleep.since <= keyNow
  BY AsleepFacts DEF KeyInv, KeyTypeOK, KeyControlAssumption
<1>1. CASE PopToSign
  BY <1>1, BeginKeeps DEF PopToSign, Tasks
<1>2. CASE WorkerRefused \/ WorkerSigns \/ WorkerSignFails
  <2>1. task' = [task EXCEPT !["worker"] = Asleep] /\ toSign > 0
        /\ toSign' \in {toSign, toSign - 1}
        /\ UNCHANGED <<mode, desiredKey, verdict, keyNow, lastApproved, signer, selfTestOk>>
    BY <1>2 DEF WorkerRefused, WorkerSigns, WorkerSignFails, StillToSign, WorkerHasWork, KeyInv
  <2>2. keyFaults' \in 0 .. MaxKeyFaults
    BY <1>2 DEF WorkerRefused, WorkerSigns, WorkerSignFails, KeyFault, KeyInv, KeyTypeOK, KeyControlAssumption
  <2>3. signerOk' \in BOOLEAN /\ shaken' \in BOOLEAN
    BY <1>2, Zenon DEF WorkerRefused, WorkerSigns, WorkerSignFails, KeyInv, KeyTypeOK
  <2>4. GateCanReopen'
    BY <1>2, <2>1 DEF WorkerRefused, WorkerSigns, WorkerSignFails, StillToSign, GateCanReopen,
                        KeyInv, KeyTypeOK
  <2> QED
    BY <1>a, <2>1, <2>2, <2>3, <2>4, TaskKeeps DEF Tasks
<1>3. CASE ProbeFails \/ Answered
  <2>1. task' = [task EXCEPT !["ready"] = Asleep]
        /\ UNCHANGED <<mode, desiredKey, verdict, keyNow, lastApproved, signer, selfTestOk, toSign>>
    BY <1>3 DEF ProbeFails, Answered
  <2>2. keyFaults' \in 0 .. MaxKeyFaults
    BY <1>3 DEF ProbeFails, Answered, KeyFault, KeyInv, KeyTypeOK, KeyControlAssumption
  <2>3. signerOk' \in BOOLEAN /\ shaken' \in BOOLEAN
    BY <1>3, Zenon DEF ProbeFails, Answered, KeyInv, KeyTypeOK
  <2>4. GateCanReopen'
    BY <1>3 DEF ProbeFails, Answered, GateCanReopen, KeyInv
  <2> QED
    BY <1>a, <2>1, <2>2, <2>3, <2>4, TaskKeeps DEF Tasks
<1> USE DEF KeyInv, KeyTypeOK, KeyControlAssumption
<1>6. CASE WorkerRaises \/ SettledWithoutSigning
  <2>1. /\ UNCHANGED <<task, mode, desiredKey, verdict, keyNow, lastApproved, signer, selfTestOk>>
        /\ toSign' \in 0 .. MaxBacklog
        /\ task["worker"].at \in {"get", "got", "passed", "refused"} => toSign' > 0
    BY <1>6 DEF WorkerRaises, SettledWithoutSigning
  <2>2. keyFaults' \in 0 .. MaxKeyFaults /\ signerOk' \in BOOLEAN /\ shaken' \in BOOLEAN
    <3>1. keyFaults' \in 0 .. MaxKeyFaults
      BY <1>6 DEF WorkerRaises, SettledWithoutSigning, KeyFault
    <3>2. signerOk' \in BOOLEAN /\ shaken' \in BOOLEAN
      BY <1>6, Zenon DEF WorkerRaises, SettledWithoutSigning
    <3> QED
      BY <3>1, <3>2
  <2>3. KeyTypeOK'
    BY <2>1, <2>2
  <2>4. PassesWereTrue' /\ KeyUseApproved' /\ WorkerHasWork'
    BY <2>1 DEF PassesWereTrue, KeyUseApproved, Enforced, WorkerHasWork
  <2>5. GateCanReopen'
    BY <1>6, <2>1 DEF WorkerRaises, SettledWithoutSigning, GateCanReopen
  <2> QED
    BY <2>3, <2>4, <2>5
<1>4. CASE Readyz
  <2>1. CASE Probes
    BY <1>4, <2>1, BeginKeeps DEF Readyz, Tasks
  <2>2. CASE ~Probes
    <3> DEFINE r == [at |-> "ready", since |-> keyNow, copy |-> "missing"]
    <3>1. task' = [task EXCEPT !["ready"] = r]
      <4>1. task' = [task EXCEPT !["ready"] = [Asleep EXCEPT !.at = "ready", !.since = keyNow]]
        BY <1>4, <2>2 DEF Readyz
      <4>2. [Asleep EXCEPT !.at = "ready", !.since = keyNow]
              = [[Asleep EXCEPT !.at = "ready"] EXCEPT !.since = keyNow]
        OBVIOUS
      <4>3. [Asleep EXCEPT !.at = "ready"] = [at |-> "ready", since |-> 0, copy |-> "missing"]
        BY DEF Asleep
      <4>4. [[at |-> "ready", since |-> 0, copy |-> "missing"] EXCEPT !.since = keyNow] = r
        OBVIOUS
      <4> QED
        BY <4>1, <4>2, <4>3, <4>4, Zenon
    <3>2. r \in TaskStates /\ r.since <= keyNow
      BY DEF TaskStates, TaskPlaces, DesiredKeys
    <3>3. /\ GateCanReopen' /\ signerOk' \in BOOLEAN /\ shaken' \in BOOLEAN
          /\ UNCHANGED <<mode, desiredKey, verdict, keyNow, keyFaults, lastApproved, signer,
                         selfTestOk, toSign>>
      BY <1>4 DEF Readyz, GateCanReopen
    <3> QED
      BY <3>1, <3>2, <3>3, TaskKeeps DEF Tasks
  <2> QED
    BY <2>1, <2>2
<1>5. CASE ProbeSigns
  <2> DEFINE r == [at |-> "ready", since |-> task["ready"].since, copy |-> task["ready"].copy]
  <2>1. task' = [task EXCEPT !["ready"] = r] /\ r \in TaskStates
    <3>1. task \in [Tasks -> TaskStates] /\ "ready" \in Tasks /\ task["ready"].copy \in DesiredKeys
      BY DEF Tasks, TaskStates
    <3> QED
      BY <1>5, <3>1, TaskGoes DEF ProbeSigns, TaskPlaces
  <2>2. r.since <= keyNow
    BY DEF PassesWereTrue
  <2>3. /\ GateCanReopen' /\ signerOk' \in BOOLEAN /\ shaken' \in BOOLEAN
        /\ UNCHANGED <<mode, desiredKey, verdict, keyNow, keyFaults, lastApproved, signer,
                       selfTestOk, toSign>>
    BY <1>5 DEF ProbeSigns, GateCanReopen
  <2> QED
    BY <2>1, <2>2, <2>3, TaskKeeps DEF Tasks
<1> QED
  BY <1>1, <1>2, <1>3, <1>4, <1>5, <1>6

(* The invariant of the key holds whatever the tasks and the desired       *)
(* configuration do.                                                       *)
LEMMA KeyInvHolds == KeySpec => []KeyInv
<1>1. KeyControlAssumption /\ KeyInit => KeyInv
  BY KeyInitOK
<1>2. KeyControlAssumption /\ KeyInv /\ [KeyNext]_keyVars => KeyInv'
  <2> SUFFICES ASSUME KeyControlAssumption, KeyInv, [KeyNext]_keyVars PROVE KeyInv'
    OBVIOUS
  <2>1. CASE UNCHANGED keyVars
    BY <2>1 DEF keyVars, KeyInv, KeyTypeOK, PassesWereTrue, WorkerHasWork, KeyUseApproved,
                GateCanReopen, Enforced
  <2>2. CASE KeyNext
    BY <2>2, QuietKeeps, AskingKeeps, WorkingKeeps, Zenon DEF KeyNext, QuietStep, Tasks
  <2> QED
    BY <2>1, <2>2
<1> QED
  BY <1>1, <1>2, KeyControlAssumption, PTL DEF KeySpec

(* signing_audit.py, lines 86 to 155: whenever dual control lets a task    *)
(* use the key, and for as long as it does, the key was approved not long  *)
(* before.                                                                 *)
THEOREM KeyControlSafe == KeySpec => []KeyUseApproved
<1>1. KeyInv => KeyUseApproved
  BY DEF KeyInv
<1> QED
  BY <1>1, KeyInvHolds, PTL

(* A gate that refusals of dual control have shut has a position to sign   *)
(* that can open it again (runtime_health.py, lines 222 to 230;            *)
(* signing_runtime.py, lines 140 to 168), unless that position was lost or *)
(* went to another process.                                                *)
THEOREM GateReopens == KeySpec => []GateCanReopen
<1>1. KeyInv => GateCanReopen
  BY DEF KeyInv
<1> QED
  BY <1>1, KeyInvHolds, PTL

-----------------------------------------------------------------------------
(* The policy.                                                             *)

(* Real records: a change asked for by an admin, a seed, or nothing.       *)
LEMMA RecordFacts ==
    ASSUME PolicyAssumption, NEW c \in Calls, NEW kind \in Kinds,
           NEW v \in Versions \cup {None}, NEW a \in Admins \cup {None}
    PROVE  LET r == Record(c, kind, v, a)
           IN  /\ r = [writer |-> c, kind |-> kind, version |-> v, by |-> a,
                       approver |-> None, proposal |-> None]
               /\ r \in Records
<1>1. c \in 0 .. MaxCalls
  BY DEF Calls, PolicyAssumption
<1> QED
  BY <1>1 DEF Record, Records

(* The record that stands for no record, and a call yet to begin.          *)
LEMMA NothingFacts ==
    ASSUME PolicyAssumption
    PROVE  /\ NoRecord \in Records /\ NoRecord.kind = "none" /\ NoRecord.proposal = None
           /\ NoProposal \in ProposalStates /\ NoProposal.status = "none"
           /\ NewJob \in Jobs /\ NewJob.at = "new" /\ NewJob.id = None
           /\ \A p \in Proposals : p # None
<1>1. NoRecord \in Records /\ NoProposal \in ProposalStates
  BY DEF NoRecord, Records, Kinds, NoProposal, ProposalStates, PolicyAssumption
<1> QED
  BY <1>1 DEF NoRecord, NoProposal, NewJob, Jobs, Places, PolicyAssumption

(* The first states.                                                       *)
LEMMA PolicyInitOK == PolicyAssumption /\ Init => PolicyInv
<1> SUFFICES ASSUME PolicyAssumption, Init PROVE PolicyInv
  OBVIOUS
<1>1. PolicyTypeOK
  <2>1. history \in Seq(Records) /\ written \in Seq(Records) /\ current \in Records
    BY NothingFacts DEF Init
  <2>2. proposal \in [Proposals -> ProposalStates] /\ job \in [Calls -> Jobs]
    BY NothingFacts DEF Init
  <2> QED
    BY <2>1, <2>2, Zenon DEF Init, PolicyTypeOK
<1>2. DOMAIN history = {} /\ DOMAIN written = {}
  BY DEF Init
<1>3. \A p \in Proposals : ~Wrote(p)
  BY <1>2 DEF Wrote
<1>4. RecordsBacked /\ RejectedByOne
  BY <1>2, NothingFacts DEF Init, RecordsBacked, Backed, RejectedByOne
<1>5. ASSUME NEW c \in Calls PROVE JobOK(c)
  BY NothingFacts DEF Init, JobOK, InHand
<1>6. NoLoneAdmin /\ HistoryIsChronicle /\ ApprovalsFollowed
  BY <1>2, <1>3, NothingFacts DEF Init, NoLoneAdmin, HistoryIsChronicle, ApprovalsFollowed
<1> QED
  BY <1>1, <1>4, <1>5, <1>6 DEF PolicyInv

(* One call moves: what was decided stays decided, what was backed stays   *)
(* backed, and the other calls are as they were.                           *)
LEMMA OneCallMoves ==
    ASSUME PolicyAssumption, PolicyInv, NEW c \in Calls, NEW j \in Jobs,
           job' = [job EXCEPT ![c] = j],
           job[c].id = None \/ (j.id = job[c].id /\ j.copy = job[c].copy),
           UNCHANGED twoPerson, proposal' \in [Proposals -> ProposalStates],
           \A p \in Proposals :
              \/ proposal'[p] = proposal[p]
              \/ proposal[p].status = "none" /\ proposal'[p].status = "PENDING"
              \/ proposal[p].status # "none" /\ proposal'[p].status \in Decisions
    PROVE  /\ job' \in [Calls -> Jobs] /\ job'[c] = j
           /\ \A d \in Calls \ {c} : job'[d] = job[d]
           /\ \A p \in Proposals, how \in Decisions : Decided(p, how) => Decided(p, how)'
           /\ \A r : Backed(r) => Backed(r)'
           /\ \A d \in Calls \ {c} : JobOK(d)'
<1>1. job \in [Calls -> Jobs]
  BY DEF PolicyInv, PolicyTypeOK
<1>2. job' \in [Calls -> Jobs] /\ job'[c] = j /\ \A d \in Calls \ {c} : job'[d] = job[d]
  BY <1>1
<1>3. ASSUME NEW p \in Proposals, NEW how \in Decisions, Decided(p, how) PROVE Decided(p, how)'
  <2>1. PICK d \in Calls : job[d].id = p /\ job[d].copy.status = how
    BY <1>3 DEF Decided, Deciders
  <2>2. job'[d].id = p /\ job'[d].copy.status = how
    BY <1>2, <2>1, NothingFacts
  <2> QED
    BY <2>2, Zenon DEF Decided, Deciders
<1>4. \A p \in Proposals : proposal[p].status \in Decisions => proposal'[p].status \in Decisions
  BY DEF Decisions
<1>5. ASSUME NEW r, Backed(r) PROVE Backed(r)'
  BY <1>3, <1>4, <1>5, Zenon DEF Backed, Decisions
<1>6. ASSUME NEW d \in Calls \ {c} PROVE JobOK(d)'
  <2>1. JobOK(d) /\ job[d] \in Jobs
    BY <1>1 DEF PolicyInv
  <2>2. job'[d] = job[d]
    BY <1>2, <1>6
  <2>3. \A p \in Proposals : proposal[p].status # "none" => proposal'[p].status # "none"
    BY DEF Decisions
  <2>4. job[d].id \in Proposals \cup {None}
    BY <2>1 DEF Jobs
  <2> QED
    BY <1>5, <2>1, <2>2, <2>3, <2>4 DEF JobOK, InHand, Fine
<1> QED
  BY <1>2, <1>3, <1>5, <1>6

(* A set of positions that is not empty has a last one.                    *)
LEMMA LastOfSome ==
    ASSUME NEW n \in Nat, NEW S, S \subseteq 1 .. n, S # {}
    PROVE  \E k \in S : \A l \in S : l <= k
<1> DEFINE D == {m \in Nat : n - m \in S}
           less == OpToRel(<, Nat)
<1>1. \A l \in S : n - l \in D /\ n - (n - l) = l
  OBVIOUS
<1>2. D \subseteq Nat /\ D # {}
  BY <1>1
<1>3. \E d \in D : \A e \in D : ~(<<e, d>> \in less)
  <2> HIDE DEF D, less
  <2>1. IsWellFoundedOn(less, Nat)
    BY NatLessThanWellFounded DEF less
  <2> QED
    BY <1>2, <2>1, WFMin, Zenon
<1>4. PICK d \in D : \A e \in D : d <= e
  <2>1. \A d, e \in Nat : e < d => <<e, d>> \in less
    BY DEF OpToRel
  <2>2. PICK d \in D : \A e \in D : ~(<<e, d>> \in less)
    BY <1>3
  <2> HIDE DEF less
  <2>3. \A e \in D : ~(e < d)
    BY <2>1, <2>2
  <2> QED
    BY <2>3
<1> QED
  BY <1>1, <1>4

(* Where a call must be for an approval to be followed.                    *)
OnTheWay == {"read", "exec", "failed"}

(* A step that touches no record.                                          *)
LEMMA StoreStays ==
    ASSUME PolicyInv, UNCHANGED store, \A r : Backed(r) => Backed(r)'
    PROVE  /\ RecordsBacked' /\ NoLoneAdmin' /\ HistoryIsChronicle'
           /\ \A p \in Proposals : Wrote(p) => Wrote(p)'
<1> USE DEF PolicyInv, store
<1>1. RecordsBacked'
  BY DEF RecordsBacked
<1>2. NoLoneAdmin' /\ HistoryIsChronicle'
  BY DEF NoLoneAdmin, HistoryIsChronicle
<1> QED
  BY <1>1, <1>2 DEF Wrote

(* The approvals that were followed still are, unless a call on its way    *)
(* to write its record leaves without having written one.                  *)
LEMMA StillFollowed ==
    ASSUME PolicyAssumption, PolicyInv, NEW c \in Calls, NEW j \in Jobs,
           job'[c] = j, \A d \in Calls \ {c} : job'[d] = job[d],
           NEW p \in Proposals, proposal'[p] = proposal[p], Wrote(p) => Wrote(p)',
           job[c].id = None \/ (j.id = job[c].id /\ j.copy = job[c].copy),
           job[c].id = p /\ job[c].at \in OnTheWay => j.at \in OnTheWay \/ Wrote(p)',
           proposal[p].status = "APPROVED"
    PROVE  Wrote(p)' \/ \E d \in Deciders(p)' : job'[d].at \in OnTheWay
<1>1. CASE Wrote(p)
  BY <1>1
<1>2. CASE ~Wrote(p)
  <2>1. PICK d \in Deciders(p) : job[d].at \in OnTheWay
    BY <1>2 DEF PolicyInv, ApprovalsFollowed, OnTheWay
  <2>2. d \in Calls /\ job[d].id = p /\ p # None
    BY <2>1, NothingFacts DEF Deciders
  <2>3. job'[d].id = p
    BY <2>2
  <2>4. d \in Deciders(p)'
    BY <2>2, <2>3 DEF Deciders
  <2>5. job'[d].at \in OnTheWay \/ Wrote(p)'
    BY <2>1, <2>2
  <2> QED
    BY <2>4, <2>5
<1> QED
  BY <1>1, <1>2

(* A step that touches neither a record nor a proposal.                    *)
LEMMA QuietCall ==
    ASSUME PolicyAssumption, PolicyInv, NEW c \in Calls, NEW j \in Jobs,
           job' = [job EXCEPT ![c] = j],
           job[c].id = None \/ (j.id = job[c].id /\ j.copy = job[c].copy),
           job[c].id # None /\ job[c].at \in OnTheWay => j.at \in OnTheWay,
           UNCHANGED <<store, proposal>>,
           (\A r : Backed(r) => Backed(r)') => JobOK(c)'
    PROVE  PolicyInv'
<1>1. /\ job' \in [Calls -> Jobs] /\ job'[c] = j
      /\ \A d \in Calls \ {c} : job'[d] = job[d]
      /\ \A p \in Proposals, how \in Decisions : Decided(p, how) => Decided(p, how)'
      /\ \A r : Backed(r) => Backed(r)'
      /\ \A d \in Calls \ {c} : JobOK(d)'
  BY OneCallMoves DEF PolicyInv, PolicyTypeOK, store
<1>2. /\ RecordsBacked' /\ NoLoneAdmin' /\ HistoryIsChronicle'
      /\ \A p \in Proposals : Wrote(p) => Wrote(p)'
  BY <1>1, StoreStays
<1>3. PolicyTypeOK'
  BY <1>1 DEF PolicyInv, PolicyTypeOK, store
<1>4. RejectedByOne'
  BY <1>1 DEF PolicyInv, RejectedByOne, Decisions
<1>5. ApprovalsFollowed'
  <2> SUFFICES ASSUME NEW p \in Proposals, proposal'[p].status = "APPROVED"
               PROVE  Wrote(p)' \/ \E d \in Deciders(p)' : job'[d].at \in {"read", "exec", "failed"}
    BY DEF ApprovalsFollowed
  <2>1. job[c].id = p /\ job[c].at \in OnTheWay => j.at \in OnTheWay
    BY NothingFacts
  <2> QED
    BY <1>1, <1>2, <2>1, StillFollowed DEF OnTheWay
<1> QED
  BY <1>1, <1>2, <1>3, <1>4, <1>5 DEF PolicyInv

(* Where a call goes, with what it had or with a record.                   *)
LEMMA CallGoes ==
    ASSUME PolicyInv, NEW c \in Calls, NEW place \in Places, NEW r \in Records
    PROVE  /\ LET j == [at |-> place, record |-> job[c].record, seen |-> job[c].seen,
                        id |-> job[c].id, copy |-> job[c].copy]
              IN  j \in Jobs /\ (Go(c, place) => job' = [job EXCEPT ![c] = j])
           /\ LET j == [at |-> place, record |-> r, seen |-> job[c].seen,
                        id |-> job[c].id, copy |-> job[c].copy]
              IN  j \in Jobs /\ (GoWith(c, place, r) => job' = [job EXCEPT ![c] = j])
           /\ LET j == [at |-> place, record |-> job[c].record, seen |-> r,
                        id |-> job[c].id, copy |-> job[c].copy]
              IN  /\ j \in Jobs
                  /\ [job EXCEPT ![c].at = place, ![c].seen = r] = [job EXCEPT ![c] = j]
<1> DEFINE e == job[c]
           a == [at |-> place, record |-> e.record, seen |-> e.seen, id |-> e.id, copy |-> e.copy]
           b == [at |-> place, record |-> r, seen |-> e.seen, id |-> e.id, copy |-> e.copy]
           q == [at |-> place, record |-> e.record, seen |-> r, id |-> e.id, copy |-> e.copy]
<1>1. job \in [Calls -> Jobs] /\ e \in Jobs
  BY DEF PolicyInv, PolicyTypeOK
<1>2. a \in Jobs /\ b \in Jobs /\ q \in Jobs
  BY <1>1 DEF Jobs
<1>3. [e EXCEPT !.at = place] = a /\ [a EXCEPT !.record = r] = b /\ [a EXCEPT !.seen = r] = q
  BY <1>1 DEF Jobs
<1>4. [job EXCEPT ![c].at = place] = [job EXCEPT ![c] = a]
  BY <1>3
<1>5. [job EXCEPT ![c] = a][c] = a
  BY <1>1
<1>6. [job EXCEPT ![c].at = place, ![c].record = r] = [job EXCEPT ![c] = b]
  <2>1. [job EXCEPT ![c].at = place, ![c].record = r]
          = [[job EXCEPT ![c] = a] EXCEPT ![c] = [[job EXCEPT ![c] = a][c] EXCEPT !.record = r]]
    BY <1>4, Zenon
  <2>2. [[job EXCEPT ![c] = a] EXCEPT ![c] = b] = [job EXCEPT ![c] = b]
    BY <1>1
  <2> QED
    BY <1>3, <1>5, <2>1, <2>2, Zenon
<1>7. [job EXCEPT ![c].at = place, ![c].seen = r] = [job EXCEPT ![c] = q]
  <2>1. [job EXCEPT ![c].at = place, ![c].seen = r]
          = [[job EXCEPT ![c] = a] EXCEPT ![c] = [[job EXCEPT ![c] = a][c] EXCEPT !.seen = r]]
    BY <1>4, Zenon
  <2>2. [[job EXCEPT ![c] = a] EXCEPT ![c] = q] = [job EXCEPT ![c] = q]
    BY <1>1
  <2> QED
    BY <1>3, <1>5, <2>1, <2>2, Zenon
<1> QED
  BY <1>2, <1>4, <1>6, <1>7, Zenon DEF Go, GoWith

(* A call that has come to its end, whatever it was doing.                 *)
LEMMA CallEnds ==
    ASSUME PolicyAssumption, PolicyInv, NEW c \in Calls, NEW place \in {"done", "failed"},
           Go(c, place), UNCHANGED <<store, proposal>>,
           place = "done" => job[c].at \in {"new", "event"}
    PROVE  PolicyInv'
<1> DEFINE j == [at |-> place, record |-> job[c].record, seen |-> job[c].seen,
                 id |-> job[c].id, copy |-> job[c].copy]
<1>1. j \in Jobs /\ job' = [job EXCEPT ![c] = j]
  <2>1. job[c].record \in Records /\ place \in Places
    BY DEF PolicyInv, PolicyTypeOK, Jobs, Places
  <2> QED
    BY <2>1, CallGoes
<1>2. job'[c] = j /\ j.id = job[c].id /\ j.copy = job[c].copy /\ j.at = place
  BY <1>1 DEF PolicyInv, PolicyTypeOK
<1>3. job[c].id # None /\ job[c].at \in OnTheWay => j.at \in OnTheWay
  BY <1>2 DEF OnTheWay
<1>4. JobOK(c)'
  BY <1>2 DEF PolicyInv, JobOK, InHand
<1> HIDE DEF j
<1> QED
  BY <1>1, <1>2, <1>3, <1>4, QuietCall

(* A call that begins with a record to write.                              *)
LEMMA CallBegins ==
    ASSUME PolicyAssumption, PolicyInv, NEW c \in Calls, Starts(c),
           NEW place \in {"seed", "read"}, NEW r \in Records, GoWith(c, place, r),
           UNCHANGED <<store, proposal>>,
           r.kind # "none", place = "seed" => r.proposal = None, Backed(r), twoPerson => Fine(r)
    PROVE  PolicyInv'
<1> DEFINE j == [at |-> place, record |-> r, seen |-> job[c].seen, id |-> job[c].id, copy |-> job[c].copy]
<1>1. j \in Jobs /\ job' = [job EXCEPT ![c] = j]
  <2>1. place \in Places
    BY DEF Places
  <2> QED
    BY <2>1, CallGoes
<1>2. job[c] = NewJob
  BY DEF Starts, PolicyInv, JobOK
<1>3. job[c].id = None /\ job[c].seen = NoRecord
  BY <1>2 DEF NewJob
<1>4. job'[c] = j /\ j.at = place /\ j.record = r /\ j.seen = NoRecord /\ j.id = None
  BY <1>1, <1>3 DEF PolicyInv, PolicyTypeOK
<1> HIDE DEF j
<1>5. ASSUME \A q : Backed(q) => Backed(q)' PROVE JobOK(c)'
  BY <1>4, <1>5 DEF JobOK, InHand, Fine, store
<1> QED
  BY <1>1, <1>3, <1>5, QuietCall

(* GET, and the seed of a policy that is not there.                        *)
LEMMA GetKeeps ==
    ASSUME PolicyAssumption, PolicyInv, NEW c \in Calls, GetOrSeed(c)
    PROVE  PolicyInv'
<1>1. CASE current = NoRecord
  <2> DEFINE r == Record(c, "seed", None, None)
  <2>1. r \in Records /\ r.kind = "seed" /\ r.proposal = None
    BY RecordFacts DEF Kinds
  <2>2. Starts(c) /\ GoWith(c, "seed", r) /\ UNCHANGED <<store, proposal>>
    BY <1>1, Zenon DEF GetOrSeed
  <2>3. Backed(r) /\ Fine(r)
    BY <2>1, NothingFacts DEF Backed, Fine
  <2> HIDE DEF r
  <2> QED
    BY <2>1, <2>2, <2>3, CallBegins
<1>2. CASE current # NoRecord
  BY <1>2, CallEnds DEF GetOrSeed, Starts
<1> QED
  BY <1>1, <1>2

(* A change one admin asks for alone: without the two-person rule.         *)
LEMMA AloneKeeps ==
    ASSUME PolicyAssumption, PolicyInv, NEW c \in Calls, NEW v \in Versions,
           RollBack(c, v) \/ \E a \in Admins : UpdatePolicy(c, a, v) \/ UpdateAllowlist(c, a, v)
    PROVE  PolicyInv'
<1>1. Starts(c) /\ ~twoPerson /\ UNCHANGED <<store, proposal>>
  BY DEF RollBack, UpdatePolicy, UpdateAllowlist, MayChangeAlone
<1>2. ASSUME NEW a \in Admins, UpdatePolicy(c, a, v) \/ UpdateAllowlist(c, a, v) PROVE PolicyInv'
  <2>1. PICK kind \in {"update", "allowlist"}, place \in {"seed", "read"} :
            GoWith(c, place, Record(c, kind, v, a))
    BY <1>2, Zenon DEF UpdatePolicy, UpdateAllowlist
  <2> DEFINE r == Record(c, kind, v, a)
  <2>2. r \in Records /\ r.kind # "none" /\ r.proposal = None
    BY RecordFacts DEF Kinds
  <2>3. Backed(r)
    BY <2>2, NothingFacts DEF Backed
  <2> HIDE DEF r
  <2> QED
    BY <1>1, <2>1, <2>2, <2>3, CallBegins DEF r
<1>3. CASE RollBack(c, v)
  <2> DEFINE found == {i \in DOMAIN history : history[i].version = v}
             i == CHOOSE i \in found : \A k \in found : k <= i
             r == [history[i] EXCEPT !.kind = "rollback", !.writer = c]
  <2>1. CASE found = {}
    BY <1>1, <1>3, <2>1, CallEnds, Zenon DEF RollBack, Starts
  <2>2. CASE found # {}
    <3>1. GoWith(c, "read", r)
      BY <1>3, <2>2, Zenon DEF RollBack
    <3>2. i \in DOMAIN history
      <4>1. history \in Seq(Records)
        BY DEF PolicyInv, PolicyTypeOK
      <4>2. found \subseteq 1 .. Len(history) /\ Len(history) \in Nat
        BY <4>1
      <4>3. \E k \in found : \A l \in found : l <= k
        BY <2>2, <4>2, LastOfSome
      <4> QED
        BY <4>3, Zenon
    <3>3. history[i] \in Records /\ Backed(history[i])
      BY <3>2 DEF PolicyInv, PolicyTypeOK, RecordsBacked
    <3> DEFINE h == history[i]
    <3> HIDE DEF i, h
    <3>4. r \in Records /\ r.kind = "rollback" /\ r.proposal = h.proposal
      <4>1. c \in 0 .. MaxCalls /\ h \in Records
        BY <3>3 DEF Calls, PolicyAssumption, h
      <4> QED
        BY <4>1 DEF Records, Kinds, h
    <3>5. Backed(r)
      BY <3>3, <3>4 DEF Backed, h
    <3> HIDE DEF r
    <3> QED
      BY <1>1, <3>1, <3>4, <3>5, CallBegins
  <2> QED
    BY <2>1, <2>2
<1> QED
  BY <1>2, <1>3

(* A call that takes up a proposal to decide it.                           *)
LEMMA CallDecides ==
    ASSUME PolicyAssumption, PolicyInv, NEW c \in Calls, Starts(c),
           NEW p \in Proposals, Pending(p), NEW a \in Admins,
           NEW place \in {"mark", "reject"}, NEW r \in Records, NEW how \in Decisions,
           Load(c, p, place, r, [proposal[p] EXCEPT !.status = how, !.decider = a]),
           place = "mark" => /\ how = "APPROVED" /\ r.kind # "none" /\ r.proposal = p
                             /\ Fine(r),
           place = "reject" => how = "REJECTED",
           UNCHANGED <<store, proposal>>
    PROVE  PolicyInv'
<1> DEFINE copy == [proposal[p] EXCEPT !.status = how, !.decider = a]
           j == [at |-> place, record |-> r, seen |-> NoRecord, id |-> p, copy |-> copy]
<1>1. copy \in ProposalStates /\ copy.status = how
  <2>1. proposal[p] \in ProposalStates
    BY DEF PolicyInv, PolicyTypeOK
  <2> QED
    BY <2>1 DEF ProposalStates, Decisions
<1> HIDE DEF copy
<1>2. job' = [job EXCEPT ![c] = j] /\ place \in Places
  BY DEF Load, copy, Places
<1>3. j \in Jobs
  BY <1>1, <1>2, NothingFacts DEF Jobs
<1>4. job[c].id = None
  BY NothingFacts DEF Starts, PolicyInv, JobOK
<1>5. /\ job'[c] = j /\ j.at = place /\ j.record = r /\ j.id = p /\ j.copy = copy
      /\ p # None /\ proposal'[p].status = "PENDING"
  BY <1>2, NothingFacts DEF PolicyInv, PolicyTypeOK, Pending
<1> HIDE DEF j
<1>6. JobOK(c)'
  BY <1>1, <1>5 DEF JobOK, InHand, Fine
<1> QED
  BY <1>2, <1>3, <1>4, <1>6, QuietCall

(* approve_policy_proposal and reject_policy_proposal, up to their checks. *)
LEMMA DecideKeeps ==
    ASSUME PolicyAssumption, PolicyInv, NEW c \in Calls, NEW a \in Admins, NEW p \in Proposals,
           LoadToReject(c, a, p) \/ \E v \in Versions : Approve(c, a, p, v)
    PROVE  PolicyInv'
<1>1. CASE LoadToReject(c, a, p)
  BY <1>1, CallDecides, NothingFacts DEF LoadToReject, Decisions
<1>2. ASSUME NEW v \in Versions, Approve(c, a, p, v) PROVE PolicyInv'
  <2> DEFINE q == Record(c, "approved", v, proposal[p].by)
             r == [q EXCEPT !.approver = a, !.proposal = p]
  <2>1. proposal[p].by \in Admins \cup {None}
    BY DEF PolicyInv, PolicyTypeOK, ProposalStates
  <2>2. q \in Records /\ q.kind = "approved" /\ q.by = proposal[p].by
    BY <2>1, RecordFacts DEF Kinds
  <2>3. Starts(c) /\ Pending(p) /\ proposal[p].by # a /\ UNCHANGED <<store, proposal>>
        /\ Load(c, p, "mark", r, [proposal[p] EXCEPT !.status = "APPROVED", !.decider = a])
    BY <1>2, Zenon DEF Approve, Violates
  <2> HIDE DEF q
  <2>4. r \in Records /\ r.kind = "approved" /\ r.proposal = p /\ r.by # r.approver
    BY <2>2, <2>3 DEF Records
  <2> HIDE DEF r
  <2>5. Fine(r) /\ r.kind # "none"
    BY <2>4 DEF Fine
  <2> QED
    BY <2>3, <2>4, <2>5, CallDecides DEF Decisions
<1> QED
  BY <1>1, <1>2

(* GET while the MULTI is being queued.                                    *)
LEMMA ReadKeeps ==
    ASSUME PolicyAssumption, PolicyInv, NEW c \in Calls, ReadCurrent(c)
    PROVE  PolicyInv'
<1> DEFINE j == [at |-> "exec", record |-> job[c].record, seen |-> current,
                 id |-> job[c].id, copy |-> job[c].copy]
<1>1. j \in Jobs /\ job' = [job EXCEPT ![c] = j]
  BY CallGoes DEF ReadCurrent, Places, PolicyInv, PolicyTypeOK
<1>2. /\ job'[c] = j /\ j.id = job[c].id /\ j.copy = job[c].copy /\ j.at = "exec"
      /\ j.record = job[c].record /\ j.seen = current
      /\ job[c].at = "read" /\ UNCHANGED <<store, proposal>>
  BY <1>1 DEF PolicyInv, PolicyTypeOK, ReadCurrent
<1> HIDE DEF j
<1>3. ASSUME \A q : Backed(q) => Backed(q)' PROVE JobOK(c)'
  BY <1>2, <1>3 DEF PolicyInv, RecordsBacked, JobOK, InHand, Fine, store
<1> QED
  BY <1>1, <1>2, <1>3, QuietCall DEF OnTheWay

(* propose_policy_change.                                                  *)
LEMMA ProposeKeeps ==
    ASSUME PolicyAssumption, PolicyInv, NEW c \in Calls, NEW a \in Admins, NEW p \in Proposals,
           Propose(c, a, p)
    PROVE  PolicyInv'
<1> DEFINE j == [at |-> "event", record |-> job[c].record, seen |-> job[c].seen,
                 id |-> job[c].id, copy |-> job[c].copy]
           q == [status |-> "PENDING", by |-> a, decider |-> None]
<1>1. j \in Jobs /\ job' = [job EXCEPT ![c] = j]
  <2>1. job[c].record \in Records /\ "event" \in Places
    BY DEF PolicyInv, PolicyTypeOK, Jobs, Places
  <2> QED
    BY <2>1, CallGoes DEF Propose
<1>2. /\ j.at = "event" /\ j.id = None /\ job[c].id = None
      /\ proposal[p].status = "none" /\ UNCHANGED store
  BY NothingFacts DEF Propose, Starts, PolicyInv, JobOK
<1>3. /\ proposal' \in [Proposals -> ProposalStates] /\ proposal'[p].status = "PENDING"
      /\ \A o \in Proposals \ {p} : proposal'[o] = proposal[o]
  <2>1. q \in ProposalStates
    BY DEF ProposalStates
  <2> QED
    BY <2>1 DEF Propose, PolicyInv, PolicyTypeOK
<1> HIDE DEF j, q
<1>4. /\ job' \in [Calls -> Jobs] /\ job'[c] = j
      /\ \A d \in Calls \ {c} : job'[d] = job[d]
      /\ \A o \in Proposals, how \in Decisions : Decided(o, how) => Decided(o, how)'
      /\ \A r : Backed(r) => Backed(r)'
      /\ \A d \in Calls \ {c} : JobOK(d)'
  BY <1>1, <1>2, <1>3, OneCallMoves DEF store
<1>5. /\ RecordsBacked' /\ NoLoneAdmin' /\ HistoryIsChronicle'
      /\ \A o \in Proposals : Wrote(o) => Wrote(o)'
  BY <1>2, <1>4, StoreStays
<1>6. PolicyTypeOK'
  BY <1>2, <1>3, <1>4 DEF PolicyInv, PolicyTypeOK, store
<1>7. RejectedByOne'
  BY <1>3, <1>4 DEF PolicyInv, RejectedByOne, Decisions
<1>8. ApprovalsFollowed'
  <2> SUFFICES ASSUME NEW o \in Proposals, proposal'[o].status = "APPROVED"
               PROVE  Wrote(o)' \/ \E d \in Deciders(o)' : job'[d].at \in {"read", "exec", "failed"}
    BY DEF ApprovalsFollowed
  <2>1. proposal'[o] = proposal[o] /\ o # None
    BY <1>3, NothingFacts
  <2> QED
    BY <1>1, <1>2, <1>4, <1>5, <2>1, StillFollowed DEF OnTheWay
<1>9. JobOK(c)'
  BY <1>2, <1>4 DEF JobOK, InHand
<1> QED
  BY <1>4, <1>5, <1>6, <1>7, <1>8, <1>9 DEF PolicyInv

(* A decision is written back, and the call goes on to write the record it *)
(* approved or to its event.                                               *)
LEMMA MarkKeeps ==
    ASSUME PolicyAssumption, PolicyInv, NEW c \in Calls, Mark(c) \/ Reject(c)
    PROVE  PolicyInv'
<1>1. PICK p \in Proposals : p = job[c].id /\ p # None
  <2>1. job[c] \in Jobs /\ JobOK(c)
    BY DEF PolicyInv, PolicyTypeOK
  <2> QED
    BY <2>1 DEF Mark, Reject, Jobs, JobOK
<1>2. PICK place \in {"read", "event"} :
          /\ Go(c, place) /\ UNCHANGED store
          /\ proposal' = [proposal EXCEPT ![p] = job[c].copy]
          /\ place = "read" => job[c].at = "mark"
          /\ place = "event" => job[c].at = "reject"
  BY <1>1 DEF Mark, Reject
<1>3. PICK j \in Jobs :
          /\ job' = [job EXCEPT ![c] = j]
          /\ j.at = place /\ j.record = job[c].record /\ j.seen = job[c].seen
          /\ j.id = p /\ j.copy = job[c].copy
  <2>1. job[c].record \in Records /\ place \in Places
    BY DEF PolicyInv, PolicyTypeOK, Jobs, Places
  <2> DEFINE w == [at |-> place, record |-> job[c].record, seen |-> job[c].seen,
                   id |-> job[c].id, copy |-> job[c].copy]
  <2>2. w \in Jobs /\ job' = [job EXCEPT ![c] = w]
    BY <1>2, <2>1, CallGoes
  <2>3. /\ w.at = place /\ w.record = job[c].record /\ w.seen = job[c].seen
        /\ w.id = p /\ w.copy = job[c].copy
    BY <1>1
  <2> HIDE DEF w
  <2> QED
    BY <2>2, <2>3
<1>4. /\ j.copy \in ProposalStates /\ proposal[p].status # "none"
      /\ place = "read" => j.copy.status = "APPROVED" /\ j.record.proposal = p
      /\ place = "event" => j.copy.status = "REJECTED"
  <2>1. JobOK(c)
    BY DEF PolicyInv
  <2> QED
    BY <1>1, <1>2, <1>3, <2>1 DEF Jobs, JobOK
<1>5. /\ proposal' \in [Proposals -> ProposalStates] /\ proposal'[p] = j.copy
      /\ \A o \in Proposals \ {p} : proposal'[o] = proposal[o]
  BY <1>2, <1>3, <1>4 DEF PolicyInv, PolicyTypeOK
<1>6. /\ job' \in [Calls -> Jobs] /\ job'[c] = j
      /\ \A d \in Calls \ {c} : job'[d] = job[d]
      /\ \A o \in Proposals, how \in Decisions : Decided(o, how) => Decided(o, how)'
      /\ \A r : Backed(r) => Backed(r)'
      /\ \A d \in Calls \ {c} : JobOK(d)'
  <2>1. proposal'[p].status \in Decisions /\ UNCHANGED twoPerson
    BY <1>2, <1>4, <1>5 DEF Decisions, store
  <2>2. j.id = job[c].id /\ j.copy = job[c].copy
    BY <1>1, <1>3
  <2> QED
    BY <1>3, <1>4, <1>5, <2>1, <2>2, OneCallMoves
<1>7. /\ RecordsBacked' /\ NoLoneAdmin' /\ HistoryIsChronicle'
      /\ \A o \in Proposals : Wrote(o) => Wrote(o)'
  BY <1>2, <1>6, StoreStays
<1>8. PolicyTypeOK'
  BY <1>2, <1>5, <1>6 DEF PolicyInv, PolicyTypeOK, store
<1>9. c \in Deciders(p)' /\ \A how : j.copy.status = how => Decided(p, how)'
  BY <1>3, <1>6 DEF Deciders, Decided
<1>10. RejectedByOne'
  <2> SUFFICES ASSUME NEW o \in Proposals, proposal'[o].status = "REJECTED" PROVE Decided(o, "REJECTED")'
    BY DEF RejectedByOne
  <2>1. CASE o = p
    BY <1>5, <1>9, <2>1
  <2>2. CASE o # p
    BY <1>5, <1>6, <2>2 DEF PolicyInv, RejectedByOne, Decisions
  <2> QED
    BY <2>1, <2>2
<1>11. ApprovalsFollowed'
  <2> SUFFICES ASSUME NEW o \in Proposals, proposal'[o].status = "APPROVED"
               PROVE  Wrote(o)' \/ \E d \in Deciders(o)' : job'[d].at \in {"read", "exec", "failed"}
    BY DEF ApprovalsFollowed
  <2>1. CASE o = p
    BY <1>2, <1>3, <1>4, <1>5, <1>6, <1>9, <2>1
  <2>2. CASE o # p
    <3>1. proposal'[o] = proposal[o] /\ proposal[o].status = "APPROVED"
      BY <1>5, <2>2
    <3>2. job[c].id # o /\ j.id = job[c].id /\ j.copy = job[c].copy
      BY <1>1, <1>3, <2>2
    <3>3. Wrote(o) => Wrote(o)'
      BY <1>7
    <3> QED
      BY <1>6, <3>1, <3>2, <3>3, StillFollowed DEF OnTheWay
  <2> QED
    BY <2>1, <2>2
<1>12. JobOK(c)'
  <2>1. p # None /\ j.id = p /\ j.at = place /\ proposal'[p].status # "none" /\ j.copy.status \in Decisions
    BY <1>1, <1>2, <1>3, <1>4, <1>5 DEF Decisions
  <2>2. CASE place = "event"
    BY <1>6, <2>1, <2>2 DEF JobOK, InHand
  <2>3. CASE place = "read"
    <3>1. /\ job[c].at = "mark" /\ j.record.proposal = p /\ proposal'[p].status = "APPROVED"
          /\ j.copy.status = "APPROVED"
      BY <1>2, <1>4, <1>5, <2>3
    <3>2. Backed(j.record)'
      BY <1>9, <3>1 DEF Backed, Decisions
    <3>3. j.record.kind # "none" /\ (twoPerson' => Fine(j.record))
      BY <1>2, <1>3, <3>1 DEF PolicyInv, JobOK, InHand, store
    <3> QED
      BY <1>6, <2>1, <2>3, <3>1, <3>2, <3>3 DEF JobOK, InHand, Fine
  <2> QED
    BY <1>2, <2>2, <2>3
<1> QED
  BY <1>6, <1>7, <1>8, <1>10, <1>11, <1>12 DEF PolicyInv

(* A record becomes the policy.                                            *)
LEMMA RecordWritten ==
    ASSUME PolicyAssumption, PolicyInv, NEW r \in Records, UNCHANGED twoPerson,
           Backed(r), twoPerson => Fine(r),
           current' = r, written' = Append(written, r),
           \/ UNCHANGED history
           \/ \E x \in Records : Backed(x) /\ history' = Append(history, x),
           \A q : Backed(q) => Backed(q)'
    PROVE  /\ current' \in Records /\ history' \in Seq(Records) /\ written' \in Seq(Records)
           /\ RecordsBacked' /\ NoLoneAdmin'
           /\ \A p \in Proposals : Wrote(p) \/ r.proposal = p => Wrote(p)'
<1>1. history \in Seq(Records) /\ written \in Seq(Records)
  BY DEF PolicyInv, PolicyTypeOK
<1>2. /\ written' \in Seq(Records) /\ DOMAIN written' = 1 .. Len(written) + 1
      /\ DOMAIN written = 1 .. Len(written) /\ Len(written) \in Nat
      /\ written'[Len(written) + 1] = r
      /\ \A i \in DOMAIN written : written'[i] = written[i]
  BY <1>1
<1>3. ASSUME NEW i \in DOMAIN written' PROVE i \in DOMAIN written \/ written'[i] = r
  BY <1>2
<1>4. /\ history' \in Seq(Records)
      /\ \A i \in DOMAIN history' : Backed(history[i])'
  <2>1. CASE UNCHANGED history
    BY <1>1, <2>1 DEF PolicyInv, RecordsBacked
  <2>2. ASSUME NEW x \in Records, Backed(x), history' = Append(history, x)
        PROVE  /\ history' \in Seq(Records)
               /\ \A i \in DOMAIN history' : Backed(history[i])'
    <3>1. /\ history' \in Seq(Records) /\ DOMAIN history' = 1 .. Len(history) + 1
          /\ DOMAIN history = 1 .. Len(history) /\ Len(history) \in Nat
          /\ history'[Len(history) + 1] = x
          /\ \A i \in DOMAIN history : history'[i] = history[i]
      BY <1>1, <2>2
    <3>2. ASSUME NEW i \in DOMAIN history' PROVE i \in DOMAIN history \/ history'[i] = x
      BY <3>1
    <3> QED
      BY <2>2, <3>1, <3>2 DEF PolicyInv, RecordsBacked
  <2> QED
    BY <2>1, <2>2
<1>5. \A i \in DOMAIN written' : Backed(written[i])'
  BY <1>2, <1>3 DEF PolicyInv, RecordsBacked
<1>6. RecordsBacked'
  BY <1>4, <1>5 DEF RecordsBacked
<1>7. NoLoneAdmin'
  BY <1>2, <1>3 DEF PolicyInv, NoLoneAdmin, Fine
<1>8. ASSUME NEW p \in Proposals, Wrote(p) \/ r.proposal = p PROVE Wrote(p)'
  BY <1>2, <1>8 DEF Wrote
<1> QED
  BY <1>2, <1>4, <1>6, <1>7, <1>8

(* A call writes a record and goes on or ends.                             *)
LEMMA WriterMoves ==
    ASSUME PolicyAssumption, PolicyInv, NEW c \in Calls, NEW place \in {"read", "event", "done"},
           Go(c, place), UNCHANGED <<twoPerson, proposal>>,
           NEW r \in Records, Backed(r), r.kind # "none", twoPerson => Fine(r),
           current' = r, written' = Append(written, r),
           \/ UNCHANGED history
           \/ \E x \in Records : Backed(x) /\ history' = Append(history, x),
           stale' \in BOOLEAN, HistoryIsChronicle',
           job[c].at \in {"seed", "exec"},
           place = "read" => job[c].at = "seed",
           job[c].at = "exec" => r = job[c].record
    PROVE  PolicyInv'
<1>1. job[c] \in Jobs /\ JobOK(c)
  BY DEF PolicyInv, PolicyTypeOK
<1>2. PICK j \in Jobs :
          /\ job' = [job EXCEPT ![c] = j]
          /\ j.at = place /\ j.record = job[c].record /\ j.seen = job[c].seen
          /\ j.id = job[c].id /\ j.copy = job[c].copy
  <2>1. job[c].record \in Records /\ place \in Places
    BY <1>1 DEF Jobs, Places
  <2> DEFINE w == [at |-> place, record |-> job[c].record, seen |-> job[c].seen,
                   id |-> job[c].id, copy |-> job[c].copy]
  <2>2. w \in Jobs /\ job' = [job EXCEPT ![c] = w]
    BY <2>1, CallGoes
  <2>3. /\ w.at = place /\ w.record = job[c].record /\ w.seen = job[c].seen
        /\ w.id = job[c].id /\ w.copy = job[c].copy
    OBVIOUS
  <2> HIDE DEF w
  <2> QED
    BY <2>2, <2>3
<1>3. /\ job' \in [Calls -> Jobs] /\ job'[c] = j
      /\ \A d \in Calls \ {c} : job'[d] = job[d]
      /\ \A o \in Proposals, how \in Decisions : Decided(o, how) => Decided(o, how)'
      /\ \A q : Backed(q) => Backed(q)'
      /\ \A d \in Calls \ {c} : JobOK(d)'
  <2>1. proposal' \in [Proposals -> ProposalStates]
    BY DEF PolicyInv, PolicyTypeOK
  <2> QED
    BY <1>2, <2>1, OneCallMoves
<1>4. /\ current' \in Records /\ history' \in Seq(Records) /\ written' \in Seq(Records)
      /\ RecordsBacked' /\ NoLoneAdmin'
      /\ \A o \in Proposals : Wrote(o) \/ r.proposal = o => Wrote(o)'
  BY <1>3, RecordWritten
<1>5. PolicyTypeOK'
  BY <1>3, <1>4 DEF PolicyInv, PolicyTypeOK
<1>6. RejectedByOne'
  BY <1>3 DEF PolicyInv, RejectedByOne, Decisions
<1>7. ApprovalsFollowed'
  <2> SUFFICES ASSUME NEW o \in Proposals, proposal'[o].status = "APPROVED"
               PROVE  Wrote(o)' \/ \E d \in Deciders(o)' : job'[d].at \in {"read", "exec", "failed"}
    BY DEF ApprovalsFollowed
  <2>1. job[c].id = o /\ job[c].at \in OnTheWay => Wrote(o)'
    BY <1>1, <1>4, NothingFacts DEF JobOK, OnTheWay
  <2> QED
    BY <1>2, <1>3, <1>4, <2>1, StillFollowed DEF OnTheWay
<1>8. JobOK(c)'
  <2>1. CASE place # "read"
    BY <1>1, <1>2, <1>3, <2>1 DEF JobOK, InHand
  <2>2. CASE place = "read"
    <3>1. job[c].at = "seed" /\ j.record.proposal = None /\ j.record.kind # "none"
          /\ (twoPerson => Fine(j.record))
      BY <1>1, <1>2, <2>2 DEF JobOK, InHand
    <3>2. Backed(j.record)'
      BY <3>1, NothingFacts DEF Backed
    <3>3. j.id # None => j.copy.status \in Decisions /\ proposal'[j.id].status # "none"
      BY <1>1, <1>2 DEF JobOK
    <3>4. j.id = None
      BY <1>1, <1>2, <3>1, NothingFacts DEF JobOK, Jobs
    <3> QED
      BY <1>2, <1>3, <2>2, <3>1, <3>2, <3>4 DEF JobOK, InHand, Fine
  <2> QED
    BY <2>1, <2>2
<1> QED
  BY <1>3, <1>4, <1>5, <1>6, <1>7, <1>8 DEF PolicyInv

(* set_policy of a seed, over whatever is there.                           *)
LEMMA SeedKeeps ==
    ASSUME PolicyAssumption, PolicyInv, NEW c \in Calls, WriteSeed(c)
    PROVE  PolicyInv'
<1> DEFINE r == Record(c, "seed", None, None)
<1>1. PICK place \in {"read", "done"} : Go(c, place)
  BY DEF WriteSeed
<1>2. r \in Records /\ r.kind = "seed" /\ r.proposal = None
  BY RecordFacts DEF Kinds
<1>3. /\ job[c].at = "seed" /\ current' = r /\ written' = Append(written, r)
      /\ UNCHANGED <<twoPerson, proposal, history>> /\ stale' = (stale \/ current # NoRecord)
  BY DEF WriteSeed
<1> HIDE DEF r
<1>4. Backed(r) /\ Fine(r) /\ r # NoRecord
  BY <1>2, NothingFacts DEF Backed, Fine
<1>5. stale' \in BOOLEAN
  BY <1>3
<1>6. HistoryIsChronicle'
  <2> SUFFICES ASSUME ~stale' PROVE written' = Append(history', current')
    BY <1>3, <1>4 DEF HistoryIsChronicle
  <2>1. ~stale /\ current = NoRecord
    BY <1>3
  <2>2. written = history
    BY <2>1 DEF PolicyInv, HistoryIsChronicle
  <2> QED
    BY <1>3, <2>2
<1> QED
  BY <1>1, <1>2, <1>3, <1>4, <1>5, <1>6, WriterMoves

(* set_policy: EXEC.                                                       *)
LEMMA SetKeeps ==
    ASSUME PolicyAssumption, PolicyInv, NEW c \in Calls, SetPolicy(c)
    PROVE  PolicyInv'
<1>1. PICK place \in {"event", "done"} : Go(c, place)
  BY DEF SetPolicy
<1>2. job[c] \in Jobs /\ JobOK(c)
  BY DEF PolicyInv, PolicyTypeOK
<1>3. PICK r \in Records, x \in Records : r = job[c].record /\ x = job[c].seen
  BY <1>2 DEF Jobs
<1>4. /\ job[c].at = "exec" /\ current' = r /\ written' = Append(written, r)
      /\ history' = (IF x = NoRecord THEN history ELSE Append(history, x))
      /\ UNCHANGED <<twoPerson, proposal>> /\ stale' = (stale \/ x # current)
  BY <1>3 DEF SetPolicy, Kept
<1>5. /\ r.kind # "none" /\ (twoPerson => Fine(r))
      /\ Backed(r) /\ Backed(x) /\ r # NoRecord
  BY <1>2, <1>3, <1>4, NothingFacts DEF JobOK, InHand
<1>6. stale' \in BOOLEAN
  BY <1>4
<1>7. HistoryIsChronicle'
  <2> SUFFICES ASSUME ~stale' PROVE written' = Append(history', current')
    BY <1>4, <1>5 DEF HistoryIsChronicle
  <2>1. ~stale /\ x = current
    BY <1>4
  <2>2. written = IF current = NoRecord THEN history ELSE Append(history, current)
    BY <2>1 DEF PolicyInv, HistoryIsChronicle
  <2> QED
    BY <1>4, <2>1, <2>2
<1>8. UNCHANGED history \/ \E y \in Records : Backed(y) /\ history' = Append(history, y)
  BY <1>4, <1>5
<1> QED
  BY <1>1, <1>3, <1>4, <1>5, <1>6, <1>7, <1>8, WriterMoves

(* Every step of every call.                                               *)
LEMMA PolicyStep ==
    ASSUME PolicyAssumption, PolicyInv, [Next]_vars
    PROVE  PolicyInv'
<1>1. CASE UNCHANGED vars
  BY <1>1 DEF vars, PolicyInv, PolicyTypeOK, RecordsBacked, RejectedByOne, ApprovalsFollowed,
              JobOK, InHand, NoLoneAdmin, HistoryIsChronicle, Backed, Decided, Deciders, Wrote
<1>2. ASSUME NEW c \in Calls, LogEvent(c) \/ Fail(c) PROVE PolicyInv'
  <2>1. CASE LogEvent(c)
    BY <2>1, CallEnds DEF LogEvent
  <2>2. CASE Fail(c)
    BY <2>2, CallEnds DEF Fail
  <2> QED
    BY <1>2, <2>1, <2>2
<1>3. CASE Next
  <2>1. PICK c \in Calls :
            \/ GetOrSeed(c) \/ WriteSeed(c) \/ Mark(c) \/ Reject(c)
            \/ ReadCurrent(c) \/ SetPolicy(c) \/ LogEvent(c) \/ Fail(c)
            \/ \E v \in Versions : RollBack(c, v)
            \/ \E a \in Admins, v \in Versions : UpdatePolicy(c, a, v) \/ UpdateAllowlist(c, a, v)
            \/ \E a \in Admins, p \in Proposals :
                  \/ Propose(c, a, p) \/ LoadToReject(c, a, p)
                  \/ \E v \in Versions : Approve(c, a, p, v)
    BY <1>3, Zenon DEF Next
  <2> QED
    BY <1>2, <2>1, GetKeeps, SeedKeeps, MarkKeeps, ReadKeeps, SetKeeps, AloneKeeps, ProposeKeeps,
       DecideKeeps
<1> QED
  BY <1>1, <1>3

(* Two calls decided a proposal that was approved and rejected.            *)
LEMMA ProposalsAgree ==
    ASSUME PolicyAssumption, PolicyInv
    PROVE  ProposalsFollow
<1> SUFFICES ASSUME NEW p \in Proposals
             PROVE  /\ proposal[p].status \in {"none", "PENDING"} => ~Wrote(p)
                    /\ proposal[p].status = "APPROVED" =>
                           \/ Wrote(p)
                           \/ \E c \in Deciders(p) : job[c].at \in {"read", "exec", "failed"}
                    /\ proposal[p].status = "REJECTED" /\ Wrote(p) => Cardinality(Deciders(p)) > 1
  BY DEF ProposalsFollow
<1>1. Wrote(p) => proposal[p].status \in Decisions /\ Decided(p, "APPROVED")
  BY DEF PolicyInv, RecordsBacked, Backed, Wrote
<1>2. ASSUME proposal[p].status = "REJECTED", Wrote(p) PROVE Cardinality(Deciders(p)) > 1
  <2>1. PICK b \in Deciders(p) : job[b].copy.status = "APPROVED"
    BY <1>1, <1>2 DEF Decided
  <2>2. PICK d \in Deciders(p) : job[d].copy.status = "REJECTED"
    BY <1>2 DEF PolicyInv, RejectedByOne, Decided
  <2>3. IsFiniteSet(Deciders(p)) /\ Cardinality(Deciders(p)) \in Nat
    <3>1. IsFiniteSet(Calls)
      BY FS_Interval DEF Calls, PolicyAssumption
    <3>2. Deciders(p) \in SUBSET Calls
      BY DEF Deciders
    <3> QED
      BY <3>1, <3>2, FS_Subset, FS_CardinalityType
  <2>4. Cardinality(Deciders(p)) # 0
    BY <2>1, <2>3, FS_EmptySet
  <2>5. Cardinality(Deciders(p)) # 1
    BY <2>1, <2>2, <2>3, FS_Singleton
  <2> QED
    BY <2>3, <2>4, <2>5
<1> QED
  BY <1>1, <1>2 DEF PolicyInv, ApprovalsFollowed, Decisions

(* The invariant of a policy holds however its calls interleave and fail.  *)
LEMMA PolicyInvHolds == PolicySpec => []PolicyInv
<1>1. PolicyAssumption /\ Init => PolicyInv
  BY PolicyInitOK
<1>2. PolicyAssumption /\ PolicyInv /\ [Next]_vars => PolicyInv'
  BY PolicyStep
<1> QED
  BY <1>1, <1>2, PolicyAssumption, PTL DEF PolicySpec

(* policy_routes.py, lines 122 to 283: under the two-person rule no policy *)
(* that is or was in force is one admin's alone.                           *)
THEOREM TwoPersonRule == PolicySpec => []NoLoneAdmin
<1>1. PolicyInv => NoLoneAdmin
  BY DEF PolicyInv
<1> QED
  BY <1>1, PolicyInvHolds, PTL

(* tenant_policy_store.py, lines 93 to 129: the history tells every policy *)
(* that was replaced, in order, unless two writers overlapped.             *)
THEOREM HistoryTells == PolicySpec => []HistoryIsChronicle
<1>1. PolicyInv => HistoryIsChronicle
  BY DEF PolicyInv
<1> QED
  BY <1>1, PolicyInvHolds, PTL

(* policy_routes.py, lines 234 to 327: what the proposals say was decided  *)
(* agrees with the policies that were put in force.                        *)
THEOREM ProposalsTell == PolicySpec => []ProposalsFollow
<1>1. PolicyAssumption /\ PolicyInv => ProposalsFollow
  BY ProposalsAgree
<1> QED
  BY <1>1, PolicyInvHolds, PolicyAssumption, PTL

-----------------------------------------------------------------------------
(* The desired configuration.                                              *)

(* The newest of at most HistoryLimit records.                             *)
LEMMA TrimmedFacts ==
    ASSUME EnvConfigAssumption, EnvTypeOK, NEW record \in Desired
    PROVE  /\ Trimmed(record) \in Seq(Desired)
           /\ Len(Trimmed(record)) =
                 (IF Len(envHistory) + 1 < HistoryLimit THEN Len(envHistory) + 1 ELSE HistoryLimit)
           /\ Trimmed(record)[1] = record
           /\ \A i \in 2 .. Len(Trimmed(record)) : Trimmed(record)[i] = envHistory[i - 1]
<1> DEFINE s == <<record>> \o envHistory
           n == IF Len(s) < HistoryLimit THEN Len(s) ELSE HistoryLimit
<1>1. envHistory \in Seq(Desired) /\ Len(envHistory) \in Nat
  BY DEF EnvTypeOK
<1>2. /\ s \in Seq(Desired) /\ Len(s) = Len(envHistory) + 1 /\ s[1] = record
      /\ \A i \in 2 .. Len(s) : s[i] = envHistory[i - 1]
  BY <1>1
<1>3. n \in 1 .. Len(s)
  BY <1>1, <1>2 DEF EnvConfigAssumption
<1>4. Trimmed(record) = SubSeq(s, 1, n)
  BY DEF Trimmed, Latest
<1> HIDE DEF s
<1>5. /\ SubSeq(s, 1, n) \in Seq(Desired) /\ Len(SubSeq(s, 1, n)) = n
      /\ \A i \in 1 .. n : SubSeq(s, 1, n)[i] = s[i]
  <2> HIDE DEF n
  <2> QED
    BY <1>2, <1>3
<1> QED
  BY <1>1, <1>2, <1>3, <1>4, <1>5

(* The first states.                                                       *)
LEMMA EnvInitOK == EnvConfigAssumption /\ EnvInit => EnvInv
<1> SUFFICES ASSUME EnvConfigAssumption, EnvInit PROVE EnvInv
  OBVIOUS
<1>1. NoEnvProposal \in EnvProposalStates /\ NoEnvProposal.status = "none"
  BY DEF NoEnvProposal, EnvProposalStates
<1>2. NewEnvJob.at = "new" /\ NewEnvJob.id = NoOne /\ NewEnvJob.copy = NoEnvProposal
  BY DEF NewEnvJob
<1>3. NewEnvJob \in [at : EnvPlaces, id : EnvProposals \cup {NoOne}, copy : EnvProposalStates]
  BY <1>1 DEF NewEnvJob, EnvPlaces
<1>4. /\ envProposal \in [EnvProposals -> EnvProposalStates]
      /\ envJob \in [EnvCalls -> [at : EnvPlaces, id : EnvProposals \cup {NoOne},
                                  copy : EnvProposalStates]]
  BY <1>1, <1>3, Zenon DEF EnvInit
<1>5. envHistory \in Seq(Desired) /\ approved \in Seq(Desired)
  BY DEF EnvInit
<1>6. EnvTypeOK
  BY <1>4, <1>5, Zenon DEF EnvInit, EnvTypeOK
<1>7. \A c \in EnvCalls : EnvJobOK(c)
  BY <1>2 DEF EnvInit, EnvJobOK
<1>8. /\ Len(approved) = 0 /\ DOMAIN approved = {} /\ Len(envHistory) = 0 /\ DOMAIN envHistory = {}
      /\ envHistory = << >> /\ desired = NoDesired
      /\ \A p \in EnvProposals : envProposal[p].status = "none"
  BY <1>1 DEF EnvInit
<1>9. EnvDecisionsKnown
  BY <1>8 DEF EnvDecisionsKnown, Applied
<1>10. EnvHistoryAgrees /\ NobodyApprovedTheirOwn
  BY <1>8 DEF EnvHistoryAgrees, NobodyApprovedTheirOwn, EnvConfigAssumption
<1> QED
  BY <1>6, <1>7, <1>9, <1>10 DEF EnvInv

EnvJobs == [at : EnvPlaces, id : EnvProposals \cup {NoOne}, copy : EnvProposalStates]

(* Where a call goes, with what it had.                                    *)
LEMMA EnvCallGoes ==
    ASSUME EnvInv, NEW c \in EnvCalls, NEW place \in EnvPlaces, EnvGo(c, place)
    PROVE  \E j \in EnvJobs :
              /\ envJob' = [envJob EXCEPT ![c] = j]
              /\ j.at = place /\ j.id = envJob[c].id /\ j.copy = envJob[c].copy
<1> DEFINE j == [envJob[c] EXCEPT !.at = place]
<1>1. envJob[c] \in EnvJobs
  BY DEF EnvInv, EnvTypeOK, EnvJobs
<1>2. j \in EnvJobs /\ j.at = place /\ j.id = envJob[c].id /\ j.copy = envJob[c].copy
  BY <1>1 DEF EnvJobs
<1>3. envJob' = [envJob EXCEPT ![c] = j]
  BY Zenon DEF EnvGo
<1> HIDE DEF j
<1> QED
  BY <1>2, <1>3

(* One call moves: what was decided stays decided, who proposed stays, and *)
(* the other calls are as they were.                                       *)
LEMMA OneEnvCallMoves ==
    ASSUME EnvConfigAssumption, EnvInv, NEW c \in EnvCalls, NEW j \in EnvJobs,
           envJob' = [envJob EXCEPT ![c] = j],
           envJob[c].id = NoOne \/ (j.id = envJob[c].id /\ j.copy = envJob[c].copy),
           envProposal' \in [EnvProposals -> EnvProposalStates],
           \A p \in EnvProposals :
              \/ envProposal'[p] = envProposal[p]
              \/ envProposal[p].status = "none"
              \/ /\ envProposal[p].status # "none" /\ envProposal'[p].status \in EnvDecisions
                 /\ envProposal'[p].by = envProposal[p].by
    PROVE  /\ envJob' \in [EnvCalls -> EnvJobs] /\ envJob'[c] = j
           /\ \A p \in EnvProposals : \A how : EnvDecided(p, how) => EnvDecided(p, how)'
           /\ \A d \in EnvCalls \ {c} : EnvJobOK(d)'
           /\ \A i \in DOMAIN approved :
                 envProposal'[approved[i].id].by = envProposal[approved[i].id].by
<1>1. envJob \in [EnvCalls -> EnvJobs]
  BY DEF EnvInv, EnvTypeOK, EnvJobs
<1>2. envJob' \in [EnvCalls -> EnvJobs] /\ envJob'[c] = j /\ \A d \in EnvCalls \ {c} : envJob'[d] = envJob[d]
  BY <1>1
<1>3. \A p \in EnvProposals : p # NoOne
  BY DEF EnvConfigAssumption
<1>4. ASSUME NEW p \in EnvProposals, NEW how, EnvDecided(p, how) PROVE EnvDecided(p, how)'
  <2>1. PICK d \in EnvCalls : envJob[d].id = p /\ envJob[d].copy.status = how
    BY <1>4 DEF EnvDecided, EnvDeciders
  <2>2. envJob'[d].id = p /\ envJob'[d].copy.status = how
    BY <1>2, <1>3, <2>1
  <2> QED
    BY <2>2, Zenon DEF EnvDecided, EnvDeciders
<1>5. ASSUME NEW d \in EnvCalls \ {c} PROVE EnvJobOK(d)'
  <2>1. EnvJobOK(d) /\ envJob[d].id \in EnvProposals \cup {NoOne} /\ envJob'[d] = envJob[d]
    BY <1>1, <1>2, <1>5 DEF EnvInv, EnvJobs
  <2>2. \A p \in EnvProposals : envProposal[p].status # "none" =>
           envProposal'[p].status # "none" /\ envProposal'[p].by = envProposal[p].by
    BY DEF EnvDecisions
  <2> QED
    BY <2>1, <2>2 DEF EnvJobOK
<1>6. ASSUME NEW i \in DOMAIN approved
      PROVE  envProposal'[approved[i].id].by = envProposal[approved[i].id].by
  <2>1. approved[i].id \in EnvProposals /\ Applied(approved[i].id)
    <3>1. approved[i] \in Desired
      BY DEF EnvInv, EnvTypeOK
    <3> QED
      BY <3>1 DEF Desired, Applied
  <2>2. envProposal[approved[i].id].status \in EnvDecisions
    BY <2>1 DEF EnvInv, EnvDecisionsKnown
  <2> QED
    BY <2>1, <2>2 DEF EnvDecisions
<1> QED
  BY <1>2, <1>4, <1>5, <1>6

(* A step that approves nothing.                                           *)
LEMMA NothingApplied ==
    ASSUME EnvConfigAssumption, EnvInv, NEW c \in EnvCalls, NEW j \in EnvJobs,
           envJob' = [envJob EXCEPT ![c] = j],
           envJob[c].id = NoOne \/ (j.id = envJob[c].id /\ j.copy = envJob[c].copy),
           envProposal' \in [EnvProposals -> EnvProposalStates],
           \A p \in EnvProposals :
              \/ envProposal'[p] = envProposal[p]
              \/ envProposal[p].status = "none" /\ envProposal'[p].status = "PENDING"
              \/ /\ envProposal[p].status # "none" /\ envProposal'[p].by = envProposal[p].by
                 /\ envProposal'[p].status = "REJECTED" /\ j.id = p /\ j.copy.status = "REJECTED",
           UNCHANGED <<desired, envHistory, approved>>,
           EnvJobOK(c)'
    PROVE  EnvInv'
<1>1. /\ envJob' \in [EnvCalls -> EnvJobs] /\ envJob'[c] = j
      /\ \A p \in EnvProposals : \A how : EnvDecided(p, how) => EnvDecided(p, how)'
      /\ \A d \in EnvCalls \ {c} : EnvJobOK(d)'
      /\ \A i \in DOMAIN approved :
            envProposal'[approved[i].id].by = envProposal[approved[i].id].by
  BY OneEnvCallMoves DEF EnvDecisions
<1>2. EnvTypeOK'
  BY <1>1 DEF EnvInv, EnvTypeOK, EnvJobs
<1>3. EnvHistoryAgrees' /\ NobodyApprovedTheirOwn'
  BY <1>1 DEF EnvInv, EnvHistoryAgrees, NobodyApprovedTheirOwn
<1>4. EnvDecisionsKnown'
  <2> SUFFICES ASSUME NEW p \in EnvProposals
               PROVE  /\ Applied(p)' => envProposal'[p].status \in EnvDecisions /\ EnvDecided(p, "APPROVED")'
                      /\ envProposal'[p].status = "APPROVED" => Applied(p)'
                      /\ envProposal'[p].status = "REJECTED" => EnvDecided(p, "REJECTED")'
    BY DEF EnvDecisionsKnown
  <2>1. Applied(p)' <=> Applied(p)
    BY DEF Applied
  <2>2. j.id = p /\ j.copy.status = "REJECTED" => EnvDecided(p, "REJECTED")'
    BY <1>1 DEF EnvDecided, EnvDeciders
  <2> QED
    BY <1>1, <2>1, <2>2 DEF EnvInv, EnvDecisionsKnown, EnvDecisions
<1> QED
  BY <1>1, <1>2, <1>3, <1>4 DEF EnvInv

(* A call that ends, or fails.                                             *)
LEMMA EnvEndKeeps ==
    ASSUME EnvConfigAssumption, EnvInv, NEW c \in EnvCalls, EnvLogEvent(c) \/ EnvFail(c)
    PROVE  EnvInv'
<1>1. PICK place \in {"done", "failed"} : EnvGo(c, place)
  BY DEF EnvLogEvent, EnvFail
<1>2. UNCHANGED <<desired, envHistory, envProposal, approved>>
  BY DEF EnvLogEvent, EnvFail
<1>3. PICK j \in EnvJobs :
          /\ envJob' = [envJob EXCEPT ![c] = j]
          /\ j.at = place /\ j.id = envJob[c].id /\ j.copy = envJob[c].copy
  BY <1>1, EnvCallGoes DEF EnvPlaces
<1>4. envJob'[c] = j /\ EnvJobOK(c)
  BY <1>3 DEF EnvInv, EnvTypeOK
<1>5. EnvJobOK(c)'
  BY <1>1, <1>2, <1>3, <1>4 DEF EnvJobOK
<1>6. envProposal' \in [EnvProposals -> EnvProposalStates]
  BY <1>2 DEF EnvInv, EnvTypeOK
<1> QED
  BY <1>2, <1>3, <1>5, <1>6, NothingApplied

(* propose_env_config_change.                                              *)
LEMMA EnvProposeKeeps ==
    ASSUME EnvConfigAssumption, EnvInv, NEW c \in EnvCalls, NEW a \in EnvAdmins,
           NEW p \in EnvProposals, EnvPropose(c, a, p)
    PROVE  EnvInv'
<1> DEFINE q == [NoEnvProposal EXCEPT !.status = "PENDING", !.by = a]
<1>1. q \in EnvProposalStates /\ q.status = "PENDING"
  <2>1. NoEnvProposal \in EnvProposalStates
    BY DEF NoEnvProposal, EnvProposalStates
  <2> QED
    BY <2>1 DEF EnvProposalStates
<1>2. envProposal' = [envProposal EXCEPT ![p] = q] /\ envProposal[p].status = "none"
      /\ UNCHANGED <<desired, envHistory, approved>> /\ EnvGo(c, "event") /\ EnvStarts(c)
  BY DEF EnvPropose
<1> HIDE DEF q
<1>3. PICK j \in EnvJobs :
          /\ envJob' = [envJob EXCEPT ![c] = j]
          /\ j.at = "event" /\ j.id = envJob[c].id /\ j.copy = envJob[c].copy
  BY <1>2, EnvCallGoes DEF EnvPlaces
<1>4. envJob'[c] = j /\ envJob[c].id = NoOne
  BY <1>2, <1>3 DEF EnvInv, EnvTypeOK, EnvStarts, EnvJobOK
<1>5. EnvJobOK(c)'
  BY <1>3, <1>4 DEF EnvJobOK
<1>6. /\ envProposal' \in [EnvProposals -> EnvProposalStates] /\ envProposal'[p] = q
      /\ \A o \in EnvProposals \ {p} : envProposal'[o] = envProposal[o]
  BY <1>1, <1>2 DEF EnvInv, EnvTypeOK
<1> QED
  BY <1>1, <1>2, <1>3, <1>5, <1>6, NothingApplied

(* HGET, the status check and the two-person rule.                         *)
LEMMA EnvLoadKeeps ==
    ASSUME EnvConfigAssumption, EnvInv, NEW c \in EnvCalls, NEW a \in EnvAdmins,
           NEW p \in EnvProposals, NEW place \in {"approve", "reject"},
           EnvLoadToDecide(c, a, p, place)
    PROVE  EnvInv'
<1> DEFINE how == IF place = "approve" THEN "APPROVED" ELSE "REJECTED"
           copy == [envProposal[p] EXCEPT !.decider = a, !.status = how]
           r == [at |-> place, id |-> p, copy |-> copy]
<1>1. /\ EnvStarts(c) /\ envProposal[p].status = "PENDING"
      /\ place = "approve" => envProposal[p].by # a
      /\ envJob' = [envJob EXCEPT ![c] = r]
      /\ UNCHANGED <<desired, envHistory, envProposal, approved>>
  BY Zenon DEF EnvLoadToDecide, EnvViolates
<1>2. how \in EnvDecisions /\ (place = "approve" => how = "APPROVED")
      /\ (place = "reject" => how = "REJECTED")
  BY DEF EnvDecisions
<1> HIDE DEF how
<1>3. /\ copy \in EnvProposalStates /\ copy.status = how /\ copy.decider = a
      /\ copy.by = envProposal[p].by
  <2>1. envProposal[p] \in EnvProposalStates
    BY DEF EnvInv, EnvTypeOK
  <2> QED
    BY <1>2, <2>1 DEF EnvProposalStates
<1> HIDE DEF copy
<1>4. r \in EnvJobs /\ r.at = place /\ r.id = p /\ r.copy = copy
  BY <1>3 DEF EnvJobs, EnvPlaces
<1> HIDE DEF r
<1>5. envJob'[c] = r /\ envJob[c].id = NoOne
  BY <1>1 DEF EnvInv, EnvTypeOK, EnvStarts, EnvJobOK
<1>6. EnvJobOK(c)'
  BY <1>1, <1>2, <1>3, <1>4, <1>5 DEF EnvJobOK
<1>7. envProposal' \in [EnvProposals -> EnvProposalStates]
  BY <1>1 DEF EnvInv, EnvTypeOK
<1> QED
  BY <1>1, <1>4, <1>5, <1>6, <1>7, NothingApplied

(* HSET of the proposal as it was read.                                    *)
LEMMA MarkedFacts ==
    ASSUME EnvConfigAssumption, EnvInv, NEW c \in EnvCalls, envJob[c].at \in {"approve", "reject"},
           envProposal' = Marked(c)
    PROVE  /\ envJob[c].id \in EnvProposals /\ envProposal'[envJob[c].id] = envJob[c].copy
           /\ envProposal[envJob[c].id].status # "none"
           /\ envProposal' \in [EnvProposals -> EnvProposalStates]
           /\ envJob[c].copy.by = envProposal[envJob[c].id].by
           /\ \A o \in EnvProposals \ {envJob[c].id} : envProposal'[o] = envProposal[o]
<1>1. envJob[c] \in EnvJobs /\ EnvJobOK(c) /\ envProposal \in [EnvProposals -> EnvProposalStates]
  BY DEF EnvInv, EnvTypeOK, EnvJobs
<1>2. envJob[c].id \in EnvProposals /\ envJob[c].copy \in EnvProposalStates
  BY <1>1 DEF EnvJobs, EnvJobOK
<1> QED
  BY <1>1, <1>2 DEF Marked, EnvJobOK

(* reject_env_config_proposal.                                             *)
LEMMA EnvRejectKeeps ==
    ASSUME EnvConfigAssumption, EnvInv, NEW c \in EnvCalls, EnvReject(c)
    PROVE  EnvInv'
<1>1. envJob[c].at = "reject" /\ envProposal' = Marked(c) /\ EnvGo(c, "event")
      /\ UNCHANGED <<desired, envHistory, approved>>
  BY DEF EnvReject
<1>2. PICK j \in EnvJobs :
          /\ envJob' = [envJob EXCEPT ![c] = j]
          /\ j.at = "event" /\ j.id = envJob[c].id /\ j.copy = envJob[c].copy
  BY <1>1, EnvCallGoes DEF EnvPlaces
<1>3. /\ j.id \in EnvProposals /\ envProposal'[j.id] = j.copy
      /\ envProposal[j.id].status # "none"
      /\ envProposal' \in [EnvProposals -> EnvProposalStates]
      /\ j.copy.by = envProposal[j.id].by
      /\ \A o \in EnvProposals \ {j.id} : envProposal'[o] = envProposal[o]
  BY <1>1, <1>2, MarkedFacts
<1>4. j.copy.status = "REJECTED" /\ envJob'[c] = j
  BY <1>1, <1>2 DEF EnvInv, EnvTypeOK, EnvJobOK
<1>5. EnvJobOK(c)'
  BY <1>2, <1>3, <1>4 DEF EnvJobOK
<1> QED
  BY <1>1, <1>2, <1>3, <1>4, <1>5, NothingApplied

(* HSET, SET, LPUSH and LTRIM in one MULTI: the history stays the latest   *)
(* approvals.                                                              *)
LEMMA HistoryGrows ==
    ASSUME EnvConfigAssumption, EnvTypeOK, EnvHistoryAgrees, NEW record \in Desired,
           desired' = record, envHistory' = Trimmed(record), approved' = Append(approved, record)
    PROVE  /\ envHistory' \in Seq(Desired) /\ approved' \in Seq(Desired)
           /\ EnvHistoryAgrees'
           /\ DOMAIN approved' = DOMAIN approved \cup {Len(approved) + 1}
           /\ approved'[Len(approved) + 1] = record
           /\ \A i \in DOMAIN approved : approved'[i] = approved[i]
<1>1. /\ approved' \in Seq(Desired) /\ Len(approved') = Len(approved) + 1
      /\ DOMAIN approved = 1 .. Len(approved) /\ Len(approved) \in Nat
      /\ DOMAIN approved' = 1 .. Len(approved) + 1
      /\ approved'[Len(approved) + 1] = record
      /\ \A i \in DOMAIN approved : approved'[i] = approved[i]
  BY DEF EnvTypeOK
<1>2. /\ envHistory' \in Seq(Desired) /\ envHistory'[1] = record
      /\ Len(envHistory') =
            (IF Len(envHistory) + 1 < HistoryLimit THEN Len(envHistory) + 1 ELSE HistoryLimit)
      /\ \A i \in 2 .. Len(envHistory') : envHistory'[i] = envHistory[i - 1]
  BY TrimmedFacts
<1>3. /\ Len(envHistory) = (IF Len(approved) < HistoryLimit THEN Len(approved) ELSE HistoryLimit)
      /\ DOMAIN envHistory = 1 .. Len(envHistory) /\ HistoryLimit \in Nat \ {0}
      /\ \A i \in DOMAIN envHistory : envHistory[i] = approved[Len(approved) + 1 - i]
  BY DEF EnvTypeOK, EnvHistoryAgrees, EnvConfigAssumption
<1>4. Len(envHistory') = (IF Len(approved') < HistoryLimit THEN Len(approved') ELSE HistoryLimit)
  BY <1>1, <1>2, <1>3
<1>5. DOMAIN envHistory' = 1 .. Len(envHistory') /\ envHistory' # << >>
  BY <1>1, <1>2, <1>3, <1>4
<1>6. ASSUME NEW i \in DOMAIN envHistory' PROVE envHistory'[i] = approved'[Len(approved') + 1 - i]
  <2>1. CASE i = 1
    BY <1>1, <1>2, <2>1
  <2>2. CASE i # 1
    <3>1. /\ i \in 2 .. Len(envHistory') /\ i - 1 \in DOMAIN envHistory
          /\ Len(approved) + 1 - (i - 1) \in DOMAIN approved
          /\ Len(approved') + 1 - i = Len(approved) + 1 - (i - 1)
      <4>1. i \in 1 .. Len(envHistory') /\ i # 1
        BY <1>5, <1>6, <2>2
      <4>2. Len(envHistory) \in Nat /\ Len(envHistory') \in Nat /\ Len(approved) \in Nat
        BY <1>1, <1>3, <1>4
      <4>3. Len(envHistory') <= Len(envHistory) + 1 /\ Len(envHistory) <= Len(approved)
        BY <1>1, <1>2, <1>3
      <4>4. i \in 2 .. Len(envHistory') /\ i - 1 \in 1 .. Len(envHistory)
        BY <4>1, <4>2, <4>3
      <4>5. Len(approved) + 1 - (i - 1) \in 1 .. Len(approved)
        BY <4>2, <4>3, <4>4
      <4>6. Len(approved') + 1 - i = Len(approved) + 1 - (i - 1)
        BY <1>1, <4>1, <4>2
      <4> QED
        BY <1>1, <1>3, <4>4, <4>5, <4>6
    <3> QED
      BY <1>1, <1>2, <1>3, <3>1
  <2> QED
    BY <2>1, <2>2
<1>7. EnvHistoryAgrees'
  BY <1>2, <1>4, <1>5, <1>6 DEF EnvHistoryAgrees
<1> QED
  BY <1>1, <1>2, <1>7

(* approve_env_config_proposal.                                            *)
LEMMA EnvApproveKeeps ==
    ASSUME EnvConfigAssumption, EnvInv, NEW c \in EnvCalls, EnvApprove(c)
    PROVE  EnvInv'
<1>1. envJob[c].at = "approve" /\ envProposal' = Marked(c) /\ EnvGo(c, "event")
  BY DEF EnvApprove
<1>2. PICK j \in EnvJobs :
          /\ envJob' = [envJob EXCEPT ![c] = j]
          /\ j.at = "event" /\ j.id = envJob[c].id /\ j.copy = envJob[c].copy
  BY <1>1, EnvCallGoes DEF EnvPlaces
<1>3. /\ j.id \in EnvProposals /\ envProposal'[j.id] = j.copy
      /\ envProposal[j.id].status # "none"
      /\ envProposal' \in [EnvProposals -> EnvProposalStates]
      /\ j.copy.by = envProposal[j.id].by
      /\ \A o \in EnvProposals \ {j.id} : envProposal'[o] = envProposal[o]
  BY <1>1, <1>2, MarkedFacts
<1>4. /\ j.copy.status = "APPROVED" /\ j.copy.decider \in EnvAdmins /\ j.copy.decider # j.copy.by
  BY <1>1, <1>2 DEF EnvInv, EnvJobOK
<1>5. PICK record \in Desired :
          /\ record.id = j.id /\ record.approver = j.copy.decider
          /\ desired' = record /\ envHistory' = Trimmed(record) /\ approved' = Append(approved, record)
  <2> DEFINE r == [id |-> envJob[c].id, approver |-> envJob[c].copy.decider]
  <2>1. r \in Desired /\ r.id = j.id /\ r.approver = j.copy.decider
    BY <1>2, <1>3, <1>4 DEF Desired
  <2>2. desired' = r /\ envHistory' = Trimmed(r) /\ approved' = Append(approved, r)
    BY DEF EnvApprove
  <2> HIDE DEF r
  <2> QED
    BY <2>1, <2>2
<1>6. /\ envHistory' \in Seq(Desired) /\ approved' \in Seq(Desired)
      /\ EnvHistoryAgrees'
      /\ DOMAIN approved' = DOMAIN approved \cup {Len(approved) + 1}
      /\ approved'[Len(approved) + 1] = record
      /\ \A i \in DOMAIN approved : approved'[i] = approved[i]
  BY <1>5, HistoryGrows DEF EnvInv
<1>7. /\ envJob' \in [EnvCalls -> EnvJobs] /\ envJob'[c] = j
      /\ \A p \in EnvProposals : \A how : EnvDecided(p, how) => EnvDecided(p, how)'
      /\ \A d \in EnvCalls \ {c} : EnvJobOK(d)'
      /\ \A i \in DOMAIN approved :
            envProposal'[approved[i].id].by = envProposal[approved[i].id].by
  BY <1>2, <1>3, <1>4, OneEnvCallMoves DEF EnvDecisions
<1>8. EnvTypeOK'
  BY <1>3, <1>5, <1>6, <1>7 DEF EnvTypeOK, EnvJobs
<1>9. NobodyApprovedTheirOwn'
  <2> SUFFICES ASSUME NEW i \in DOMAIN approved'
               PROVE  approved'[i].approver # envProposal'[approved'[i].id].by
    BY DEF NobodyApprovedTheirOwn
  <2>1. CASE i \in DOMAIN approved
    BY <1>6, <1>7, <2>1 DEF EnvInv, NobodyApprovedTheirOwn
  <2>2. CASE i = Len(approved) + 1
    BY <1>3, <1>4, <1>5, <1>6, <2>2
  <2> QED
    BY <1>6, <2>1, <2>2
<1>10. EnvDecisionsKnown'
  <2> SUFFICES ASSUME NEW p \in EnvProposals
               PROVE  /\ Applied(p)' => envProposal'[p].status \in EnvDecisions /\ EnvDecided(p, "APPROVED")'
                      /\ envProposal'[p].status = "APPROVED" => Applied(p)'
                      /\ envProposal'[p].status = "REJECTED" => EnvDecided(p, "REJECTED")'
    BY DEF EnvDecisionsKnown
  <2>1. Applied(p)' <=> Applied(p) \/ p = j.id
    BY <1>5, <1>6 DEF Applied
  <2>2. EnvDecided(j.id, "APPROVED")'
    BY <1>2, <1>4, <1>7 DEF EnvDecided, EnvDeciders
  <2>3. CASE p = j.id
    BY <1>3, <1>4, <2>1, <2>2, <2>3 DEF EnvDecisions
  <2>4. CASE p # j.id
    BY <1>3, <1>7, <2>1, <2>4 DEF EnvInv, EnvDecisionsKnown
  <2> QED
    BY <2>3, <2>4
<1>11. EnvJobOK(c)'
  BY <1>2, <1>3, <1>4, <1>7 DEF EnvJobOK
<1> QED
  BY <1>6, <1>7, <1>8, <1>9, <1>10, <1>11 DEF EnvInv

(* Two calls decided a configuration that was approved and rejected.       *)
LEMMA EnvAgrees ==
    ASSUME EnvConfigAssumption, EnvInv
    PROVE  EnvRecordsAgree
<1> SUFFICES ASSUME NEW p \in EnvProposals
             PROVE  /\ envProposal[p].status = "APPROVED" => Applied(p)
                    /\ Applied(p) => \/ envProposal[p].status = "APPROVED"
                                     \/ /\ envProposal[p].status = "REJECTED"
                                        /\ Cardinality(EnvDeciders(p)) > 1
  BY DEF EnvRecordsAgree, EnvInv
<1>1. /\ Applied(p) => envProposal[p].status \in EnvDecisions /\ EnvDecided(p, "APPROVED")
      /\ envProposal[p].status = "APPROVED" => Applied(p)
      /\ envProposal[p].status = "REJECTED" => EnvDecided(p, "REJECTED")
  BY DEF EnvInv, EnvDecisionsKnown
<1>2. ASSUME Applied(p), envProposal[p].status = "REJECTED" PROVE Cardinality(EnvDeciders(p)) > 1
  <2>1. PICK b \in EnvDeciders(p) : envJob[b].copy.status = "APPROVED"
    BY <1>1, <1>2 DEF EnvDecided
  <2>2. PICK d \in EnvDeciders(p) : envJob[d].copy.status = "REJECTED"
    BY <1>1, <1>2 DEF EnvDecided
  <2>3. IsFiniteSet(EnvDeciders(p)) /\ Cardinality(EnvDeciders(p)) \in Nat
    <3>1. IsFiniteSet(EnvCalls)
      BY FS_Interval DEF EnvCalls, EnvConfigAssumption
    <3>2. EnvDeciders(p) \in SUBSET EnvCalls
      BY DEF EnvDeciders
    <3> QED
      BY <3>1, <3>2, FS_Subset, FS_CardinalityType
  <2>4. Cardinality(EnvDeciders(p)) # 0
    BY <2>1, <2>3, FS_EmptySet
  <2>5. Cardinality(EnvDeciders(p)) # 1
    BY <2>1, <2>2, <2>3, FS_Singleton
  <2> QED
    BY <2>3, <2>4, <2>5
<1> QED
  BY <1>1, <1>2 DEF EnvDecisions

(* However approvals, rejections and failures interleave, the desired      *)
(* configuration, its history and the proposals tell the same story.       *)
THEOREM EnvConfigSafe == EnvSpec => []EnvRecordsAgree
<1>1. EnvConfigAssumption /\ EnvInit => EnvInv
  BY EnvInitOK
<1>2. EnvConfigAssumption /\ EnvInv /\ [EnvNext]_envVars => EnvInv'
  <2> SUFFICES ASSUME EnvConfigAssumption, EnvInv, [EnvNext]_envVars PROVE EnvInv'
    OBVIOUS
  <2>1. CASE UNCHANGED envVars
    BY <2>1 DEF envVars, EnvInv, EnvTypeOK, EnvHistoryAgrees, NobodyApprovedTheirOwn, EnvDecisionsKnown,
                EnvDecided, EnvDeciders, Applied, EnvJobOK
  <2>2. CASE EnvNext
    <3>1. PICK c \in EnvCalls :
              \/ EnvApprove(c) \/ EnvReject(c) \/ EnvLogEvent(c) \/ EnvFail(c)
              \/ \E a \in EnvAdmins, p \in EnvProposals :
                    \/ EnvPropose(c, a, p)
                    \/ \E place \in {"approve", "reject"} : EnvLoadToDecide(c, a, p, place)
      BY <2>2, Zenon DEF EnvNext
    <3> QED
      BY <3>1, EnvApproveKeeps, EnvRejectKeeps, EnvEndKeeps, EnvProposeKeeps, EnvLoadKeeps
  <2> QED
    BY <2>1, <2>2
<1>3. EnvConfigAssumption /\ EnvInv => EnvRecordsAgree
  BY EnvAgrees
<1> QED
  BY <1>1, <1>2, <1>3, EnvConfigAssumption, PTL DEF EnvSpec

-----------------------------------------------------------------------------
(* The keys of the identity provider.                                      *)

(* Keys that are as they were at some time are so from earlier on.         *)
LEMMA AsOfEarlier ==
    ASSUME IdpInv, NEW K \in SUBSET SigningKeys, NEW t \in Int, NEW u \in Int, u <= t, AsOf(K, t)
    PROVE  AsOf(K, u)
<1>1. \A k \in SigningKeys : shown[k] \in Nat /\ withdrawn[k] \in Nat
  BY DEF IdpInv
<1>2. ASSUME NEW k \in K, k \notin published PROVE k \in gone /\ withdrawn[k] >= u
  BY <1>1, <1>2 DEF AsOf
<1>3. ASSUME NEW k \in published \ K PROVE shown[k] >= u
  BY <1>1, <1>3 DEF AsOf, IdpInv
<1> QED
  BY <1>2, <1>3 DEF AsOf

(* The cache holds keys of the identity provider.                          *)
LEMMA CachedFacts == IdpInv => Cached \in SUBSET SigningKeys
BY DEF IdpInv, Cached

(* One request moves, the others do not.                                   *)
LEMMA OneRequestMoves ==
    ASSUME IdpInv, NEW q \in Requests, NEW r \in RequestStates, request' = [request EXCEPT ![q] = r]
    PROVE  /\ request' \in [Requests -> RequestStates] /\ request'[q] = r
           /\ \A o \in Requests \ {q} : request'[o] = request[o]
BY DEF IdpInv

(* A request that moves and leaves the keys and the cache as they are.     *)
LEMMA RequestKeeps ==
    ASSUME IdpInv, NEW q \in Requests, NEW r \in RequestStates, request' = [request EXCEPT ![q] = r],
           UNCHANGED <<KeyVars, CacheVars, idpNow>>, Aged(r)
    PROVE  IdpInv'
<1>1. /\ request' \in [Requests -> RequestStates] /\ request'[q] = r
      /\ \A o \in Requests \ {q} : request'[o] = request[o]
  BY OneRequestMoves
<1>2. \A o \in Requests : Aged(request'[o])
  BY <1>1 DEF IdpInv
<1>3. \A o \in Requests : Aged(request[o])'
  BY <1>2 DEF Aged, AsOf, Cached, KeyVars, CacheVars
<1>4. \A t \in loadedAt : AsOf(Cached, t - 2 * CallTime)'
  BY DEF IdpInv, AsOf, Cached, KeyVars, CacheVars
<1> QED
  BY <1>1, <1>3, <1>4 DEF IdpInv, KeyVars, CacheVars

(* A reply ends a request.                                                 *)
LEMMA ReplyFacts ==
    ASSUME NEW s \in {0, 200, 401, 403, 500}
    PROVE  Reply(s) \in RequestStates /\ Aged(Reply(s)) /\ Reply(s).status = s /\ Reply(s).at = "done"
<1> DEFINE token == CHOOSE t \in Tokens : TRUE
           A == [at |-> "new", token |-> token, keys |-> {}, since |-> 0, status |-> 0]
           B == [at |-> "done", token |-> token, keys |-> {}, since |-> 0, status |-> 0]
           C == [at |-> "done", token |-> token, keys |-> {}, since |-> 0, status |-> s]
<1>1. NewRequest = A
  BY DEF NewRequest
<1> HIDE DEF token
<1>2. [A EXCEPT !.at = "done"] = B
  OBVIOUS
<1>3. [B EXCEPT !.status = s] = C
  OBVIOUS
<1>4. Reply(s) = C
  <2> HIDE DEF B, C
  <2>1. Reply(s) = [[A EXCEPT !.at = "done"] EXCEPT !.status = s]
    BY <1>1, Zenon DEF Reply
  <2> QED
    BY <1>2, <1>3, <2>1, Zenon
<1> QED
  BY <1>1, <1>4 DEF RequestStates, Aged

(* A fresh cache: its keys are as they were at some time less than Ttl ago *)
(* and two requests before it.                                             *)
LEMMA FreshCache ==
    ASSUME IdentityAssumption, IdpInv, KeysFresh
    PROVE  AsOf(Cached, idpNow - Ttl - 2 * CallTime + 1)
<1>1. PICK t \in loadedAt : idpNow - t < Ttl
  BY DEF KeysFresh
<1>2. t \in Nat /\ idpNow \in Nat /\ Ttl \in Nat /\ CallTime \in Nat /\ AsOf(Cached, t - 2 * CallTime)
  BY <1>1 DEF IdpInv, IdentityAssumption
<1>3. idpNow - Ttl - 2 * CallTime + 1 <= t - 2 * CallTime
  BY <1>1, <1>2
<1> QED
  BY <1>2, <1>3, CachedFacts, AsOfEarlier

(* What is known of a request that has just come.                          *)
LEMMA ArrivingRequest ==
    ASSUME NEW token \in Tokens, NEW place \in {"use", "get"}, NEW now \in Nat
    PROVE  [NewRequest EXCEPT !.token = token, !.at = place, !.since = now]
             = [at |-> place, token |-> token, keys |-> {}, since |-> now, status |-> 0]
<1> DEFINE none == CHOOSE t \in Tokens : TRUE
           A == [at |-> "new", token |-> none, keys |-> {}, since |-> 0, status |-> 0]
           B == [at |-> "new", token |-> token, keys |-> {}, since |-> 0, status |-> 0]
           C == [at |-> place, token |-> token, keys |-> {}, since |-> 0, status |-> 0]
           D == [at |-> place, token |-> token, keys |-> {}, since |-> now, status |-> 0]
<1>1. NewRequest = A
  BY DEF NewRequest
<1> HIDE DEF none
<1>2. [A EXCEPT !.token = token] = B
  OBVIOUS
<1>3. [B EXCEPT !.at = place] = C
  OBVIOUS
<1>4. [C EXCEPT !.since = now] = D
  OBVIOUS
<1> HIDE DEF A, B, C, D
<1>5. [NewRequest EXCEPT !.token = token, !.at = place, !.since = now]
        = [[[A EXCEPT !.token = token] EXCEPT !.at = place] EXCEPT !.since = now]
  BY <1>1, Zenon
<1>6. [NewRequest EXCEPT !.token = token, !.at = place, !.since = now] = D
  BY <1>2, <1>3, <1>4, <1>5, Zenon
<1> QED
  BY <1>6 DEF D

LEMMA ArriveKeeps ==
    ASSUME IdentityAssumption, IdpInv, NEW q \in Requests, NEW token \in Tokens, Arrive(q, token)
    PROVE  IdpInv'
<1> DEFINE place == IF KeysFresh THEN "use" ELSE "get"
           r == [at |-> place, token |-> token, keys |-> {}, since |-> idpNow, status |-> 0]
<1>1. request' = [request EXCEPT ![q] = r]
  <2>1. [NewRequest EXCEPT !.token = token, !.at = place, !.since = idpNow] = r
    <3>1. place \in {"use", "get"} /\ idpNow \in Nat
      BY DEF IdpInv
    <3> HIDE DEF place
    <3> QED
      BY <3>1, ArrivingRequest
  <2> HIDE DEF r
  <2> QED
    BY <2>1, Zenon DEF Arrive
<1>2. r \in RequestStates
  BY DEF RequestStates, IdpInv
<1>3. Aged(r)
  <2>1. idpNow \in Nat /\ CallTime \in Nat
    BY DEF IdpInv, IdentityAssumption
  <2>2. r.at = "use" => AsOf(Cached, idpNow - Ttl - 2 * CallTime + 1)
    BY FreshCache
  <2> QED
    BY <2>1, <2>2 DEF Aged
<1> HIDE DEF r
<1> QED
  BY <1>1, <1>2, <1>3, RequestKeeps DEF Arrive

(* What was fetched is as it is.                                           *)
LEMMA FetchKeeps ==
    ASSUME IdentityAssumption, IdpInv, NEW q \in Requests, Fetch(q)
    PROVE  IdpInv'
<1> DEFINE r == [request[q] EXCEPT !.at = "store", !.keys = published]
<1>1. request' = [request EXCEPT ![q] = r]
  BY DEF Fetch, IdpInv
<1>2. request[q] \in RequestStates /\ request[q].at = "get" /\ Aged(request[q])
  BY DEF Fetch, IdpInv
<1>3. r \in RequestStates /\ r.at = "store" /\ r.keys = published
      /\ r.since = request[q].since /\ r.token = request[q].token
  <2> DEFINE p == [request[q] EXCEPT !.at = "store"]
  <2>1. p \in RequestStates /\ p.at = "store" /\ p.since = request[q].since /\ p.token = request[q].token
    BY <1>2 DEF RequestStates
  <2>2. r = [p EXCEPT !.keys = published]
    BY Zenon
  <2> HIDE DEF p, r
  <2> QED
    BY <2>1, <2>2 DEF RequestStates, IdpInv
<1>4. AsOf(published, request[q].since)
  BY <1>2 DEF AsOf
<1>5. Aged(r)
  BY <1>2, <1>3, <1>4 DEF Aged
<1> HIDE DEF r
<1> QED
  BY <1>1, <1>3, <1>5, RequestKeeps DEF Fetch

LEMMA RepliesKeep ==
    ASSUME IdpInv, NEW q \in Requests, FetchFails(q) \/ Verify(q)
    PROVE  IdpInv'
<1> DEFINE s == IF FetchFails(q) THEN 500 ELSE Status(request[q].token, UNION jwks)
           r == Reply(s)
<1>1. \A keys : Status(request[q].token, keys) \in {0, 200, 401, 403, 500}
  BY DEF Status
<1>2. r \in RequestStates /\ Aged(r)
  <2>1. s \in {0, 200, 401, 403, 500}
    BY <1>1
  <2> HIDE DEF s
  <2> QED
    BY <2>1, ReplyFacts
<1>3. request' = [request EXCEPT ![q] = r]
  BY Zenon DEF FetchFails, Verify
<1>4. UNCHANGED <<KeyVars, CacheVars, idpNow>>
  BY Zenon DEF FetchFails, Verify
<1> HIDE DEF r
<1> QED
  BY <1>2, <1>3, <1>4, RequestKeeps

(* Keys are stored at most a request after they were fetched: for whoever  *)
(* looked at the cache before, they are newer than what it may rely on.    *)
LEMMA StoreKeysKeeps ==
    ASSUME IdentityAssumption, IdpInv, NEW q \in Requests, StoreKeys(q)
    PROVE  IdpInv'
<1> DEFINE r == [request[q] EXCEPT !.at = "stamp"]
           K == request[q].keys
<1>1. request' = [request EXCEPT ![q] = r]
  BY DEF StoreKeys, IdpInv
<1>2. request[q] \in RequestStates /\ request[q].at = "store" /\ Aged(request[q])
  BY DEF StoreKeys, IdpInv
<1>3. r \in RequestStates /\ r.at = "stamp" /\ r.since = request[q].since /\ r.token = request[q].token
  BY <1>2 DEF RequestStates
<1>4. /\ K \in SUBSET SigningKeys /\ AsOf(K, r.since) /\ r.since \in Nat /\ r.token \in Tokens
      /\ r.since <= idpNow /\ idpNow - r.since <= CallTime
  BY <1>2, <1>3 DEF Aged, RequestStates
<1>5. idpNow \in Nat /\ CallTime \in Nat /\ Ttl \in Nat \ {0}
  BY DEF IdpInv, IdentityAssumption
<1>6. jwks' = {K} /\ Cached' = K /\ UNCHANGED <<KeyVars, loadedAt, idpNow>>
  BY DEF StoreKeys, Cached
<1>7. \A t \in Int : t <= idpNow - CallTime => AsOf(K, t)
  BY <1>4, <1>5, AsOfEarlier
<1>8. \A t \in Int : t <= idpNow - CallTime => AsOf(Cached, t)'
  BY <1>6, <1>7 DEF AsOf, KeyVars
<1>9. /\ request' \in [Requests -> RequestStates] /\ request'[q] = r
      /\ \A o \in Requests \ {q} : request'[o] = request[o]
  BY <1>1, <1>3, OneRequestMoves
<1> HIDE DEF r, K
<1>10. Aged(request[q])'
  <2>1. r.since - CallTime \in Int /\ r.since - CallTime <= idpNow - CallTime
    BY <1>4, <1>5
  <2>2. AsOf(Cached, request[q].since - CallTime)'
    BY <1>8, <1>9, <2>1
  <2> QED
    BY <1>3, <1>4, <1>6, <1>9, <2>2 DEF Aged
<1>11. ASSUME NEW o \in Requests \ {q} PROVE Aged(request[o])'
  <2>1. Aged(request[o]) /\ request[o] \in RequestStates /\ request'[o] = request[o] /\ request[o].since \in Nat
    BY <1>9 DEF IdpInv, RequestStates
  <2>2. request[o].at = "stamp" => AsOf(Cached, request[o].since - CallTime)'
    <3> SUFFICES ASSUME request[o].at = "stamp" PROVE AsOf(Cached, request[o].since - CallTime)'
      OBVIOUS
    <3>1. request[o].since - CallTime \in Int /\ request[o].since - CallTime <= idpNow - CallTime
      BY <2>1, <1>5 DEF Aged
    <3> QED
      BY <1>6, <1>8, <2>1, <3>1
  <2>3. request[o].at = "use" => AsOf(Cached, request[o].since - Ttl - 2 * CallTime + 1)'
    <3> SUFFICES ASSUME request[o].at = "use"
                 PROVE  AsOf(Cached, request[o].since - Ttl - 2 * CallTime + 1)'
      OBVIOUS
    <3>1. /\ request[o].since - Ttl - 2 * CallTime + 1 \in Int
          /\ request[o].since - Ttl - 2 * CallTime + 1 <= idpNow - CallTime
      BY <2>1, <1>5 DEF Aged
    <3> QED
      BY <1>6, <1>8, <2>1, <3>1
  <2>4. request[o].at = "store" => AsOf(request[o].keys, request[o].since)'
    BY <2>1, <1>6 DEF Aged, AsOf, KeyVars
  <2> QED
    BY <1>6, <2>1, <2>2, <2>3, <2>4 DEF Aged
<1>12. ASSUME NEW t \in loadedAt PROVE AsOf(Cached, t - 2 * CallTime)'
  <2>1. t \in Nat /\ t <= idpNow
    BY <1>5 DEF IdpInv
  <2>2. t - 2 * CallTime \in Int /\ t - 2 * CallTime <= idpNow - CallTime
    BY <2>1, <1>5
  <2> QED
    BY <1>6, <1>8, <2>2
<1> QED
  BY <1>4, <1>6, <1>9, <1>10, <1>11, <1>12 DEF IdpInv, KeyVars, CacheVars

(* The time is stamped at most a request after the keys were looked up.    *)
LEMMA StoreTimeKeeps ==
    ASSUME IdentityAssumption, IdpInv, NEW q \in Requests, StoreTime(q)
    PROVE  IdpInv'
<1> DEFINE r == [request[q] EXCEPT !.at = "use"]
<1>1. request' = [request EXCEPT ![q] = r]
  BY DEF StoreTime, IdpInv
<1>2. request[q] \in RequestStates /\ request[q].at = "stamp" /\ Aged(request[q])
  BY DEF StoreTime, IdpInv
<1>3. r \in RequestStates /\ r.at = "use" /\ r.since = request[q].since /\ r.token = request[q].token
  BY <1>2 DEF RequestStates
<1>4. /\ r.since \in Nat /\ r.token \in Tokens /\ AsOf(Cached, r.since - CallTime)
      /\ r.since <= idpNow /\ idpNow - r.since <= CallTime
  BY <1>2, <1>3 DEF Aged, RequestStates
<1>5. idpNow \in Nat /\ CallTime \in Nat /\ Ttl \in Nat \ {0}
  BY DEF IdpInv, IdentityAssumption
<1>6. loadedAt' = {idpNow} /\ Cached' = Cached /\ UNCHANGED <<KeyVars, jwks, idpNow>>
  BY DEF StoreTime, Cached
<1>7. AsOf(Cached, idpNow - 2 * CallTime) /\ AsOf(Cached, r.since - Ttl - 2 * CallTime + 1)
  BY <1>4, <1>5, CachedFacts, AsOfEarlier
<1>8. /\ request' \in [Requests -> RequestStates] /\ request'[q] = r
      /\ \A o \in Requests \ {q} : request'[o] = request[o]
  BY <1>1, <1>3, OneRequestMoves
<1> HIDE DEF r
<1>9. Aged(request'[q]) /\ \A o \in Requests \ {q} : Aged(request'[o])
  BY <1>3, <1>4, <1>7, <1>8 DEF Aged, IdpInv
<1>10. \A o \in Requests : Aged(request[o])'
  BY <1>6, <1>9 DEF Aged, AsOf, KeyVars
<1>11. \A t \in loadedAt' : AsOf(Cached, t - 2 * CallTime)'
  BY <1>6, <1>7 DEF AsOf, KeyVars
<1> QED
  BY <1>5, <1>6, <1>8, <1>10, <1>11 DEF IdpInv, KeyVars

(* A key that comes or goes now is shown or withdrawn after every time     *)
(* that somebody has looked at the keys.                                   *)
LEMMA RotationKeeps ==
    ASSUME IdentityAssumption, IdpInv, NEW k \in SigningKeys, Publish(k) \/ Withdraw(k)
    PROVE  IdpInv'
<1>1. /\ published' \subseteq SigningKeys /\ published' \cap gone' = {}
      /\ shown' \in [SigningKeys -> Nat] /\ withdrawn' \in [SigningKeys -> Nat]
      /\ UNCHANGED <<CacheVars, request, idpNow>> /\ Cached' = Cached
  BY DEF Publish, Withdraw, IdpInv, CacheVars, Cached
<1>2. ASSUME NEW K \in SUBSET SigningKeys, NEW t \in Int, t <= idpNow, AsOf(K, t)
      PROVE  /\ \A j \in K : j \in published' \/ (j \in gone' /\ withdrawn'[j] >= t)
             /\ \A j \in published' \ K : shown'[j] >= t
  <2>1. idpNow \in Nat /\ published \subseteq SigningKeys /\ published \cap gone = {}
        /\ shown \in [SigningKeys -> Nat] /\ withdrawn \in [SigningKeys -> Nat]
    BY DEF IdpInv
  <2>2. CASE Publish(k)
    BY <1>2, <2>1, <2>2 DEF Publish, AsOf
  <2>3. CASE Withdraw(k)
    BY <1>2, <2>1, <2>3 DEF Withdraw, AsOf
  <2> QED
    BY <2>2, <2>3
<1>3. idpNow \in Nat /\ CallTime \in Nat /\ Ttl \in Nat \ {0}
  BY DEF IdpInv, IdentityAssumption
<1>4. ASSUME NEW t \in Int, t <= idpNow, AsOf(Cached, t) PROVE AsOf(Cached, t)'
  BY <1>1, <1>2, <1>4, CachedFacts DEF AsOf
<1>5. ASSUME NEW t \in loadedAt PROVE AsOf(Cached, t - 2 * CallTime)'
  <2>1. t - 2 * CallTime \in Int /\ t - 2 * CallTime <= idpNow /\ AsOf(Cached, t - 2 * CallTime)
    BY <1>3 DEF IdpInv
  <2> QED
    BY <2>1, <1>4
<1>6. ASSUME NEW q \in Requests PROVE Aged(request[q])'
  <2>1. request[q] \in RequestStates /\ Aged(request[q]) /\ request[q].since \in Nat
        /\ request[q].keys \in SUBSET SigningKeys
    BY DEF IdpInv, RequestStates
  <2>2. request[q].at = "store" => AsOf(request[q].keys, request[q].since)'
    <3> SUFFICES ASSUME request[q].at = "store" PROVE AsOf(request[q].keys, request[q].since)'
      OBVIOUS
    <3>1. /\ request[q].since \in Int /\ request[q].since <= idpNow
          /\ AsOf(request[q].keys, request[q].since)
      BY <2>1 DEF Aged
    <3> QED
      BY <1>1, <1>2, <2>1, <3>1 DEF AsOf
  <2>3. request[q].at = "stamp" => AsOf(Cached, request[q].since - CallTime)'
    <3> SUFFICES ASSUME request[q].at = "stamp" PROVE AsOf(Cached, request[q].since - CallTime)'
      OBVIOUS
    <3>1. /\ request[q].since - CallTime \in Int /\ request[q].since - CallTime <= idpNow
          /\ AsOf(Cached, request[q].since - CallTime)
      BY <1>3, <2>1 DEF Aged
    <3> QED
      BY <1>1, <1>4, <3>1
  <2>4. request[q].at = "use" => AsOf(Cached, request[q].since - Ttl - 2 * CallTime + 1)'
    <3> SUFFICES ASSUME request[q].at = "use"
                 PROVE  AsOf(Cached, request[q].since - Ttl - 2 * CallTime + 1)'
      OBVIOUS
    <3>1. /\ request[q].since - Ttl - 2 * CallTime + 1 \in Int
          /\ request[q].since - Ttl - 2 * CallTime + 1 <= idpNow
          /\ AsOf(Cached, request[q].since - Ttl - 2 * CallTime + 1)
      BY <1>3, <2>1 DEF Aged
    <3> QED
      BY <1>1, <1>4, <3>1
  <2> QED
    BY <1>1, <2>1, <2>2, <2>3, <2>4 DEF Aged
<1> QED
  BY <1>1, <1>3, <1>5, <1>6 DEF IdpInv, CacheVars

LEMMA IdpTickKeeps ==
    ASSUME IdentityAssumption, IdpInv, IdpTick
    PROVE  IdpInv'
<1>1. idpNow \in Nat /\ idpNow' = idpNow + 1 /\ CallTime \in Nat /\ UNCHANGED <<KeyVars, CacheVars, request>>
  BY DEF IdpTick, IdpInv, IdentityAssumption
<1>2. ASSUME NEW q \in Requests PROVE Aged(request[q])'
  <2>1. request[q] \in RequestStates /\ Aged(request[q]) /\ request[q].since \in Nat
    BY DEF IdpInv, RequestStates
  <2>2. request[q].at \notin {"new", "done"} =>
          request[q].token \in Tokens /\ request[q].since <= idpNow' /\ idpNow' - request[q].since <= CallTime
    BY <1>1, <2>1 DEF IdpTick, Aged
  <2> QED
    BY <1>1, <2>1, <2>2 DEF Aged, AsOf, Cached, KeyVars, CacheVars
<1>3. \A t \in loadedAt : AsOf(Cached, t - 2 * CallTime)'
  BY <1>1 DEF IdpInv, AsOf, Cached, KeyVars, CacheVars
<1>4. loadedAt' \subseteq 0 .. idpNow'
  BY <1>1 DEF IdpInv, CacheVars
<1> QED
  BY <1>1, <1>2, <1>3, <1>4 DEF IdpInv, KeyVars, CacheVars

LEMMA IdpInitOK == ASSUME IdentityAssumption, IdpInit PROVE IdpInv
<1>1. (CHOOSE k \in SigningKeys : TRUE) \in SigningKeys
  BY DEF IdentityAssumption
<1>2. NewRequest \in RequestStates /\ Aged(NewRequest)
  BY DEF NewRequest, RequestStates, Aged
<1>3. \A q \in Requests : request[q] = NewRequest
  BY DEF IdpInit
<1> QED
  BY <1>1, <1>2, <1>3 DEF IdpInit, IdpInv

LEMMA IdpStep ==
    ASSUME IdentityAssumption, IdpInv, [IdpNext]_idpVars
    PROVE  IdpInv'
<1>1. CASE UNCHANGED idpVars
  <2>1. \A q \in Requests : Aged(request[q])'
    BY <1>1 DEF idpVars, IdpInv, Aged, AsOf, Cached
  <2>2. \A t \in loadedAt : AsOf(Cached, t - 2 * CallTime)'
    BY <1>1 DEF idpVars, IdpInv, AsOf, Cached
  <2> QED
    BY <1>1, <2>1, <2>2 DEF idpVars, IdpInv
<1>2. CASE \E k \in SigningKeys : Publish(k) \/ Withdraw(k)
  BY <1>2, RotationKeeps
<1>3. CASE \E q \in Requests : \E t \in Tokens : Arrive(q, t)
  BY <1>3, ArriveKeeps
<1>4. CASE \E q \in Requests : Fetch(q) \/ FetchFails(q) \/ StoreKeys(q) \/ StoreTime(q) \/ Verify(q)
  BY <1>4, FetchKeeps, RepliesKeep, StoreKeysKeeps, StoreTimeKeeps
<1>5. CASE IdpTick
  BY <1>5, IdpTickKeeps
<1> QED
  BY <1>1, <1>2, <1>3, <1>4, <1>5 DEF IdpNext

(* The verdict of a request, from keys that are at most so old.            *)
LEMMA VerdictInTime ==
    ASSUME IdentityAssumption, IdpInv, NEW q \in Requests, Verify(q)
    PROVE  LET token == request[q].token k == token.kid
           IN  /\ request'[q].status = 200 =>
                    token.genuine /\ (k \in published \/ (k \in gone /\ idpNow - withdrawn[k] < Lag))
               /\ request'[q].status = 401 /\ token.genuine =>
                    k \notin published \/ idpNow - shown[k] < Lag
<1> DEFINE token == request[q].token
           k == token.kid
           x == request[q].since - Ttl - 2 * CallTime + 1
<1>1. /\ request[q] \in RequestStates /\ request[q].at = "use" /\ Aged(request[q])
      /\ idpNow \in Nat /\ CallTime \in Nat /\ Ttl \in Nat
      /\ shown \in [SigningKeys -> Nat] /\ withdrawn \in [SigningKeys -> Nat]
  BY DEF Verify, IdpInv, IdentityAssumption
<1>2. request[q].since \in Nat /\ token \in Tokens /\ idpNow - request[q].since <= CallTime /\ AsOf(Cached, x)
  BY <1>1 DEF Aged, RequestStates
<1>3. k \in SigningKeys
  BY <1>2 DEF IdentityAssumption
<1>4. x \in Int /\ idpNow - x < Lag
  BY <1>1, <1>2 DEF Lag
<1>5. request'[q].status = Status(token, Cached)
  <2>1. Status(token, Cached) \in {0, 200, 401, 403, 500}
    BY DEF Status
  <2>2. request' = [request EXCEPT ![q] = Reply(Status(token, Cached))]
    BY DEF Verify, Cached
  <2>3. Reply(Status(token, Cached)) \in RequestStates
        /\ Reply(Status(token, Cached)).status = Status(token, Cached)
    BY <2>1, ReplyFacts
  <2>4. request'[q] = Reply(Status(token, Cached))
    BY <2>2, <2>3, OneRequestMoves
  <2> QED
    BY <2>3, <2>4
<1>6. /\ Status(token, Cached) = 200 => k \in Cached /\ token.genuine
      /\ Status(token, Cached) = 401 /\ token.genuine => k \notin Cached
  BY DEF Status
<1>7. k \in Cached => k \in published \/ (k \in gone /\ withdrawn[k] >= x)
  BY <1>2 DEF AsOf
<1>8. k \in published /\ k \notin Cached => shown[k] >= x
  BY <1>2 DEF AsOf
<1>9. shown[k] \in Nat /\ withdrawn[k] \in Nat
  BY <1>1, <1>3
<1> HIDE DEF x, k, token
<1>10. /\ request'[q].status = 200 =>
            token.genuine /\ (k \in published \/ (k \in gone /\ idpNow - withdrawn[k] < Lag))
       /\ request'[q].status = 401 /\ token.genuine => k \notin published \/ idpNow - shown[k] < Lag
  <2>1. Lag \in Int /\ idpNow \in Int
    BY <1>1 DEF Lag
  <2>2. withdrawn[k] >= x => idpNow - withdrawn[k] < Lag
    BY <1>4, <1>9, <2>1
  <2>3. shown[k] >= x => idpNow - shown[k] < Lag
    BY <1>4, <1>9, <2>1
  <2> QED
    BY <1>5, <1>6, <1>7, <1>8, <2>2, <2>3
<1> QED
  BY <1>10 DEF k, token

(* Only a verification ends a request that looks at the cache.             *)
LEMMA OnlyVerifyEnds ==
    ASSUME IdpInv, IdpNext, NEW q \in Requests, request[q].at = "use", request'[q].at = "done"
    PROVE  Verify(q)
<1>1. ASSUME UNCHANGED request PROVE FALSE
  BY <1>1
<1>2. ASSUME NEW o \in Requests, NEW r \in RequestStates, request' = [request EXCEPT ![o] = r]
      PROVE  o = q /\ r.at = "done"
  BY <1>2, OneRequestMoves
<1>3. ASSUME NEW k \in SigningKeys, Publish(k) \/ Withdraw(k) PROVE FALSE
  BY <1>1, <1>3 DEF Publish, Withdraw
<1>4. ASSUME IdpTick PROVE FALSE
  BY <1>1, <1>4 DEF IdpTick
<1>5. ASSUME NEW o \in Requests, NEW t \in Tokens, Arrive(o, t) PROVE FALSE
  <2>1. request[o].at = "new" /\ \A p \in Requests \ {o} : request'[p] = request[p]
    BY <1>5 DEF Arrive, IdpInv
  <2> QED
    BY <2>1
<1>6. ASSUME NEW o \in Requests, Fetch(o) \/ FetchFails(o) \/ StoreKeys(o) \/ StoreTime(o) PROVE FALSE
  <2>1. request[o].at # "use" /\ \A p \in Requests \ {o} : request'[p] = request[p]
    BY <1>6 DEF Fetch, FetchFails, StoreKeys, StoreTime, IdpInv
  <2> QED
    BY <2>1
<1>7. ASSUME NEW o \in Requests, Verify(o) PROVE o = q
  <2>1. \A p \in Requests \ {o} : request'[p] = request[p]
    BY <1>7 DEF Verify, IdpInv
  <2> QED
    BY <2>1
<1> QED
  BY <1>3, <1>4, <1>5, <1>6, <1>7 DEF IdpNext

(* A rotation of keys takes effect in time Lag, whatever order the answers *)
(* of overlapping fetches are stored and stamped in.                       *)
THEOREM RotationsInTime == IdpSpec => RotationsTakeEffect
<1>1. IdentityAssumption /\ IdpInit => IdpInv
  BY IdpInitOK
<1>2. IdentityAssumption /\ IdpInv /\ [IdpNext]_idpVars => IdpInv'
  BY IdpStep
<1>3. IdentityAssumption /\ IdpInv /\ [IdpNext]_idpVars => [RotationsReach]_idpVars
  <2> SUFFICES ASSUME IdentityAssumption, IdpInv, IdpNext PROVE RotationsReach
    OBVIOUS
  <2> QED
    BY OnlyVerifyEnds, VerdictInTime DEF RotationsReach
<1> QED
  BY <1>1, <1>2, <1>3, IdentityAssumption, PTL DEF IdpSpec, RotationsTakeEffect
=============================================================================
