------------------------ MODULE EnvConfigGovernance ------------------------
(***************************************************************************)
(* The desired environment configuration (chimera/env_config_routes.py,    *)
(* env_config_governance.py): proposed by one admin, approved by another,  *)
(* and never applied to the process itself.  Unlike a policy, an approval  *)
(* marks the proposal and writes the desired record in one MULTI.          *)
(***************************************************************************)
EXTENDS Naturals, Sequences, FiniteSets

CONSTANTS
    MaxEnvCalls,    \* bound of the model: calls of the routes, in the order they start
    EnvAdmins,      \* subjects of the admins
    EnvProposals,   \* proposal ids
    NoOne,          \* no value
    HistoryLimit,   \* LTRIM 0 199: records the history keeps
    MaxEnvMishaps   \* bound of the model: failed Redis calls

EnvCalls == 1 .. MaxEnvCalls

ASSUME EnvConfigAssumption ==
    /\ NoOne \notin EnvAdmins \cup EnvProposals
    /\ HistoryLimit \in Nat \ {0} /\ MaxEnvMishaps \in Nat
    /\ MaxEnvCalls \in Nat

VARIABLES
    desired,        \* apex:envcfg:desired:<env>:current
    envHistory,     \* apex:envcfg:desired:<env>:history, newest first
    envProposal,    \* apex:envcfg:proposals:<env>
    envJob,         \* what each call is doing: [at, id, copy]
    envMishaps,     \* failures so far
    approved        \* history: approvals carried out, oldest first

envVars == <<desired, envHistory, envProposal, envJob, envMishaps, approved>>

NoEnvProposal == [status |-> "none", by |-> NoOne, decider |-> NoOne]
NewEnvJob == [at |-> "new", id |-> NoOne, copy |-> NoEnvProposal]
NoDesired == [id |-> NoOne, approver |-> NoOne]

EnvInit ==
    /\ desired = NoDesired /\ envHistory = << >> /\ approved = << >>
    /\ envProposal = [p \in EnvProposals |-> NoEnvProposal]
    /\ envJob = [c \in EnvCalls |-> NewEnvJob]
    /\ envMishaps = 0

EnvStarts(c) == envJob[c].at = "new" /\ \A b \in 1 .. c - 1 : envJob[b].at # "new"

EnvGo(c, place) == envJob' = [envJob EXCEPT ![c].at = place]

(* propose_env_config_change. *)
EnvPropose(c, a, p) ==
    /\ EnvStarts(c)
    /\ envProposal[p].status = "none"
    /\ envProposal' = [envProposal EXCEPT ![p] = [NoEnvProposal EXCEPT !.status = "PENDING", !.by = a]]
    /\ EnvGo(c, "event")
    /\ UNCHANGED <<desired, envHistory, approved, envMishaps>>

EnvViolates(proposer, approver) == proposer = approver

(* HGET, the status check and, to approve, the two-person rule. *)
EnvLoadToDecide(c, a, p, place) ==
    /\ EnvStarts(c)
    /\ envProposal[p].status = "PENDING"
    /\ place = "approve" => ~EnvViolates(envProposal[p].by, a)
    /\ envJob' = [envJob EXCEPT ![c] =
                  [at |-> place, id |-> p,
                   copy |-> [envProposal[p] EXCEPT !.decider = a,
                                !.status = IF place = "approve" THEN "APPROVED" ELSE "REJECTED"]]]
    /\ UNCHANGED <<desired, envHistory, envProposal, approved, envMishaps>>

Latest(s) == SubSeq(s, 1, IF Len(s) < HistoryLimit THEN Len(s) ELSE HistoryLimit)

(* Mutant of Trimmed: the record goes to the wrong end of the list. *)
AtTheEnd(record) == Latest(Append(envHistory, record))

Trimmed(record) == Latest(<<record>> \o envHistory)

Marked(c) == [envProposal EXCEPT ![envJob[c].id] = envJob[c].copy]

(* approve_env_config_proposal: HSET, SET, LPUSH and LTRIM in one MULTI. *)
EnvApprove(c) ==
    /\ envJob[c].at = "approve"
    /\ LET record == [id |-> envJob[c].id, approver |-> envJob[c].copy.decider]
       IN  /\ desired' = record
           /\ envHistory' = Trimmed(record)
           /\ approved' = Append(approved, record)
    /\ envProposal' = Marked(c)
    /\ EnvGo(c, "event")
    /\ UNCHANGED envMishaps

(* reject_env_config_proposal: HSET of the proposal as it was read. *)
EnvReject(c) ==
    /\ envJob[c].at = "reject"
    /\ envProposal' = Marked(c)
    /\ EnvGo(c, "event")
    /\ UNCHANGED <<desired, envHistory, approved, envMishaps>>

(* The governance event, best effort. *)
EnvLogEvent(c) ==
    /\ envJob[c].at = "event"
    /\ EnvGo(c, "done")
    /\ UNCHANGED <<desired, envHistory, envProposal, approved, envMishaps>>

EnvFail(c) ==
    /\ envJob[c].at \in {"approve", "reject", "event"}
    /\ envMishaps < MaxEnvMishaps
    /\ envMishaps' = envMishaps + 1
    /\ EnvGo(c, "failed")
    /\ UNCHANGED <<desired, envHistory, envProposal, approved>>

EnvNext == \E c \in EnvCalls :
    \/ EnvApprove(c) \/ EnvReject(c) \/ EnvLogEvent(c) \/ EnvFail(c)
    \/ \E a \in EnvAdmins, p \in EnvProposals :
          \/ EnvPropose(c, a, p)
          \/ \E place \in {"approve", "reject"} : EnvLoadToDecide(c, a, p, place)

EnvSpec == EnvInit /\ [][EnvNext]_envVars

----------------------------------------------------------------------------
EnvHistoryAgrees ==
    /\ desired = (IF envHistory = << >> THEN NoDesired ELSE envHistory[1])
    /\ Len(envHistory) = (IF Len(approved) < HistoryLimit THEN Len(approved) ELSE HistoryLimit)
    /\ \A i \in DOMAIN envHistory : envHistory[i] = approved[Len(approved) + 1 - i]

Applied(p) == \E i \in DOMAIN approved : approved[i].id = p
EnvDeciders(p) == {c \in EnvCalls : envJob[c].id = p}

NobodyApprovedTheirOwn ==
    \A i \in DOMAIN approved : approved[i].approver # envProposal[approved[i].id].by

(* The records agree however approvals, rejections and failures interleave.*)
(* The desired configuration is the newest of the history, which is the    *)
(* latest approvals, newest first.  A proposal is marked approved in the   *)
(* step that makes it the desired one; only a second decision can leave a  *)
(* desired configuration with a rejected proposal.  And nobody approved    *)
(* what they had proposed.                                                 *)
EnvRecordsAgree ==
    /\ EnvHistoryAgrees /\ NobodyApprovedTheirOwn
    /\ \A p \in EnvProposals :
          /\ envProposal[p].status = "APPROVED" => Applied(p)
          /\ Applied(p) => \/ envProposal[p].status = "APPROVED"
                           \/ /\ envProposal[p].status = "REJECTED"
                              /\ Cardinality(EnvDeciders(p)) > 1

(* What makes this inductive: the copy a call holds keeps the proposer,    *)
(* and whoever decided a proposal is still known by that copy.             *)
EnvDecisions == {"APPROVED", "REJECTED"}
EnvPlaces == {"new", "approve", "reject", "event", "done", "failed"}
EnvProposalStates ==
    [status : {"none", "PENDING"} \cup EnvDecisions,
     by : EnvAdmins \cup {NoOne}, decider : EnvAdmins \cup {NoOne}]
Desired == [id : EnvProposals, approver : EnvAdmins]

EnvTypeOK ==
    /\ desired \in Desired \cup {NoDesired}
    /\ envHistory \in Seq(Desired) /\ approved \in Seq(Desired)
    /\ envProposal \in [EnvProposals -> EnvProposalStates]
    /\ envJob \in [EnvCalls -> [at : EnvPlaces, id : EnvProposals \cup {NoOne},
                                copy : EnvProposalStates]]

EnvDecided(p, decision) == \E c \in EnvDeciders(p) : envJob[c].copy.status = decision

EnvJobOK(c) ==
    LET j == envJob[c]
    IN  /\ j.at = "new" => j.id = NoOne
        /\ j.at \in {"approve", "reject"} => j.id # NoOne
        /\ j.at = "approve" => /\ j.copy.status = "APPROVED"
                               /\ j.copy.decider \in EnvAdmins /\ j.copy.decider # j.copy.by
        /\ j.at = "reject" => j.copy.status = "REJECTED"
        /\ j.id # NoOne => /\ envProposal[j.id].status # "none"
                           /\ j.copy.by = envProposal[j.id].by

EnvDecisionsKnown ==
    \A p \in EnvProposals :
        /\ Applied(p) => envProposal[p].status \in EnvDecisions /\ EnvDecided(p, "APPROVED")
        /\ envProposal[p].status = "APPROVED" => Applied(p)
        /\ envProposal[p].status = "REJECTED" => EnvDecided(p, "REJECTED")

EnvInv ==
    /\ EnvTypeOK /\ EnvHistoryAgrees /\ NobodyApprovedTheirOwn /\ EnvDecisionsKnown
    /\ \A c \in EnvCalls : EnvJobOK(c)
=============================================================================
