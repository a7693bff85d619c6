-------------------------- MODULE PolicyGovernance --------------------------
(***************************************************************************)
(* The policy of one tenant: the current record and the history of         *)
(* PolicyStore (chimera/tenant_policy_store.py), and the admin routes that *)
(* change it, directly or through a proposal a second admin approves       *)
(* (chimera/policy_routes.py, policy_governance.py, policy_records.py).    *)
(* Calls run concurrently and interleave at every Redis command; a         *)
(* MULTI/EXEC is one step.                                                 *)
(***************************************************************************)
EXTENDS Naturals, Sequences, FiniteSets

CONSTANTS
    MaxCalls,     \* bound of the model: calls of the routes and requests that seed the
                  \* policy, numbered in the order they start
    Admins,       \* subjects of the admins
    Proposals,    \* proposal ids
    Versions,     \* version strings; two records may well have the same
    None,         \* no value
    MaxMishaps    \* bound of the model: failed Redis calls

Calls == 1 .. MaxCalls

ASSUME PolicyAssumption ==
    /\ None \notin Admins \cup Proposals \cup Versions
    /\ MaxCalls \in Nat /\ MaxMishaps \in Nat

VARIABLES
    twoPerson,   \* APEX_TWO_PERSON_POLICY, read when the process starts
    current,     \* apex:policy:<tenant>:current
    history,     \* apex:policy:<tenant>:history
    proposal,    \* apex:policy:<tenant>:proposals
    job,         \* what each call is doing: [at, record, seen, id, copy]
    mishaps,     \* failures so far
    written,     \* history: every record that became current, in order
    stale        \* history: a record was replaced that its writer had not read

vars == <<twoPerson, current, history, proposal, job, mishaps, written, stale>>

NoRecord == [writer |-> 0, kind |-> "none", version |-> None, by |-> None,
             approver |-> None, proposal |-> None]
Record(c, kind, v, a) == [writer |-> c, kind |-> kind, version |-> v, by |-> a,
                          approver |-> None, proposal |-> None]

NoProposal == [status |-> "none", by |-> None, decider |-> None]

NewJob == [at |-> "new", record |-> NoRecord, seen |-> NoRecord, id |-> None, copy |-> NoProposal]

Init ==
    /\ twoPerson \in BOOLEAN
    /\ current = NoRecord /\ history = << >>
    /\ proposal = [p \in Proposals |-> NoProposal]
    /\ job = [c \in Calls |-> NewJob]
    /\ mishaps = 0
    /\ written = << >> /\ stale = FALSE

store == <<twoPerson, current, history, written, stale>>

Starts(c) == job[c].at = "new" /\ \A b \in 1 .. c - 1 : job[b].at # "new"

Go(c, place) == job' = [job EXCEPT ![c].at = place]
GoWith(c, place, record) == job' = [job EXCEPT ![c].at = place, ![c].record = record]

(* get_policy_or_seed, as a stream request runs it: GET. *)
GetOrSeed(c) ==
    /\ Starts(c)
    /\ IF current = NoRecord
       THEN GoWith(c, "seed", Record(c, "seed", None, None))
       ELSE Go(c, "done")
    /\ UNCHANGED <<store, proposal, mishaps>>

(* set_policy with is_new: SET over whatever is there, no history.  An     *)
(* allowlist update goes on from here.                                     *)
WriteSeed(c) ==
    /\ job[c].at = "seed"
    /\ LET seed == Record(c, "seed", None, None)
       IN  /\ current' = seed
           /\ written' = Append(written, seed)
    /\ stale' = (stale \/ current # NoRecord)
    /\ Go(c, IF job[c].record.kind = "seed" THEN "done" ELSE "read")
    /\ UNCHANGED <<twoPerson, history, proposal, mishaps>>

(* The routes that change the policy at once refuse under the two-person rule. *)
MayChangeAlone == ~twoPerson

UpdatePolicy(c, a, v) ==
    /\ Starts(c)
    /\ MayChangeAlone
    /\ GoWith(c, "read", Record(c, "update", v, a))
    /\ UNCHANGED <<store, proposal, mishaps>>

UpdateAllowlist(c, a, v) ==
    /\ Starts(c)
    /\ MayChangeAlone
    /\ GoWith(c, IF current = NoRecord THEN "seed" ELSE "read", Record(c, "allowlist", v, a))
    /\ UNCHANGED <<store, proposal, mishaps>>

(* rollback_to_version: the newest record of the history with that version *)
(* is written again, comment and writer aside.                             *)
RollBack(c, v) ==
    /\ Starts(c)
    /\ MayChangeAlone
    /\ LET found == {i \in DOMAIN history : history[i].version = v}
       IN  IF found = {}
           THEN Go(c, "done")
           ELSE LET i == CHOOSE i \in found : \A j \in found : j <= i
                IN  GoWith(c, "read", [history[i] EXCEPT !.kind = "rollback", !.writer = c])
    /\ UNCHANGED <<store, proposal, mishaps>>

(* propose_policy_change: one MULTI, then the event. *)
Propose(c, a, p) ==
    /\ Starts(c)
    /\ proposal[p].status = "none"
    /\ proposal' = [proposal EXCEPT ![p] = [status |-> "PENDING", by |-> a, decider |-> None]]
    /\ Go(c, "event")
    /\ UNCHANGED <<store, mishaps>>

(* Mutant of Violates: the proposer may approve. *)
NeverViolates(proposer, approver) == FALSE

(* Every admin has a subject here, so the guard on an empty one is left out. *)
Violates(proposer, approver) == proposer = approver

Pending(p) == proposal[p].status = "PENDING"

Load(c, p, place, record, copy) ==
    job' = [job EXCEPT ![c] = [at |-> place, record |-> record, seen |-> NoRecord,
                               id |-> p, copy |-> copy]]

(* approve_policy_proposal: HGET and the checks on what it returned. *)
Approve(c, a, p, v) ==
    /\ Starts(c)
    /\ Pending(p)
    /\ ~Violates(proposal[p].by, a)
    /\ Load(c, p, "mark",
            [Record(c, "approved", v, proposal[p].by) EXCEPT !.approver = a, !.proposal = p],
            [proposal[p] EXCEPT !.status = "APPROVED", !.decider = a])
    /\ UNCHANGED <<store, proposal, mishaps>>

(* Mutant of Mark: the decision is not written back. *)
MarkNothing(c) ==
    /\ job[c].at = "mark"
    /\ Go(c, "read")
    /\ UNCHANGED <<store, proposal, mishaps>>

(* The proposal is marked in a MULTI of its own, before the policy is set. *)
Mark(c) ==
    /\ job[c].at = "mark"
    /\ proposal' = [proposal EXCEPT ![job[c].id] = job[c].copy]
    /\ Go(c, "read")
    /\ UNCHANGED <<store, mishaps>>

(* reject_policy_proposal: any admin, the proposer too. *)
LoadToReject(c, a, p) ==
    /\ Starts(c)
    /\ Pending(p)
    /\ Load(c, p, "reject", NoRecord, [proposal[p] EXCEPT !.status = "REJECTED", !.decider = a])
    /\ UNCHANGED <<store, proposal, mishaps>>

Reject(c) ==
    /\ job[c].at = "reject"
    /\ proposal' = [proposal EXCEPT ![job[c].id] = job[c].copy]
    /\ Go(c, "event")
    /\ UNCHANGED <<store, mishaps>>

(* set_policy: GET while the MULTI is being queued, not in it. *)
ReadCurrent(c) ==
    /\ job[c].at = "read"
    /\ job' = [job EXCEPT ![c].at = "exec", ![c].seen = current]
    /\ UNCHANGED <<store, proposal, mishaps>>

(* Mutant of Kept: the record that is replaced is not kept. *)
KeptNothing(c) == history

Kept(c) == IF job[c].seen = NoRecord THEN history ELSE Append(history, job[c].seen)

(* allowlist updates and rollbacks have no governance event. *)
HasEvent(c) == job[c].record.kind \in {"update", "approved"}

(* set_policy: EXEC of RPUSH and SET. *)
SetPolicy(c) ==
    /\ job[c].at = "exec"
    /\ history' = Kept(c)
    /\ current' = job[c].record
    /\ written' = Append(written, job[c].record)
    /\ stale' = (stale \/ job[c].seen # current)
    /\ Go(c, IF HasEvent(c) THEN "event" ELSE "done")
    /\ UNCHANGED <<twoPerson, proposal, mishaps>>

(* The governance event, best effort. *)
LogEvent(c) ==
    /\ job[c].at = "event"
    /\ Go(c, "done")
    /\ UNCHANGED <<store, proposal, mishaps>>

(* A Redis call raises or the process stops. *)
Fail(c) ==
    /\ job[c].at \notin {"new", "done", "failed"}
    /\ mishaps < MaxMishaps
    /\ mishaps' = mishaps + 1
    /\ Go(c, "failed")
    /\ UNCHANGED <<store, proposal>>

Next == \E c \in Calls :
    \/ GetOrSeed(c) \/ WriteSeed(c) \/ Mark(c) \/ Reject(c)
    \/ ReadCurrent(c) \/ SetPolicy(c) \/ LogEvent(c) \/ Fail(c)
    \/ \E v \in Versions : RollBack(c, v)
    \/ \E a \in Admins, v \in Versions : UpdatePolicy(c, a, v) \/ UpdateAllowlist(c, a, v)
    \/ \E a \in Admins, p \in Proposals :
          \/ Propose(c, a, p) \/ LoadToReject(c, a, p)
          \/ \E v \in Versions : Approve(c, a, p, v)

PolicySpec == Init /\ [][Next]_vars

----------------------------------------------------------------------------
Wrote(p) == \E i \in DOMAIN written : written[i].proposal = p
Deciders(p) == {c \in Calls : job[c].id = p}

(* Under the two-person rule nothing one admin asked for alone becomes the *)
(* policy, by any route: a record is the seed or was approved by another   *)
(* admin than the one that proposed it.                                    *)
NoLoneAdmin ==
    twoPerson =>
        \A i \in DOMAIN written :
            \/ written[i].kind = "seed"
            \/ written[i].kind = "approved" /\ written[i].by # written[i].approver

(* Unless two writers overlapped, the history and the current record tell  *)
(* every policy there has been, in order.                                  *)
HistoryIsChronicle ==
    ~stale => written = (IF current = NoRecord THEN history ELSE Append(history, current))

(* The status of a proposal and the policies written for it agree: none is *)
(* written before the decision, an approved one is written unless its      *)
(* approver failed on the way, and a rejected one is not unless two calls  *)
(* decided it.                                                             *)
ProposalsFollow ==
    \A p \in Proposals :
        /\ proposal[p].status \in {"none", "PENDING"} => ~Wrote(p)
        /\ proposal[p].status = "APPROVED" =>
               \/ Wrote(p)
               \/ \E c \in Deciders(p) : job[c].at \in {"read", "exec", "failed"}
        /\ proposal[p].status = "REJECTED" /\ Wrote(p) => Cardinality(Deciders(p)) > 1

(* What makes these inductive.  Every record that is or may become the     *)
(* policy, wherever it is kept, is a real one, and belongs to a proposal   *)
(* only if somebody approved that.                                         *)
Decisions == {"APPROVED", "REJECTED"}
Kinds == {"none", "seed", "update", "allowlist", "rollback", "approved"}
Places == {"new", "seed", "read", "exec", "mark", "reject", "event", "done", "failed"}

Records ==
    [writer : 0 .. MaxCalls, kind : Kinds, version : Versions \cup {None},
     by : Admins \cup {None}, approver : Admins \cup {None}, proposal : Proposals \cup {None}]

ProposalStates ==
    [status : {"none", "PENDING"} \cup Decisions,
     by : Admins \cup {None}, decider : Admins \cup {None}]

Jobs == [at : Places, record : Records, seen : Records,
         id : Proposals \cup {None}, copy : ProposalStates]

PolicyTypeOK ==
    /\ twoPerson \in BOOLEAN /\ stale \in BOOLEAN
    /\ current \in Records /\ history \in Seq(Records) /\ written \in Seq(Records)
    /\ proposal \in [Proposals -> ProposalStates]
    /\ job \in [Calls -> Jobs]

Decided(p, decision) == \E c \in Deciders(p) : job[c].copy.status = decision

(* The proposal of a record, if it has one, is decided, and approved once. *)
Backed(record) ==
    \A p \in Proposals : record.proposal = p =>
        proposal[p].status \in Decisions /\ Decided(p, "APPROVED")

Fine(record) ==
    \/ record.kind = "seed"
    \/ record.kind = "approved" /\ record.by # record.approver

InHand(c) == job[c].at \in {"seed", "mark", "read", "exec"}

RecordsBacked ==
    /\ Backed(current)
    /\ \A i \in DOMAIN history : Backed(history[i])
    /\ \A i \in DOMAIN written : Backed(written[i])

JobOK(c) ==
    /\ job[c].at = "new" => job[c] = NewJob
    /\ InHand(c) => job[c].record.kind # "none"
    /\ job[c].at = "seed" => job[c].record.proposal = None /\ job[c].id = None
    /\ job[c].at \in {"read", "exec"} => Backed(job[c].record)
    /\ job[c].at = "exec" => Backed(job[c].seen)
    /\ twoPerson /\ InHand(c) => Fine(job[c].record)
    /\ job[c].at = "mark" => job[c].id # None /\ job[c].copy.status = "APPROVED"
    /\ job[c].at = "reject" => job[c].id # None /\ job[c].copy.status = "REJECTED"
    /\ job[c].id # None => /\ proposal[job[c].id].status # "none"
                           /\ job[c].copy.status \in Decisions
    /\ job[c].id # None /\ job[c].at \in {"mark", "read", "exec"} =>
           job[c].record.proposal = job[c].id

RejectedByOne ==
    \A p \in Proposals : proposal[p].status = "REJECTED" => Decided(p, "REJECTED")

ApprovalsFollowed ==
    \A p \in Proposals : proposal[p].status = "APPROVED" =>
        Wrote(p) \/ \E c \in Deciders(p) : job[c].at \in {"read", "exec", "failed"}

PolicyInv ==
    /\ PolicyTypeOK
    /\ RecordsBacked /\ RejectedByOne /\ ApprovalsFollowed
    /\ \A c \in Calls : JobOK(c)
    /\ NoLoneAdmin /\ HistoryIsChronicle

============================================================================
