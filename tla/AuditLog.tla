------------------------------ MODULE AuditLog ------------------------------
(***************************************************************************)
(* What the audit ledger promises: a log that only grows, chains every     *)
(* entry to the one before it, appends a request again only when no answer *)
(* to its last append arrived, and whose only other change is that a       *)
(* pending entry somebody was told of is settled, once.                    *)
(***************************************************************************)
EXTENDS LedgerTypes

VARIABLES
    log,        \* entries [req, try, prev, hash, status]
    unanswered  \* positions whose append nobody was told of

Init == log = <<>> /\ unanswered = {}

AppendEntry ==
    LET n == Len(log) + 1 IN
    /\ Len(log') = n
    /\ \A i \in DOMAIN log :
         /\ log'[i] = log[i]
         /\ Id(log[i]) # Id(log'[n])
         /\ log[i].req = log'[n].req => i \in unanswered
    /\ log'[n].status = Pending
    /\ LinkOK(log', n)
    /\ unanswered' \in {unanswered, unanswered \cup {n}}

Settle(i, status) ==
    /\ log[i].status = Pending /\ i \notin unanswered
    /\ log' = [log EXCEPT ![i] = [@ EXCEPT !.status = status]]
    /\ UNCHANGED unanswered

Next ==
    \/ AppendEntry
    \/ \E i \in DOMAIN log, status \in {Signed, Failed} : Settle(i, status)

Spec == Init /\ [][Next]_<<log, unanswered>>
=============================================================================
