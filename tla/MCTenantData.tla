---------------------------- MODULE MCTenantData ----------------------------
(* The data of a session, in three instances that differ in who moves: the *)
(* writers with the retention loop, the writers with an erasure, or the    *)
(* ingests with two, and erasures with searches for their proofs.          *)
EXTENDS TenantData

VARIABLE focus

Init == TenantInit /\ focus \in {"retention", "data", "proof"}

Full == [session |-> TRUE, corpus |-> TRUE, dlp |-> TRUE, refs |-> {Text(s) : s \in Streams}, objects |-> "allowed"]
Bare == [session |-> TRUE, corpus |-> FALSE, dlp |-> FALSE, refs |-> {}, objects |-> "none"]
Late == [Bare EXCEPT !.objects = "refused"]

Retention ==
    /\ focus = "retention" /\ (TenantWrites \/ SweepSteps)
    /\ stream'[<<"stream", 2>>].at = "new" /\ ingest'[<<"ingest", 2>>].at = "new"
Data ==
    /\ focus = "data" /\ (TenantWrites \/ TenantErases)
    /\ expires \subseteq expires' /\ dataFaults' = 0 /\ stream'[<<"stream", 2>>].at = "new"
    /\ \A e \in Erasures : erasure'[e].ask \in {NewErasure.ask, Full}
    /\ erasure'[2].at = "new" \/ stream'[<<"stream", 1>>].at = "new"
Proof ==
    /\ focus = "proof" /\ (TenantErases \/ TenantSearches)
    /\ \A e \in Erasures : erasure'[e].ask # Full
    /\ erasure'[1].id # 2

Next == (Retention \/ Data \/ Proof) /\ UNCHANGED focus

Spec == Init /\ [][Next]_<<tenantVars, focus>> /\ WF_<<tenantVars, focus>>(
            focus = "retention" /\ SweepSteps /\ UNCHANGED focus)

CatchesUp == focus = "retention" => RetentionCatchesUp

AsksOf == {Full, Bare, Late}
=============================================================================
