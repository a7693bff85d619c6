----------------------------- MODULE MCServices -----------------------------
(* Five services that share no key and call no function of one another: the *)
(* shipping of the ledger, the incidents, the quotas, the threat feeds and *)
(* the proofs of inclusion.  Interleaving them adds states and nothing     *)
(* else, so a behaviour moves one of them, which is chosen at the start.   *)
EXTENDS LedgerShipping, Incidents, UsageQuotas, ThreatFeeds, InclusionProofs

VARIABLE focus

Init ==
    /\ focus \in {"shipping", "incidents", "quotas", "feeds", "proofs"}
    /\ ShipInit /\ IncInit /\ QuotaInit /\ FeedInit /\ BookInit
    /\ focus # "shipping" => loops = {}
    /\ focus # "quotas" => quotaPolicy = CHOOSE p \in QuotaPolicies : TRUE
    /\ focus # "proofs" => bookInterval = CHOOSE i \in Intervals : TRUE

ShippingMoves == focus = "shipping" /\ ShipNext
    /\ UNCHANGED <<focus, incVars, quotaVars, feedVars, bookVars>>
IncidentsMove == focus = "incidents" /\ IncNext
    /\ UNCHANGED <<focus, shipVars, quotaVars, feedVars, bookVars>>
QuotasMove    == focus = "quotas" /\ QuotaNext
    /\ UNCHANGED <<focus, shipVars, incVars, feedVars, bookVars>>
FeedsMove     == focus = "feeds" /\ FeedNext
    /\ UNCHANGED <<focus, shipVars, incVars, quotaVars, bookVars>>
BookMoves     == focus = "proofs" /\ BookNext
    /\ UNCHANGED <<focus, shipVars, incVars, quotaVars, feedVars>>

Next == ShippingMoves \/ IncidentsMove \/ QuotasMove \/ FeedsMove \/ BookMoves

Spec == Init /\ [][Next]_<<focus, shipVars, incVars, quotaVars, feedVars, bookVars>>

(* Instances.  A limit of each counter, one that is negative, one that is  *)
(* switched off; the second policy limits the day and not the requests.    *)
Baseline == [c \in Counters |->
    CASE c = "rpm" -> 2 [] c = "tpm" -> 3 [] c = "day" -> -1 [] c = "month" -> 4]
Policies == {[c \in Counters |-> Unset],
             [c \in Counters |-> CASE c = "rpm" -> 0 [] c = "day" -> 3 [] OTHER -> Unset]}
Alternating == <<1, 2, 1>>
Kinds == {[mode |-> "replace", op |-> "ingest"], [mode |-> "append", op |-> "stage"]}
Symmetric == Permutations(Versions)
=============================================================================
