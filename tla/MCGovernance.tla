---------------------------- MODULE MCGovernance ----------------------------
(* Three parts of governance, the policy of a tenant, the desired           *)
(* configuration and the control of the signing key, for which any desired  *)
(* key may be approved at any time; and the verification of the tokens that *)
(* administrators and users come with.  They share no key but that one, so  *)
(* a behaviour moves one of them, chosen at the start.                      *)
EXTENDS PolicyGovernance, EnvConfigGovernance, KeyControl, Identity, TLC

VARIABLE focus

GovInit ==
    /\ focus \in {"policy", "config", "key", "identity"}
    /\ Init /\ EnvInit /\ KeyInit /\ IdpInit
    /\ focus # "policy" => ~twoPerson
    /\ focus # "key" => mode = CHOOSE m \in KeyModes : TRUE

PolicyMoves   == focus = "policy" /\ Next /\ UNCHANGED <<focus, envVars, keyVars, idpVars>>
ConfigMoves   == focus = "config" /\ EnvNext /\ UNCHANGED <<focus, vars, keyVars, idpVars>>
KeyMoves      == focus = "key" /\ KeyNext /\ UNCHANGED <<focus, vars, envVars, idpVars>>
IdentityMoves == focus = "identity" /\ IdpNext /\ UNCHANGED <<focus, vars, envVars, keyVars>>

GovNext == PolicyMoves \/ ConfigMoves \/ KeyMoves \/ IdentityMoves

GovSpec == GovInit /\ [][GovNext]_<<focus, vars, envVars, keyVars, idpVars>>

(* Dual control in PROD with the gate, in FIPS mode with the gate, and in   *)
(* PROD without a key; and PROD without dual control, with and without one. *)
Mode(on) == [f \in {"dual", "fips", "prod", "healthCheck", "gate", "keyId"} |-> f \in on]
Modes == {Mode({"dual", "prod", "healthCheck", "gate", "keyId"}),
          Mode({"dual", "fips", "gate", "keyId"}),
          Mode({"dual", "prod", "healthCheck"}),
          Mode({"prod", "healthCheck", "gate", "keyId"}),
          Mode({"prod", "healthCheck"})}

OldKeyAdmin == [kid |-> 1, genuine |-> TRUE, tenant |-> 1, header |-> 1,
                role |-> "admin", asks |-> "administration"]
NewKeyUser  == [kid |-> 2, genuine |-> TRUE, tenant |-> 1, header |-> NoTenant,
                role |-> "user", asks |-> "model"]
MCTokens == {OldKeyAdmin, NewKeyUser}

Symmetric == Permutations(Admins) \cup Permutations(Versions)
=============================================================================
