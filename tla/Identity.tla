------------------------------- MODULE Identity -------------------------------
(***************************************************************************)
(* Who a request comes from: tokens are verified with the signing keys the *)
(* identity provider publishes, which each server process caches (JwksCache *)
(* and IdpVerifier of chimera/auth_identity.py), and roles decide what an  *)
(* identity may ask for (AuthorizationEngine).  get_jwks runs in a thread  *)
(* of its own for every request and takes no lock: fetches overlap, and an *)
(* older answer may be stored over a newer one.                            *)
(***************************************************************************)
EXTENDS Naturals, FiniteSets

CONSTANTS
    SigningKeys,   \* keys of the identity provider, by their kid
    Tokens,        \* what a request may carry: [kid, genuine, tenant, header, role, asks]
    NoTenant,      \* a token without the tenant claim, a request without the header
    Ttl,           \* JWKS_CACHE_TTL_SECONDS
    CallTime,      \* longest a request takes to be verified
    MaxRequests,   \* bound of the model
    MaxIdpTime,    \* bound of the model: ticks of the clock
    MaxRotation    \* bound of the model: time of the last rotation

ASSUME IdentityAssumption ==
    /\ Ttl \in Nat \ {0} /\ CallTime \in Nat \ {0}
    /\ MaxRequests \in Nat /\ MaxIdpTime \in Nat /\ MaxRotation \in Nat
    /\ SigningKeys # {}
    /\ \A t \in Tokens : t.kid \in SigningKeys /\ t.genuine \in BOOLEAN

Requests == 1 .. MaxRequests   \* in the order they arrive

VARIABLES
    published,   \* the keys the identity provider publishes
    jwks,        \* _jwks of the cache: the key sets it holds, none or one
    loadedAt,    \* _loaded_at: the times it holds, none or one
    request,     \* each request: [at, token, keys, since, status]
    idpNow,      \* the time
    gone,        \* the keys withdrawn; no key comes back
    shown,       \* since when each key has been published
    withdrawn    \* until when each key was published

idpVars == <<published, jwks, loadedAt, request, idpNow, gone, shown, withdrawn>>

NewRequest == [at |-> "new", token |-> CHOOSE t \in Tokens : TRUE, keys |-> {}, since |-> 0, status |-> 0]
Reply(status) == [NewRequest EXCEPT !.at = "done", !.status = status]

IdpInit ==
    /\ published = {CHOOSE k \in SigningKeys : TRUE} /\ gone = {}
    /\ request = [q \in Requests |-> NewRequest]
    /\ jwks = {} /\ loadedAt = {}
    /\ idpNow = 0
    /\ shown = [k \in SigningKeys |-> 0] /\ withdrawn = [k \in SigningKeys |-> 0]

CacheVars == <<jwks, loadedAt>>
KeyVars   == <<published, gone, shown, withdrawn>>

(* The identity provider rotates its keys.                                 *)
Publish(k) ==
    /\ idpNow <= MaxRotation /\ k \notin published \cup gone
    /\ published' = published \cup {k}
    /\ shown' = [shown EXCEPT ![k] = idpNow]
    /\ UNCHANGED <<CacheVars, request, idpNow, gone, withdrawn>>
Withdraw(k) ==
    /\ idpNow <= MaxRotation /\ k \in published /\ published # {k}
    /\ published' = published \ {k} /\ gone' = gone \cup {k}
    /\ withdrawn' = [withdrawn EXCEPT ![k] = idpNow]
    /\ UNCHANGED <<CacheVars, request, idpNow, shown>>

-----------------------------------------------------------------------------
(* Mutant of KeysFresh: what was loaded once stays. *)
NeverStale == jwks # {} /\ loadedAt # {}

KeysFresh == jwks # {} /\ \E t \in loadedAt : idpNow - t < Ttl

(* verify, up to the look at the cache.                                    *)
Arrive(q, token) ==
    /\ request[q].at = "new" /\ \A o \in 1 .. q - 1 : request[o].at # "new"
    /\ request' = [request EXCEPT ![q] =
         [NewRequest EXCEPT !.token = token, !.at = IF KeysFresh THEN "use" ELSE "get", !.since = idpNow]]
    /\ UNCHANGED <<KeyVars, CacheVars, idpNow>>

(* GET /.well-known/jwks.json; an error is not a JWTError and ends the     *)
(* request with status 500.                                                *)
Fetch(q) ==
    /\ request[q].at = "get"
    /\ request' = [request EXCEPT ![q].at = "store", ![q].keys = published]
    /\ UNCHANGED <<KeyVars, CacheVars, idpNow>>
FetchFails(q) ==
    /\ request[q].at = "get"
    /\ request' = [request EXCEPT ![q] = Reply(500)]
    /\ UNCHANGED <<KeyVars, CacheVars, idpNow>>

(* The two assignments of _get_jwks_sync.                                  *)
StoreKeys(q) ==
    /\ request[q].at = "store"
    /\ jwks' = {request[q].keys}
    /\ request' = [request EXCEPT ![q].at = "stamp"]
    /\ UNCHANGED <<KeyVars, loadedAt, idpNow>>
StoreTime(q) ==
    /\ request[q].at = "stamp"
    /\ loadedAt' = {idpNow}
    /\ request' = [request EXCEPT ![q].at = "use"]
    /\ UNCHANGED <<KeyVars, jwks, idpNow>>

(* AuthorizationEngine: what the roles allow.                              *)
AdminRoles == {"admin", "security-admin", "ciso"}
AuditRoles == AdminRoles \cup {"auditor", "security-auditor", "compliance-auditor"}
Allowed(role, asks) ==
    CASE asks = "high-risk model" -> role \in {"admin", "power-user"}
      [] asks = "administration"  -> role \in AdminRoles
      [] asks = "audit"           -> role \in AuditRoles
      [] OTHER                    -> TRUE

(* The key of the token among those of the cache, then the token, its      *)
(* tenant and the roles.                                                   *)
Status(token, keys) ==
    IF token.kid \notin keys \/ ~token.genuine THEN 401
    ELSE IF token.tenant = NoTenant \/ token.header \notin {NoTenant, token.tenant} THEN 403
    ELSE IF ~Allowed(token.role, token.asks) THEN 403
    ELSE 200

(* The keys are those the cache holds now, not those this thread fetched.  *)
Verify(q) ==
    /\ request[q].at = "use"
    /\ request' = [request EXCEPT ![q] = Reply(Status(request[q].token, UNION jwks))]
    /\ UNCHANGED <<KeyVars, CacheVars, idpNow>>

(* No request under way is older than CallTime.                            *)
IdpTick ==
    /\ idpNow < MaxIdpTime
    /\ \A q \in Requests : request[q].at \in {"new", "done"} \/ idpNow - request[q].since < CallTime
    /\ idpNow' = idpNow + 1
    /\ UNCHANGED <<KeyVars, CacheVars, request>>

IdpNext ==
    \/ \E k \in SigningKeys : Publish(k) \/ Withdraw(k)
    \/ \E q \in Requests : \/ \E t \in Tokens : Arrive(q, t)
                           \/ Fetch(q) \/ FetchFails(q) \/ StoreKeys(q) \/ StoreTime(q) \/ Verify(q)
    \/ IdpTick

IdpSpec == IdpInit /\ [][IdpNext]_idpVars

-----------------------------------------------------------------------------
RequestStates ==
    [at : {"new", "get", "store", "stamp", "use", "done"},
     token : Tokens \cup {NewRequest.token}, keys : SUBSET SigningKeys,
     since : Nat, status : {0, 200, 401, 403, 500}]

(* Of the keys, each is published or was until t, and none is missing that *)
(* was published before t: they are as they were at t or later.            *)
AsOf(keys, t) ==
    /\ \A k \in keys : k \in published \/ (k \in gone /\ withdrawn[k] >= t)
    /\ \A k \in published \ keys : shown[k] >= t

Cached == UNION jwks

(* How old the keys can be that a request holds and that the cache holds.  *)
(* Between a look at the time and the keys it vouches for come at most two *)
(* requests: one that stores its keys late, and one that stamps them.      *)
Aged(r) ==
    /\ r.at \notin {"new", "done"} =>
          r.token \in Tokens /\ r.since <= idpNow /\ idpNow - r.since <= CallTime
    /\ r.at = "store" => AsOf(r.keys, r.since)
    /\ r.at = "stamp" => AsOf(Cached, r.since - CallTime)
    /\ r.at = "use"   => AsOf(Cached, r.since - Ttl - 2 * CallTime + 1)

IdpInv ==
    /\ request \in [Requests -> RequestStates]
    /\ published \subseteq SigningKeys /\ jwks \in SUBSET SUBSET SigningKeys
    /\ loadedAt \subseteq 0 .. idpNow /\ idpNow \in Nat
    /\ shown \in [SigningKeys -> Nat] /\ withdrawn \in [SigningKeys -> Nat]
    /\ published \cap gone = {}
    /\ \A t \in loadedAt : AsOf(Cached, t - 2 * CallTime)
    /\ \A q \in Requests : Aged(request[q])

-----------------------------------------------------------------------------
(* A rotation of keys takes effect in a bounded time, whatever order the   *)
(* answers of overlapping fetches are stored in: a request that is let     *)
(* through was signed with a key published when it was verified or less    *)
(* than Lag before, and a genuine token is not refused for its key when    *)
(* the key has been published for Lag.  Lag is the age of the cache and    *)
(* three requests long: one that fetched the keys before the rotation, one *)
(* that stored the time for it, and one that found it fresh.               *)
Lag == Ttl + 3 * CallTime
RotationsReach ==
    \A q \in Requests :
        LET token == request[q].token k == token.kid
        IN  request[q].at = "use" /\ request'[q].at = "done" =>
              /\ request'[q].status = 200 =>
                   token.genuine /\ (k \in published \/ (k \in gone /\ idpNow - withdrawn[k] < Lag))
              /\ request'[q].status = 401 /\ token.genuine =>
                   k \notin published \/ idpNow - shown[k] < Lag
RotationsTakeEffect == [][RotationsReach]_idpVars
=============================================================================
