---------------------------- MODULE TenantAccess ----------------------------
(***************************************************************************)
(* What the control-plane API keeps in the registry for one Telegram user  *)
(* (api/routes_auth.py, routes_config.py, routes_exchange.py, deps.py,     *)
(* security.py and the repositories they call): the tenant row with its    *)
(* token version, the config row and the credential row.  Handlers look a  *)
(* row up, await, and insert it when it was missing; requests of the same  *)
(* user overlap.  A token is represented by its "ver" claim: its signature *)
(* and its 24 hours of life are checked by the JWT library.                *)
(***************************************************************************)
EXTENDS Naturals

CONSTANTS
  Slots,        \* requests that can be in progress at the same time
  MaxVersion    \* bound on token_version

ASSUME AccessAssumption == MaxVersion \in Nat \ {0}

VARIABLES
  aTenants,   \* number of tenant rows of the user
  aConfigs,   \* number of config rows of the tenant
  aCreds,     \* number of credential rows of the tenant
  aVersion,   \* tenants.token_version
  aConf,      \* the config row: strategy_mode and leverage
  aReq,       \* each request: the point it is suspended at and what it carries
  aTokens,    \* versions of the tokens issued so far
  aDead,      \* history: versions that a revocation has written off
  aSerial     \* history: no two revocations have overlapped

aVars == <<aTenants, aConfigs, aCreds, aVersion, aConf, aReq, aTokens, aDead, aSerial>>
aRows == <<aTenants, aConfigs, aCreds>>
aAuth == <<aVersion, aTokens, aDead, aSerial>>

Modes == {"trend", "scalp"}
ScalpCap == 10
Leverages == {ScalpCap, ScalpCap + 15}
Bodies == [mode : Modes, leverage : Leverages]
Linear == [mode |-> "trend", leverage |-> 10]      \* the default row

Quiet == [at |-> "idle", ver |-> 0, body |-> Linear]

AccessInit ==
  /\ aTenants = 0 /\ aConfigs = 0 /\ aCreds = 0
  /\ aVersion = 1 /\ aConf = Linear
  /\ aReq = [r \in Slots |-> Quiet]
  /\ aTokens = {} /\ aDead = {}
  /\ aSerial = TRUE

-----------------------------------------------------------------------------
Suspend(r, point) == aReq' = [aReq EXCEPT ![r].at = point]
\* A request that has read the tenant row and carries its version.
Carrying(point) == [at |-> point, ver |-> aVersion, body |-> Linear]
Answer(r) == aReq' = [aReq EXCEPT ![r] = Quiet]

\* UNIQUE columns of tenants and tenant_config, a unique index of the credentials: a
\* second insert raises, and the request answers with an error.
Insertable(rows) == rows = 0

-----------------------------------------------------------------------------
(* POST /v1/auth/telegram *)

\* verify_telegram_login, get_by_telegram_user; a new user needs an invite code.
TelegramLogin(r) ==
  /\ aReq[r].at = "idle"
  /\ aReq' = [aReq EXCEPT ![r] = Carrying(IF aTenants > 0 THEN "issue" ELSE "tenant")]
  /\ UNCHANGED <<aRows, aConf, aAuth>>

\* create_tenant: insert, then read the row back.
CreateTenant(r) ==
  /\ aReq[r].at = "tenant"
  /\ IF Insertable(aTenants)
       THEN aTenants' = aTenants + 1 /\ Suspend(r, "created")
       ELSE Answer(r) /\ UNCHANGED aTenants
  /\ UNCHANGED <<aConfigs, aCreds, aConf, aAuth>>
ReadCreated(r) ==
  /\ aReq[r].at = "created"
  /\ aReq' = [aReq EXCEPT ![r] = Carrying("login_config")]
  /\ UNCHANGED <<aRows, aConf, aAuth>>

IssueToken(r) ==
  /\ aReq[r].at = "issue"
  /\ aTokens' = aTokens \cup {aReq[r].ver}
  /\ Answer(r)
  /\ UNCHANGED <<aRows, aConf, aVersion, aDead, aSerial>>

-----------------------------------------------------------------------------
(* current_tenant and the handlers behind it *)

\* Mutant: the check is one version behind.
AcceptedLate(ver) == ver + 1 >= aVersion
Accepted(ver) == ver >= aVersion

\* A request with an accepted token goes on with the tenant row it read.
Authenticated(r, point) ==
  /\ aReq[r].at = "idle"
  /\ \E ver \in aTokens : Accepted(ver)
  /\ aReq' = [aReq EXCEPT ![r] = Carrying(point)]
  /\ UNCHANGED <<aRows, aConf, aVersion, aTokens, aDead>>

Revoking == {r \in Slots : aReq[r].at = "revoke"}

RevokeTokens(r) ==
  /\ aVersion < MaxVersion
  /\ Authenticated(r, "revoke")
  /\ aSerial' = (aSerial /\ Revoking = {})

\* update_token_version writes the version that was read plus one, or fails;
\* the handler answers "all tokens revoked" in both cases.
UpdateTokenVersion(r) ==
  /\ aReq[r].at = "revoke"
  /\ \/ /\ aVersion' = aReq[r].ver + 1
        /\ aDead' = aDead \cup 1 .. aReq[r].ver
     \/ UNCHANGED <<aVersion, aDead>>
  /\ Answer(r)
  /\ UNCHANGED <<aRows, aConf, aTokens, aSerial>>

\* PUT /v1/config: the body is checked, and stored whole by UpdateConfig.
Allowed(body) == ~(body.mode = "scalp" /\ body.leverage > ScalpCap)

PutConfig(r, body) ==
  /\ aReq[r].at = "idle"
  /\ \E ver \in aTokens : Accepted(ver)
  /\ Allowed(body)
  /\ aReq' = [aReq EXCEPT ![r] = [at |-> "put_config", ver |-> aVersion, body |-> body]]
  /\ UNCHANGED <<aRows, aConf, aAuth>>

\* GET /v1/config and GET /v1/status.
GetConfig(r) == Authenticated(r, "get_config") /\ UNCHANGED aSerial

\* get_or_default: look up, insert the default row when there is none.
Caller == [p \in {"login_config", "put_config", "get_config"} |->
             CASE p = "login_config" -> "issue"
               [] p = "put_config" -> "update"
               [] p = "get_config" -> "reply"]
Missing == [p \in DOMAIN Caller |-> CASE p = "login_config" -> "login_default"
                                      [] p = "put_config" -> "put_default"
                                      [] p = "get_config" -> "get_default"]
GetOrDefault(r) ==
  /\ aReq[r].at \in DOMAIN Caller
  /\ Suspend(r, IF aConfigs > 0 THEN Caller[aReq[r].at] ELSE Missing[aReq[r].at])
  /\ UNCHANGED <<aRows, aConf, aAuth>>
CreateDefault(r) ==
  /\ \E p \in DOMAIN Missing :
       /\ aReq[r].at = Missing[p]
       /\ IF Insertable(aConfigs)
            THEN aConfigs' = aConfigs + 1 /\ aConf' = Linear /\ Suspend(r, Caller[p])
            ELSE Answer(r) /\ UNCHANGED <<aConfigs, aConf>>
  /\ UNCHANGED <<aTenants, aCreds, aAuth>>
UpdateConfig(r) ==
  /\ aReq[r].at = "update"
  /\ aConf' = aReq[r].body
  /\ Answer(r)
  /\ UNCHANGED <<aRows, aAuth>>
Reply(r) == aReq[r].at = "reply" /\ Answer(r) /\ UNCHANGED <<aRows, aConf, aAuth>>

-----------------------------------------------------------------------------
(* upsert_encrypted of a connect request; delete of a disconnect request *)

UpsertEncrypted(r) ==
  /\ Authenticated(r, IF aCreds > 0 THEN "replace" ELSE "add")
  /\ UNCHANGED aSerial
AddCredentials(r) ==
  /\ aReq[r].at = "add"
  /\ aCreds' = IF Insertable(aCreds) THEN aCreds + 1 ELSE aCreds
  /\ Answer(r)
  /\ UNCHANGED <<aTenants, aConfigs, aConf, aAuth>>
\* The row may have been deleted since: the update then changes nothing and the
\* assertion behind it fails the request.
ReplaceCredentials(r) ==
  /\ aReq[r].at = "replace"
  /\ Answer(r)
  /\ UNCHANGED <<aRows, aConf, aAuth>>
DeleteCredentials(r) ==
  /\ aCreds > 0
  /\ Authenticated(r, "delete")
  /\ UNCHANGED aSerial
Deleted(r) ==
  /\ aReq[r].at = "delete"
  /\ aCreds' = 0
  /\ Answer(r)
  /\ UNCHANGED <<aTenants, aConfigs, aConf, aAuth>>

AccessNext ==
  \E r \in Slots :
    \/ TelegramLogin(r) \/ CreateTenant(r) \/ ReadCreated(r) \/ IssueToken(r)
    \/ RevokeTokens(r) \/ UpdateTokenVersion(r)
    \/ \E body \in Bodies : PutConfig(r, body)
    \/ GetConfig(r) \/ GetOrDefault(r) \/ CreateDefault(r) \/ UpdateConfig(r) \/ Reply(r)
    \/ UpsertEncrypted(r) \/ AddCredentials(r) \/ ReplaceCredentials(r)
    \/ DeleteCredentials(r) \/ Deleted(r)

AccessSpec == AccessInit /\ [][AccessNext]_aVars

-----------------------------------------------------------------------------
(* Properties *)

\* However the check-then-insert handlers overlap, a user has one tenant, and a
\* tenant one config and one credential row (get_by_telegram_user, get_by_tenant
\* and get_active take the first row they find).
OneRowEach == aTenants <= 1 /\ aConfigs <= 1 /\ aCreds <= 1

\* POST /v1/auth/revoke: "Any JWT issued with an older ver claim is rejected".  A
\* token is refused exactly when a revocation has written its version off, also
\* one whose login overlapped the revocation, as long as revocations do not
\* overlap each other (then the version can go down again).
RevocationExact ==
  aSerial => \A ver \in aTokens : Accepted(ver) <=> ver \notin aDead

\* routes_config.py: "scalp mode caps leverage at 10x".  Whatever order updates
\* and first uses of the config come in, the stored row keeps the cap.
ScalpLeverageCapped == aConf.mode = "scalp" => aConf.leverage <= ScalpCap

\* What the registry rows behind the API keep up, together.
AccessSound == OneRowEach /\ RevocationExact /\ ScalpLeverageCapped
=============================================================================
