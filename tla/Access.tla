------------------------------- MODULE Access -------------------------------
(***************************************************************************)
(* The way of a request through the guards of the HTTP layer: the limit of *)
(* its address, its credentials, the limit of its principal, the roles of  *)
(* its route.  Each guard awaits, and accounts, roles and keys change      *)
(* meanwhile, by requests that take the same way.                          *)
(***************************************************************************)
EXTENDS Naturals, FiniteSets, TLC

CONSTANTS
    Ask,         \* requests 1..n, in the order in which they come
    User,
    Key,         \* API keys
    FirstRole,   \* role of every user and key at the beginning
    Tried,       \* the routes the requests ask for
    Given,       \* roles that updateUser gives
    Lifetime,    \* of a JWT
    MaxTokens,   \* bound on the JWTs that are issued
    LastHour     \* bound on the clock

ASSUME AccessAssumption == Lifetime \in Nat

Role == {"admin", "data_steward", "marketer", "csr", "analyst", "compliance",
         "executive", "connector", "loyalty_manager", "loyalty_ops"}

(* The routes of a controller with the roles of their decorators.          *)
Opens(controller, ops, roles) == [r \in {controller} \X ops |-> roles]

LoyaltyRoutes ==
    Opens("loyalty", {"balance", "wallets", "members", "ledger", "GET earn-rules",
                      "earn-rules/audit", "tier-groups", "tiers"},
          {"csr", "analyst", "loyalty_ops", "loyalty_manager"}) @@
    Opens("loyalty", {"earn", "reserve", "capture", "release", "convert", "transfer",
                      "tiers/recompute"}, {"csr", "loyalty_ops"}) @@
    Opens("loyalty", {"adjust", "earn-rules"}, {"data_steward", "loyalty_manager"}) @@
    Opens("loyalty", {"earn-run", "tiers/recompute-all"}, {"admin", "loyalty_manager"})

RewardRoutes ==
    Opens("loyalty", {"rewards", "vouchers", "challenges", "challenges/progress",
                      "stored-value/balance"},
          {"csr", "analyst", "loyalty_ops", "loyalty_manager"}) @@
    Opens("loyalty", {"rewards/redeem", "vouchers/use", "referral/create", "referral/join",
                      "cards/issue", "cards/resolve", "cards/block", "stored-value/topup",
                      "stored-value/pay"}, {"csr", "loyalty_ops"}) @@
    Opens("loyalty", {"liability", "settlement"}, {"analyst", "loyalty_manager"}) @@
    Opens("loyalty", {"liability/snapshot", "liability/point-price"}, {"admin", "loyalty_manager"})

MasterRoutes ==
    Opens("masters", {"GET brands", "brands/detail", "GET stores", "GET products"},
          {"data_steward", "marketer", "csr", "analyst", "executive"}) @@
    Opens("masters", {"POST stores", "PUT stores", "DELETE stores", "POST products",
                      "PUT products", "DELETE products", "POST brands", "PUT brands",
                      "DELETE brands", "POST categories", "POST sku-mappings"}, {"data_steward"})

ConnectorRoutes ==
    Opens("connector", {"catalog", "POST connectors", "DELETE connectors", "GET connections",
                        "POST connections", "connections/status", "DELETE connections",
                        "connections/test", "connections/pull", "connections/test-send",
                        "connections/inbound-token", "connections/events",
                        "connections/deliveries", "connections/data-summary"}, {"data_steward"})

PipelineRoutes ==
    Opens("connector", {"apply-template", "GET pipelines", "GET pipeline", "POST pipelines",
                        "PUT pipelines", "pipelines/status", "DELETE pipelines"}, {"data_steward"})

JourneyRoutes ==
    Opens("journeys", {"GET", "POST", "GET one", "PUT", "publish", "activate", "pause", "archive",
                       "enroll", "participants", "history", "retry", "force-exit", "run"},
          {"marketer"}) @@
    Opens("journeys", {"tick"}, {"admin", "marketer"}) @@
    Opens("journeys", {"report"}, {"executive", "analyst", "marketer"})

AnalyticsRoutes ==
    Opens("analytics", {"overview", "revenue-by-brand", "forecast", "insights", "anomalies",
                        "alerts", "series", "alerts/ack", "narrative", "rfm", "cohorts",
                        "attribution", "funnel"}, {"executive", "analyst", "marketer"})

CustomerRoutes ==
    Opens("customers", {"list", "lookup", "by-id", "by-id/analytics", "by-id/transactions"},
          {"csr", "analyst", "marketer", "data_steward"})

AssistantRoutes ==
    Opens("assistant", {"ask", "segment", "content", "explain", "query", "copilot"},
          {"marketer", "analyst"})

AiRoutes == Opens("ai", {"recommendations", "recommendations/v2", "nba"}, {"marketer", "analyst"})
AiConfigRoutes == Opens("ai/config", {"GET", "POST", "audit", "usage"}, {"admin"})

DecisioningRoutes ==
    Opens("decisioning", {"GET offers", "POST offers", "DELETE offers", "arbitrate",
                          "GET experiments", "POST experiments", "assign", "uplift"},
          {"marketer", "analyst"})

PredictionRoutes ==
    Opens("predictions", {"customers", "customer", "model-cards", "distribution", "health"},
          {"marketer", "analyst", "executive", "data_steward"}) @@
    Opens("predictions", {"recompute"}, {"admin", "data_steward"})

McpRoutes ==
    Opens("mcp", {"manifest", "invoke"}, {"connector", "data_steward", "analyst", "marketer"})

ConsentRoutes ==
    Opens("consent", {"list", "check", "history"}, {"compliance", "csr", "marketer", "analyst"}) @@
    Opens("consent", {"record"}, {"compliance", "csr"}) @@
    Opens("consent", {"chain/verify"}, {"compliance", "data_steward"})

ActivationRoutes ==
    Opens("activation", {"POST", "list", "run", "members", "deliver"}, {"marketer"})

SegmentRoutes ==
    Opens("segments", {"preview", "lookalike", "suggestions"}, {"marketer", "analyst"})

FeatureRoutes ==
    Opens("features", {"GET"}, {"csr", "analyst", "marketer", "data_steward"}) @@
    Opens("features", {"recompute"}, {"admin", "data_steward"})

RtRoutes ==
    Opens("rt", {"profile", "status"}, {"marketer", "analyst", "data_steward"}) @@
    Opens("rt", {"reco"}, {"marketer", "analyst", "data_steward", "connector"}) @@
    Opens("rt", {"warm"}, {"data_steward", "marketer"})

IngestRoutes == Opens("ingest", {"POST"}, {"connector"})

AuthRoutes ==
    Opens("auth", {"reset-link"}, {"data_steward", "admin"}) @@
    Opens("auth", {"POST users", "GET users", "users/status", "PUT users", "DELETE users",
                   "GET api-keys", "POST api-keys", "api-keys/revoke", "DELETE api-keys"},
          {"admin"})

(* Routes with @Public: no credentials, no roles.                          *)
PublicRoutes ==
    Opens("auth", {"login", "password-reset/request", "password-reset/confirm"}, {}) @@
    Opens("connectors", {"sources/events", "track", "POST payment", "GET payment"}, {}) @@
    Opens("health", {"GET"}, {})

Required ==
    LoyaltyRoutes @@ RewardRoutes @@ MasterRoutes @@ ConnectorRoutes @@ PipelineRoutes @@
    JourneyRoutes @@ AnalyticsRoutes @@ CustomerRoutes @@ AssistantRoutes @@ AiRoutes @@
    AiConfigRoutes @@ DecisioningRoutes @@ PredictionRoutes @@ McpRoutes @@ ConsentRoutes @@
    ActivationRoutes @@ SegmentRoutes @@ FeatureRoutes @@ RtRoutes @@ IngestRoutes @@
    AuthRoutes @@ PublicRoutes

-----------------------------------------------------------------------------

VARIABLES
    accounts,  \* app_user: [role, status]; deleted: status "gone"
    keys,      \* api_key: [role, status]
    tokens,    \* JWTs that were issued: [sub, role, until]
    asks,      \* requests: [at, route, cred, role]
    entitled,  \* requests whose principal was allowed at some moment so far
    hour

accessVars == <<accounts, keys, tokens, asks, entitled, hour>>

Nothing == <<>>
Credential(sub, role, until) == [sub |-> sub, role |-> role, until |-> until]
NoCredential == Credential("nobody", "none", 0)
Unasked == [at |-> "new", route |-> Nothing, cred |-> NoCredential, role |-> "none"]

AccessInit ==
    /\ accounts = [u \in User |-> [role |-> FirstRole[u], status |-> "active"]]
    /\ keys = [k \in Key |-> [role |-> FirstRole[k], status |-> "active"]]
    /\ tokens = {}
    /\ asks = [q \in Ask |-> Unasked]
    /\ entitled = {}
    /\ hour = 0

IsToken(cred) == cred.sub \in User
Alive(token) == hour < token.until

(* RolesGuard: admin passes every route that declares roles.               *)
Opened(route, role) == role = "admin" \/ role \in Required[route]

(* What a credential is worth in a state of the tables.                    *)
Worth(cred, accs, ks) ==
    IF IsToken(cred)
    THEN IF Alive(cred) /\ accs[cred.sub].status = "active" THEN {accs[cred.sub].role} ELSE {}
    ELSE IF ks[cred.sub].status = "active" THEN {ks[cred.sub].role} ELSE {}

StillEntitled(accs, ks) ==
    entitled \cup
    {q \in Ask : /\ asks[q].at \in {"limited", "known", "spared"}
                 /\ \E role \in Worth(asks[q].cred, accs, ks) : Opened(asks[q].route, role)}

Goes(q, at) == asks' = [asks EXCEPT ![q].at = at]

(* An answered request is forgotten, but for whether it was handled.       *)
Ends(q, at) == asks' = [asks EXCEPT ![q] = [Unasked EXCEPT !.at = at]]

(* login, of an active user with the right password.                       *)
Login(u) ==
    /\ accounts[u].status = "active" /\ Cardinality(tokens) < MaxTokens
    /\ tokens' = tokens \cup {Credential(u, accounts[u].role, hour + Lifetime)}
    /\ UNCHANGED <<accounts, keys, asks, entitled, hour>>

(* A request comes in and passes the limit of its address.                 *)
Come(q, route, cred) ==
    /\ asks[q] = Unasked /\ \A p \in Ask : p < q => asks[p] # Unasked
    /\ asks' = [asks EXCEPT ![q] =
                  [at |-> "limited", route |-> route, cred |-> cred, role |-> "none"]]
    /\ entitled' = IF \E role \in Worth(cred, accounts, keys) : Opened(route, role)
                   THEN entitled \cup {q} ELSE entitled
    /\ UNCHANGED <<accounts, keys, tokens, hour>>

(* Mutant: the role the token was issued with.                             *)
AuthenticateByToken(q) ==
    /\ asks[q].at = "limited"
    /\ LET cred == asks[q].cred
           worth == IF IsToken(cred) THEN IF Alive(cred) THEN {cred.role} ELSE {}
                    ELSE Worth(cred, accounts, keys)
       IN  \/ worth = {} /\ Ends(q, "refused")
           \/ \E r \in worth :
                asks' = [asks EXCEPT ![q].at = "known", ![q].role = r]
    /\ UNCHANGED <<accounts, keys, tokens, entitled, hour>>

(* AuthGuard: a JWT that verifies leads to the account as it is now, any   *)
(* other token to an active key.                                           *)
Authenticate(q) ==
    /\ asks[q].at = "limited"
    /\ LET worth == Worth(asks[q].cred, accounts, keys)
       IN  \/ worth = {} /\ Ends(q, "refused")
           \/ \E r \in worth :
                asks' = [asks EXCEPT ![q].at = "known", ![q].role = r]
    /\ UNCHANGED <<accounts, keys, tokens, entitled, hour>>

(* RateLimitGuard lets the principal through or answers 429.               *)
LimitPrincipal(q) ==
    /\ asks[q].at = "known"
    /\ Goes(q, "spared") \/ Ends(q, "refused")
    /\ UNCHANGED <<accounts, keys, tokens, entitled, hour>>

Forbid(q) ==
    /\ asks[q].at = "spared" /\ ~Opened(asks[q].route, asks[q].role)
    /\ Ends(q, "refused")
    /\ UNCHANGED <<accounts, keys, tokens, entitled, hour>>

(* The handlers of the auth controller write accounts and keys; those of   *)
(* the other controllers are the subject of other modules.                 *)
Effects(route) ==
    CASE route = <<"auth", "users/status">> ->
           {<<[accounts EXCEPT ![u].status = IF @ = "gone" THEN @ ELSE st], keys>> :
              u \in User, st \in {"active", "disabled"}}
      [] route = <<"auth", "PUT users">> ->
           {<<[accounts EXCEPT ![u].role = role], keys>> : u \in User, role \in Given}
      [] route = <<"auth", "DELETE users">> ->
           {<<[accounts EXCEPT ![u].status = "gone"], keys>> : u \in User}
      [] route = <<"auth", "api-keys/revoke">> ->
           {<<accounts, [keys EXCEPT ![k].status = IF @ = "gone" THEN @ ELSE "revoked"]>> :
              k \in Key}
      [] route = <<"auth", "DELETE api-keys">> ->
           {<<accounts, [keys EXCEPT ![k].status = "gone"]>> : k \in Key}
      [] OTHER -> {<<accounts, keys>>}

Perform(q) ==
    /\ asks[q].at = "spared" /\ Opened(asks[q].route, asks[q].role)
    /\ Ends(q, "handled")
    /\ \E effect \in Effects(asks[q].route) :
         /\ accounts' = effect[1] /\ keys' = effect[2]
         /\ entitled' = StillEntitled(effect[1], effect[2])
    /\ UNCHANGED <<tokens, hour>>

AnHourPasses ==
    /\ hour < LastHour
    /\ hour' = hour + 1
    /\ UNCHANGED <<accounts, keys, tokens, asks, entitled>>

AccessNext ==
    \/ \E u \in User : Login(u)
    \/ \E q \in Ask, route \in Tried :
         \E cred \in tokens \cup {Credential(k, "none", 0) : k \in Key} : Come(q, route, cred)
    \/ \E q \in Ask : Authenticate(q) \/ LimitPrincipal(q) \/ Forbid(q) \/ Perform(q)
    \/ AnHourPasses

AccessSpec == AccessInit /\ [][AccessNext]_accessVars

AccessTypeOK ==
    /\ Required \in [DOMAIN Required -> SUBSET Role]
    /\ accounts \in [User -> [role : Role, status : {"active", "disabled", "gone"}]]
    /\ keys \in [Key -> [role : Role, status : {"active", "revoked", "gone"}]]
    /\ tokens \subseteq [sub : User, role : Role, until : 0..(LastHour + Lifetime)]
    /\ \A q \in Ask :
         /\ asks[q].at \in {"new", "limited", "known", "spared", "handled", "refused"}
         /\ asks[q].route \in Tried \cup {Nothing}
         /\ asks[q].role \in Role \cup {"none"}
    /\ entitled \subseteq Ask

(* What was handled was asked by someone who, at some moment after asking, *)
(* was active and had a role of the route: a role that was taken away, an  *)
(* account that was disabled or a key that was revoked opens nothing to    *)
(* what is asked later, whatever the token says.                           *)
HandledWasEntitled == \A q \in Ask : asks[q].at = "handled" => q \in entitled
=============================================================================
