------------------------------- MODULE Console -------------------------------
(***************************************************************************)
(* The admin console between a call that changes something and the data    *)
(* its screens show.  Data come from a query cache, one entry per key; a   *)
(* fresh entry is shown without asking; after a call that succeeds, the    *)
(* screen names the keys it has made out of date, by hand.  A behavior     *)
(* watches one call and one key that depends on it.                        *)
(***************************************************************************)
EXTENDS Naturals

CONSTANT MaxWrites   \* bound

VARIABLES
    watched,     \* <<call, key>>
    inDb,        \* version of what the key reads
    copy,        \* the entry of the cache: [version, fresh, failed]
    reading,     \* the fetch of the key
    onScreen,    \* a component that uses the key is mounted
    writing,     \* the call: "none", "sent", "done"
    confirmed,   \* the version the last answered call left
    excused,     \* known to lag: see Invalidate and FailsHalfway
    session      \* "in"; "gone": without a token; "out": the login screen

consoleVars ==
    <<watched, inDb, copy, reading, onScreen, writing, confirmed, excused, session>>

NoCopy == [version |-> 0, fresh |-> FALSE, failed |-> FALSE, some |-> FALSE]
Silent == [at |-> "none", version |-> 0, again |-> FALSE]
Asked == [at |-> "asked", version |-> 0, again |-> FALSE]

-----------------------------------------------------------------------------
(* What the calls change of what the keys show (figures of analytics and   *)
(* figures computed by the schedulers apart).                              *)

BrandCalls == {"createBrand", "updateBrand", "deleteBrand"}
StoreCalls == {"createStore", "updateStore", "deleteStore"}
ProductCalls == {"createProduct", "updateProduct", "deleteProduct"}
MasterTouches ==
    (BrandCalls \X {"brands"}) \cup (StoreCalls \X {"stores"}) \cup (ProductCalls \X {"products"})
    \cup ((StoreCalls \cup {"updateBrand", "deleteBrand"}) \X {"brand-detail"})
    \cup {"recomputePredictions"} \X {"predictions", "pred-dist", "prediction"}

(* Earning and adjusting also change what a member has earned in the list. *)
LoyaltyTouches ==
    ({"loyaltyEarn", "loyaltyReserve", "loyaltyCapture", "loyaltyRelease", "loyaltyAdjust",
      "loyaltyRedeemReward"} \X {"loyalty-wallets", "loyalty-ledger"})
    \cup ({"loyaltyEarn", "loyaltyAdjust"} \X {"loyalty-members"})
    \cup {<<"loyaltyRedeemReward", "loyalty-vouchers">>, <<"loyaltyTopUp", "loyalty-sv">>,
          <<"loyaltyRecomputeTier", "loyalty-mtiers">>,
          <<"loyaltyCreateEarnRule", "loyalty-earn-rules">>,
          <<"loyaltyLiabilitySnapshot", "loyalty-liability">>}

(* getAnomalies is a read that stores what it detects (detectAnomalies).   *)
OutreachTouches ==
    {<<"recordConsent", "consent-history">>, <<"activate", "activation-runs">>,
     <<"ackAlert", "alerts">>, <<"getAnomalies", "alerts">>, <<"rtWarm", "rt-status">>,
     <<"createOffer", "offers">>, <<"deleteOffer", "offers">>,
     <<"createExperiment", "experiments">>}

JourneyEdits == {"jSaveJourney", "jPublish", "jActivate", "jPause"}
JourneyTouches ==
    ((JourneyEdits \cup {"jCreateJourney", "jEnroll", "jTick"}) \X {"journeys"})
    \cup (JourneyEdits \X {"journey"})
    \cup ({"jEnroll", "jTick", "jRetry", "jForceExit"}
            \X {"journey-participants", "journey-node-participants", "journey-report"})
    \cup ({"jTick", "jRetry", "jForceExit"} \X {"participant-history"})

UserCalls == {"createUser", "updateUser", "setUserStatus", "deleteUser"}
KeyCalls == {"createApiKey", "revokeApiKey", "deleteApiKey"}
PlatformTouches ==
    (UserCalls \X {"users"}) \cup (KeyCalls \X {"apikeys"})
    \cup {"setAiConfig"} \X {"ai-config", "ai-config-audit"}

(* A test and a pull also set the status and the time of the connection.   *)
ConnectorTouches ==
    ({"createConnection", "setConnectionStatus", "deleteConnection", "testConnection",
      "pullConnection", "applyConnectorTemplate"} \X {"connections"})
    \cup ({"createPipeline", "savePipeline", "setPipelineStatus", "applyConnectorTemplate"}
            \X {"pipelines"})
    \cup ({"savePipeline", "setPipelineStatus"} \X {"pipeline"})
    \cup {<<"createConnector", "connector-catalog">>,
          <<"testSendConnection", "conn-deliveries">>,
          <<"pullConnection", "conn-summary">>, <<"pullConnection", "conn-events">>}

Touches ==
    MasterTouches \cup LoyaltyTouches \cup OutreachTouches \cup JourneyTouches
    \cup PlatformTouches \cup ConnectorTouches

-----------------------------------------------------------------------------
(* What the screens invalidate after the calls they make. *)

BrandsRefresh == BrandCalls \X {"brands"}
StoresRefresh == StoreCalls \X {"stores"}
ProductsRefresh == ProductCalls \X {"products"}
PredictionsRefresh == {"recomputePredictions"} \X {"predictions", "pred-dist"}

ProgramRefresh ==
    {<<"loyaltyCreateEarnRule", "loyalty-earn-rules">>,
     <<"loyaltyLiabilitySnapshot", "loyalty-liability">>}

(* Mutant: the ledger is left out of the keys of a member.                 *)
MemberForgetsLedger ==
    {"loyaltyAdjust", "loyaltyRedeemReward", "loyaltyTopUp", "loyaltyIssueCard",
     "loyaltyRecomputeTier"}
      \X {"loyalty-wallets", "loyalty-mtiers", "loyalty-vouchers", "loyalty-sv", "loyalty-members"}

(* Every operation on a member refreshes all there is about the member.    *)
MemberRefresh ==
    {"loyaltyAdjust", "loyaltyRedeemReward", "loyaltyTopUp", "loyaltyIssueCard",
     "loyaltyRecomputeTier"}
      \X {"loyalty-wallets", "loyalty-mtiers", "loyalty-vouchers", "loyalty-sv",
          "loyalty-ledger", "loyalty-members"}

AudiencesRefresh == {<<"activate", "activation-runs">>}
AlertsRefresh == {<<"ackAlert", "alerts">>}
PersonalizationRefresh == {<<"rtWarm", "rt-status">>}
OffersRefresh == {"createOffer", "deleteOffer"} \X {"offers"}
ExperimentsRefresh == {<<"createExperiment", "experiments">>}
JourneysRefresh == {<<"jCreateJourney", "journeys">>}
JourneyRefresh == JourneyEdits \X {"journey", "journeys"}
ParticipantsRefresh == {"jTick", "jRetry", "jForceExit", "jEnroll"} \X {"journey-participants"}
PlatformRefresh == (UserCalls \X {"users"}) \cup (KeyCalls \X {"apikeys"})
GovernanceRefresh == {"setAiConfig"} \X {"ai-config", "ai-config-audit"}
ConnectorsRefresh ==
    ({"createConnection", "setConnectionStatus", "deleteConnection", "applyConnectorTemplate"}
        \X {"connections"})
    \cup {<<"applyConnectorTemplate", "pipelines">>, <<"createConnector", "connector-catalog">>}
OperationsRefresh ==
    {"testSendConnection", "pullConnection"} \X {"conn-summary", "conn-events", "conn-deliveries"}

Refreshes ==
    BrandsRefresh \cup StoresRefresh \cup ProductsRefresh \cup PredictionsRefresh
    \cup ProgramRefresh \cup MemberRefresh \cup AudiencesRefresh \cup AlertsRefresh
    \cup PersonalizationRefresh \cup OffersRefresh \cup ExperimentsRefresh \cup JourneysRefresh
    \cup JourneyRefresh \cup ParticipantsRefresh \cup PlatformRefresh \cup GovernanceRefresh
    \cup ConnectorsRefresh \cup OperationsRefresh

(* The list of runs is fetched again by refetch(), mounted or not.         *)
FetchedAnyway == {"activation-runs"}

(* Screens that ask every few seconds (refetchInterval).                   *)
Polled == {"rt-status"}

(* createExperiment is followed by assignExperiment, and only then by the  *)
(* invalidation; a failure in between leaves the list as it was.           *)
FailsAfter == {"createExperiment"}

-----------------------------------------------------------------------------
ConsoleInit ==
    /\ watched \in Touches
    /\ inDb = 0
    /\ copy = NoCopy
    /\ reading = Silent
    /\ onScreen = FALSE
    /\ writing = "none"
    /\ confirmed = 0
    /\ excused = FALSE
    /\ session = "in"

ConsoleTypeOK ==
    /\ inDb \in 0 .. MaxWrites
    /\ copy.version \in 0 .. inDb /\ copy.fresh \in BOOLEAN /\ copy.failed \in BOOLEAN
    /\ reading.at \in {"none", "asked", "read"} /\ reading.version \in 0 .. inDb
    /\ onScreen \in BOOLEAN
    /\ writing \in {"none", "sent", "done"}
    /\ confirmed \in 0 .. inDb
    /\ session \in {"in", "gone", "out"}

(* A mounted component shows the entry, and asks unless it is fresh; so    *)
(* does a window that regains the focus; an interval asks anyway.          *)
AskAgain ==
    IF reading = Silent
    THEN reading' = Asked /\ excused' = FALSE
    ELSE UNCHANGED <<reading, excused>>
Mount ==
    /\ ~onScreen /\ session # "out"
    /\ onScreen' = TRUE
    /\ IF copy.fresh THEN UNCHANGED <<reading, excused>> ELSE AskAgain
    /\ UNCHANGED <<watched, inDb, copy, writing, confirmed, session>>
Unmount ==
    /\ onScreen
    /\ onScreen' = FALSE
    /\ UNCHANGED <<watched, inDb, copy, reading, writing, confirmed, excused, session>>
Focus ==
    /\ onScreen /\ reading = Silent
    /\ ~copy.fresh \/ watched[2] \in Polled
    /\ AskAgain
    /\ UNCHANGED <<watched, inDb, copy, onScreen, writing, confirmed, session>>

(* staleTime.                                                              *)
Age ==
    /\ copy.fresh
    /\ copy' = [copy EXCEPT !.fresh = FALSE]
    /\ UNCHANGED <<watched, inDb, reading, onScreen, writing, confirmed, excused, session>>

(* A fetch: answered by the server, then taken into the cache; it is tried *)
(* twice (retry).                                                          *)
ServeRead ==
    /\ reading.at = "asked" /\ session = "in"
    /\ reading' = [reading EXCEPT !.at = "read", !.version = inDb]
    /\ UNCHANGED <<watched, inDb, copy, onScreen, writing, confirmed, excused, session>>
TakeAnswer ==
    /\ reading.at = "read"
    /\ copy' = [version |-> reading.version, fresh |-> TRUE, failed |-> FALSE, some |-> TRUE]
    /\ reading' = Silent
    /\ UNCHANGED <<watched, inDb, onScreen, writing, confirmed, excused, session>>
ReadFails ==
    /\ reading # Silent
    /\ IF reading.again
       THEN reading' = Silent /\ copy' = [copy EXCEPT !.failed = TRUE]
       ELSE reading' = [Asked EXCEPT !.again = TRUE] /\ UNCHANGED copy
    /\ UNCHANGED <<watched, inDb, onScreen, writing, confirmed, excused, session>>

(* The call, and another user's change of the same data.                   *)
SendCall ==
    /\ writing = "none" /\ session # "out"
    /\ writing' = "sent"
    /\ UNCHANGED <<watched, inDb, copy, reading, onScreen, confirmed, excused, session>>
ServeCall ==
    /\ writing = "sent" /\ session = "in" /\ inDb < MaxWrites
    /\ inDb' = inDb + 1
    /\ writing' = "done"
    /\ UNCHANGED <<watched, copy, reading, onScreen, confirmed, excused, session>>
ChangeElsewhere ==
    /\ inDb < MaxWrites
    /\ inDb' = inDb + 1
    /\ UNCHANGED <<watched, copy, reading, onScreen, writing, confirmed, excused, session>>

(* Refused, or the answer lost: an error is shown, nothing invalidated. A  *)
(* call of several requests may fail after its first has been answered.    *)
CallFails ==
    /\ writing # "none"
    /\ writing' = "none"
    /\ UNCHANGED <<watched, inDb, copy, reading, onScreen, confirmed, excused, session>>
FailsHalfway ==
    /\ writing = "done" /\ watched[1] \in FailsAfter
    /\ writing' = "none" /\ confirmed' = inDb /\ excused' = TRUE
    /\ UNCHANGED <<watched, inDb, copy, reading, onScreen, session>>

(* onSuccess: the entry is marked, and fetched if a component uses it; a   *)
(* fetch under way is started anew, but not the first one of an entry nor  *)
(* one that no component waits for.                                        *)
Invalidate ==
    /\ copy' = [copy EXCEPT !.fresh = FALSE]
    /\ IF (onScreen \/ watched[2] \in FetchedAnyway) /\ (copy.some \/ reading = Silent)
       THEN reading' = Asked /\ excused' = FALSE
       ELSE excused' = (reading.at = "read") /\ UNCHANGED reading
CallSucceeds ==
    /\ writing = "done"
    /\ writing' = "none"
    /\ confirmed' = inDb
    /\ IF watched \in Refreshes THEN Invalidate ELSE UNCHANGED <<copy, reading, excused>>
    /\ UNCHANGED <<watched, inDb, onScreen, session>>

(* A 401 clears the token and leaves the screens where they are; logging   *)
(* out shows the login screen and keeps the cache; loading the page anew   *)
(* does away with it.                                                      *)
Unauthorized ==
    /\ session = "in" /\ (reading.at = "asked" \/ writing = "sent")
    /\ session' = "gone"
    /\ UNCHANGED <<watched, inDb, copy, reading, onScreen, writing, confirmed, excused>>
Logout ==
    /\ session # "out"
    /\ session' = "out" /\ onScreen' = FALSE
    /\ UNCHANGED <<watched, inDb, copy, reading, writing, confirmed, excused>>
SignIn ==
    /\ session = "out"
    /\ session' = "in"
    /\ UNCHANGED <<watched, inDb, copy, reading, onScreen, writing, confirmed, excused>>
Reload ==
    /\ writing # "sent"
    /\ copy' = NoCopy /\ reading' = Silent /\ onScreen' = FALSE /\ writing' = "none"
    /\ excused' = FALSE
    /\ session' = IF session = "in" THEN "in" ELSE "out"
    /\ UNCHANGED <<watched, inDb, confirmed>>

ConsoleNext ==
    \/ Mount \/ Unmount \/ Focus \/ Age
    \/ ServeRead \/ TakeAnswer \/ ReadFails
    \/ SendCall \/ ServeCall \/ ChangeElsewhere \/ CallFails \/ FailsHalfway \/ CallSucceeds
    \/ Unauthorized \/ Logout \/ SignIn \/ Reload

-----------------------------------------------------------------------------
(* What no screen refreshes: the details behind a list (of a brand, of a   *)
(* consent, of a participant, the prediction of a customer); the lists     *)
(* beside the loyalty desk; the pipeline behind its canvas and in the list; *)
(* the connection behind its drawer; the counts of a journey; the alerts   *)
(* beside the query that detects them.                                     *)
Forgotten ==
    ((StoreCalls \cup {"updateBrand", "deleteBrand"}) \X {"brand-detail"})
    \cup {<<"recordConsent", "consent-history">>, <<"recomputePredictions", "prediction">>,
          <<"loyaltyEarn", "loyalty-members">>, <<"getAnomalies", "alerts">>}
    \cup ({"loyaltyEarn", "loyaltyReserve", "loyaltyCapture", "loyaltyRelease"}
            \X {"loyalty-wallets", "loyalty-ledger"})
    \cup ({"createPipeline", "savePipeline", "setPipelineStatus"} \X {"pipelines", "pipeline"})
    \cup ({"testConnection", "pullConnection"} \X {"connections"})
    \cup ({"jTick", "jRetry", "jForceExit", "jEnroll"}
            \X {"journeys", "journey-report", "journey-node-participants", "participant-history"})

(* After a call of its own has been answered and its fetches have ended, a *)
(* screen shows what the call did; but for the pairs above, a fetch that   *)
(* had read before and was not started anew, a fetch that failed, and a    *)
(* call whose second request failed.                                       *)
OwnWritesShown ==
    (/\ onScreen /\ copy.some /\ ~copy.failed /\ reading = Silent /\ writing = "none"
     /\ ~excused /\ watched \notin Forgotten)
       => copy.version >= confirmed
=============================================================================
