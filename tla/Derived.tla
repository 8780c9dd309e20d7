------------------------------- MODULE Derived -------------------------------
(***************************************************************************)
(* What is computed from the purchases and kept per member: the features,  *)
(* the predictions, the variant of an experiment and the profile cached in *)
(* Redis.  The batches read the members up front and then go through them  *)
(* statement by statement; a merge moves the purchases in between.         *)
(***************************************************************************)
EXTENDS Naturals, FiniteSets

CONSTANTS
    Client,      \* members; the elder has the smaller number
    Bill,        \* purchases
    Holdout,     \* the members whose hash puts them in the holdout
    Batch,       \* requests that can run side by side
    MaxRuns      \* bound on the requests of a behavior

VARIABLES
    billOf,      \* canonical_transaction: the member of each purchase
    gone,        \* the merged members
    feature,     \* customer_feature: the purchases counted, or NoRow
    prediction,  \* customer_prediction
    variant,     \* experiment_assignment of one experiment
    cachedFor,   \* Redis, profile:{occ}: the feature row it shows
    toForget,    \* merged members whose cache is still to be invalidated
    batch,       \* the requests under way
    runs,        \* how many were started
    raced        \* members that were merged while a request had them on its list

derivedVars == <<billOf, gone, feature, prediction, variant, cachedFor, toForget, batch, runs, raced>>

NoRow == {"no row"}
Off == [job |-> "none"]
Job == {"features", "predictions", "assign", "warm", "profile", "feature", "prediction"}

DerivedInit ==
    /\ billOf \in [Bill -> Client]
    /\ gone = {} /\ toForget = {} /\ raced = {}
    /\ feature = [c \in Client |-> NoRow]
    /\ prediction = [c \in Client |-> NoRow]
    /\ variant = [c \in Client |-> "none"]
    /\ cachedFor = [c \in Client |-> NoRow]
    /\ batch = [b \in Batch |-> Off]
    /\ runs = 0

Row == SUBSET Bill \cup {NoRow}
DerivedTypeOK ==
    /\ billOf \in [Bill -> Client] /\ gone \subseteq Client
    /\ feature \in [Client -> Row] /\ prediction \in [Client -> Row] /\ cachedFor \in [Client -> Row]
    /\ variant \in [Client -> {"none", "treatment", "holdout"}]

Buyers == {billOf[p] : p \in Bill}
BillsOf(c) == {p \in Bill : billOf[p] = c}
RowsOf(t) == {c \in Client : t[c] # NoRow}

(* variantFor: the hash of the experiment and the member.                  *)
VariantFor(c) == IF c \in Holdout THEN "holdout" ELSE "treatment"

-----------------------------------------------------------------------------
(* Requests. *)

(* recomputeAllFeatures, recomputeAll, assignAll and warmAll list members  *)
(* first; the other requests name one, merged or not.  What they find in   *)
(* the tables may end them at once (getFeature, getPrediction, a hit).     *)
Listed(job) ==
    CASE job \in {"features", "predictions", "assign"} -> {Buyers}
      [] job = "warm" -> {RowsOf(feature)}
      [] job = "profile" -> {{c} : c \in {k \in Client : cachedFor[k] = NoRow}}
      [] job = "feature" -> {{c} : c \in Client}
      [] job = "prediction" -> {{c} : c \in {k \in Client : prediction[k] = NoRow}}

Start(b, job) ==
    /\ batch[b] = Off /\ runs < MaxRuns
    /\ \E S \in Listed(job) :
          /\ batch' = [batch EXCEPT ![b] = [job |-> job, todo |-> S, seen |-> {}, at |-> "listed"]]
          /\ raced' = raced \cup (S \cap gone)
    /\ runs' = runs + 1
    /\ UNCHANGED <<billOf, gone, feature, prediction, variant, cachedFor, toForget>>

IsFeature(b) == batch[b].job \in {"features", "feature"}
IsPrediction(b) == batch[b].job \in {"predictions", "prediction"}
IsProfile(b) == batch[b].job \in {"warm", "profile"}

(* buildProfile: from the row of customer_feature, if there is one.        *)
ProfileOf(c) == feature[c]

(* redisSet: of a profile that exists; Redis may be down.                  *)
CacheSet(c, row) == IF row = NoRow THEN {cachedFor} ELSE {cachedFor, [cachedFor EXCEPT ![c] = row]}

(* recomputeFeature reads the aggregate of one member; buildProfile reads  *)
(* its rows; assignAll has nothing to read.                                *)
ReadOne(b) ==
    /\ IsFeature(b) \/ IsProfile(b)
    /\ batch[b].at = "listed"
    /\ \E c \in batch[b].todo :
          batch' = [batch EXCEPT ![b].at = "read",
                      ![b].seen = {<<c, IF IsFeature(b) THEN BillsOf(c) ELSE ProfileOf(c)>>}]
    /\ UNCHANGED <<billOf, gone, feature, prediction, variant, cachedFor, toForget, runs, raced>>

(* provider.score answers for all at once, only for members that have      *)
(* purchases; without it heuristicRows reads the rows of customer_feature. *)
Score(b) ==
    /\ IsPrediction(b) /\ batch[b].at = "listed"
    /\ \E t \in {[c \in Client |-> IF c \in Buyers THEN BillsOf(c) ELSE NoRow], feature} :
          LET found == {c \in batch[b].todo : t[c] # NoRow}
          IN batch' = [batch EXCEPT ![b].at = "read", ![b].todo = found,
                         ![b].seen = {<<c, t[c]>> : c \in found}]
    /\ UNCHANGED <<billOf, gone, feature, prediction, variant, cachedFor, toForget, runs, raced>>

(* One upsert, of a row of features or of predictions; or redisSet.        *)
WriteOne(b) ==
    /\ batch[b].job # "none" /\ batch[b].at = "read"
    /\ \E s \in batch[b].seen :
          /\ batch' = [batch EXCEPT ![b].todo = @ \ {s[1]}, ![b].seen = @ \ {s},
                         ![b].at = IF IsPrediction(b) THEN @ ELSE "listed"]
          /\ feature' = IF IsFeature(b) THEN [feature EXCEPT ![s[1]] = s[2]] ELSE feature
          /\ prediction' = IF IsPrediction(b) THEN [prediction EXCEPT ![s[1]] = s[2]] ELSE prediction
          /\ cachedFor' \in IF IsProfile(b) THEN CacheSet(s[1], s[2]) ELSE {cachedFor}
    /\ UNCHANGED <<billOf, gone, variant, toForget, runs, raced>>

(* assignAll: ON CONFLICT DO NOTHING.                                      *)
Assign(b) ==
    /\ batch[b].job = "assign"
    /\ \E c \in batch[b].todo :
          /\ variant' = [variant EXCEPT ![c] = IF @ = "none" THEN VariantFor(c) ELSE @]
          /\ batch' = [batch EXCEPT ![b].todo = @ \ {c}]
    /\ UNCHANGED <<billOf, gone, feature, prediction, cachedFor, toForget, runs, raced>>

(* Done, or the process stops in the middle of it.                         *)
Stop(b) ==
    /\ batch[b] # Off
    /\ batch' = [batch EXCEPT ![b] = Off]
    /\ UNCHANGED <<billOf, gone, feature, prediction, variant, cachedFor, toForget, runs, raced>>

-----------------------------------------------------------------------------
(* The merge. *)

(* Mutant: the derived rows of the merged member stay.                     *)
RowsDroppedLate(t, other) == t

(* DELETE FROM customer_feature and customer_prediction of the merged one. *)
RowsDropped(t, other) == [t EXCEPT ![other] = NoRow]

(* mergeOthers: the assignment moves when the survivor has none; nothing   *)
(* recomputes the survivor's rows.                                         *)
MergeClients(survivor, other) ==
    /\ survivor < other /\ {survivor, other} \cap gone = {}
    /\ billOf' = [p \in Bill |-> IF billOf[p] = other THEN survivor ELSE billOf[p]]
    /\ feature' = RowsDropped(feature, other)
    /\ prediction' = RowsDropped(prediction, other)
    /\ variant' = [variant EXCEPT ![other] = "none",
                      ![survivor] = IF @ = "none" THEN variant[other] ELSE @]
    /\ gone' = gone \cup {other}
    /\ toForget' = toForget \cup {other}
    /\ raced' = raced \cup {c \in {other} : \E b \in Batch : batch[b] # Off /\ c \in batch[b].todo}
                      \cup {c \in {survivor} : \E b \in Batch : batch[b] # Off
                                /\ {survivor, other} \cap batch[b].todo # {}}
    /\ UNCHANGED <<cachedFor, batch, runs>>

(* invalidateCache after the commit: the merged member's keys; lost when   *)
(* Redis is down, or when the purchase turned out to be a repetition.      *)
Forget(c) ==
    /\ c \in toForget
    /\ toForget' = toForget \ {c}
    /\ cachedFor' = [cachedFor EXCEPT ![c] = NoRow]
    /\ UNCHANGED <<billOf, gone, feature, prediction, variant, batch, runs, raced>>

DerivedNext ==
    \/ \E b \in Batch :
          \/ \E job \in Job : Start(b, job)
          \/ ReadOne(b) \/ Score(b) \/ WriteOne(b) \/ Assign(b) \/ Stop(b)
    \/ \E survivor, other \in Client : MergeClients(survivor, other)
    \/ \E c \in Client : Forget(c)

-----------------------------------------------------------------------------
Disjoint(t) == \A c, d \in Client \ raced : c # d /\ NoRow \notin {t[c], t[d]} => t[c] \cap t[d] = {}

(* No purchase is counted in the rows of two members, and a merged member  *)
(* has no row and no variant, except for members a request had on its list *)
(* while they were merged (or was asked for afterwards).                   *)
CountedOnce ==
    /\ Disjoint(feature) /\ Disjoint(prediction)
    /\ \A c \in gone \ raced : feature[c] = NoRow /\ prediction[c] = NoRow /\ variant[c] = "none"
=============================================================================
