-------------------------------- MODULE Models --------------------------------
(***************************************************************************)
(* The model registry of the AI service, the bundle of trained models on   *)
(* its disk and in its memory, and the predictions core-api stores with    *)
(* the versions it was told.  A training registers its models one by one,  *)
(* in transactions of their own, and saves the bundle at the end.          *)
(***************************************************************************)
EXTENDS Naturals, Sequences, FiniteSets

CONSTANTS
    Model,        \* the models of a bundle, in the order train_all fits them
    Trainer,      \* trainings that can run side by side
    ByRoute,      \* those that POST /train runs; the others are the command line's
    Asking,       \* requests of core-api for scores
    MaxTrainings  \* bound on the trainings of a behavior

VARIABLES
    versions,     \* ml_model: the versions registered of each model
    active,       \* the active one, 0 for none
    shownCard,    \* model_card: the version shown
    file,         \* bundle.pkl: the version of each model, NoBundle or Torn
    memory,       \* _bundle of the server
    training,     \* what each training is at
    asking,       \* what each request is at
    circuit,      \* aiOpenUntilMs of core-api: "closed" or "open"
    stored,       \* the rows of customer_prediction that were written
    trainings,
    fileSettled,  \* the file holds what the training that registered last trained, alone
    trusted       \* memory was read from a fileSettled file and nothing was registered since

modelVars == <<versions, active, shownCard, file, memory, training, asking, circuit, stored,
               trainings, fileSettled, trusted>>

NoBundle == <<>>
Torn == <<0>>
NoWork == [at |-> "idle"]
Place == 1 .. Len(Model)
Largest(S) == CHOOSE v \in S \cup {0} : \A w \in S : w <= v

ModelInit ==
    /\ versions = [m \in Place |-> {}]
    /\ active = [m \in Place |-> 0] /\ shownCard = [m \in Place |-> 0]
    /\ file = NoBundle /\ memory = NoBundle
    /\ training = [t \in Trainer |-> NoWork] /\ asking = [a \in Asking |-> NoWork]
    /\ circuit = "closed" /\ stored = {} /\ trainings = 0
    /\ fileSettled = TRUE /\ trusted = TRUE

ModelTypeOK ==
    /\ active \in [Place -> 0 .. MaxTrainings] /\ shownCard \in [Place -> 0 .. MaxTrainings]
    /\ \A m \in Place : active[m] \in versions[m] \cup {0} /\ shownCard[m] \in versions[m] \cup {0}
    /\ circuit \in {"closed", "open"} /\ fileSettled \in BOOLEAN /\ trusted \in BOOLEAN

-----------------------------------------------------------------------------
(* train_all and register_model. *)

Busy == {t \in Trainer : training[t] # NoWork}
At(t, at) == training[t] # NoWork /\ training[t].at = at
Goes(t, at) == training' = [training EXCEPT ![t].at = at]

BeginTraining(t) ==
    /\ training[t] = NoWork /\ trainings < MaxTrainings
    /\ trainings' = trainings + 1
    /\ training' = [k \in Trainer |->
          IF k = t THEN [at |-> "fitted", made |-> <<>>, v |-> 0, alone |-> Busy = {}]
          ELSE IF k \in Busy THEN [training[k] EXCEPT !.alone = FALSE] ELSE NoWork]
    /\ UNCHANGED <<versions, active, shownCard, file, memory, asking, circuit, stored, fileSettled, trusted>>

Nth(t) == Len(training[t].made) + 1

(* _next_version, once the model is fitted.                                *)
NextVersion(t) ==
    /\ At(t, "fitted") /\ Nth(t) \in Place
    /\ training' = [training EXCEPT ![t].at = "numbered", ![t].v = Largest(versions[Nth(t)]) + 1]
    /\ UNCHANGED <<versions, active, shownCard, file, memory, asking, circuit, stored, trainings, fileSettled, trusted>>

(* The version that was active no longer is: from here on the registry and *)
(* the bundles differ.                                                     *)
Deactivate(t) ==
    /\ At(t, "numbered")
    /\ active' = [active EXCEPT ![Nth(t)] = 0]
    /\ fileSettled' = FALSE /\ trusted' = FALSE
    /\ asking' = [a \in Asking |-> IF asking[a] = NoWork THEN NoWork ELSE [asking[a] EXCEPT !.sure = FALSE]]
    /\ Goes(t, "deactivated")
    /\ UNCHANGED <<versions, shownCard, file, memory, circuit, stored, trainings>>

(* Mutant: the new version is not marked active.                           *)
InsertInactive(t) ==
    /\ At(t, "deactivated")
    /\ training[t].v \notin versions[Nth(t)] /\ active[Nth(t)] = 0
    /\ versions' = [versions EXCEPT ![Nth(t)] = @ \cup {training[t].v}]
    /\ Goes(t, "inserted")
    /\ UNCHANGED <<active, shownCard, file, memory, asking, circuit, stored, trainings, fileSettled, trusted>>

(* Refused by UNIQUE (model_type, version), or by the index on is_active   *)
(* when another training activated its version in between.                 *)
Insert(t) ==
    /\ At(t, "deactivated")
    /\ training[t].v \notin versions[Nth(t)] /\ active[Nth(t)] = 0
    /\ versions' = [versions EXCEPT ![Nth(t)] = @ \cup {training[t].v}]
    /\ active' = [active EXCEPT ![Nth(t)] = training[t].v]
    /\ Goes(t, "inserted")
    /\ UNCHANGED <<shownCard, file, memory, asking, circuit, stored, trainings, fileSettled, trusted>>

(* The card and the weights of the features, on the way to the next model. *)
PutCard(t) ==
    /\ At(t, "inserted")
    /\ shownCard' = [shownCard EXCEPT ![Nth(t)] = training[t].v]
    /\ training' = [training EXCEPT ![t].at = "fitted", ![t].made = Append(@, training[t].v)]
    /\ UNCHANGED <<versions, active, file, memory, asking, circuit, stored, trainings, fileSettled, trusted>>

(* save_bundle: the file is emptied when it is opened.                     *)
OpenFile(t) ==
    /\ At(t, "fitted") /\ Len(training[t].made) = Len(Model)
    /\ file' = Torn
    /\ Goes(t, "saving")
    /\ UNCHANGED <<versions, active, shownCard, memory, asking, circuit, stored, trainings, fileSettled, trusted>>
WriteFile(t) ==
    /\ At(t, "saving")
    /\ file' \in {training[t].made} \cup
          (IF \E k \in Busy \ {t} : training[k].at \in {"saving", "saved"} THEN {Torn} ELSE {})
    /\ fileSettled' = training[t].alone
    /\ Goes(t, "saved")
    /\ UNCHANGED <<versions, active, shownCard, memory, asking, circuit, stored, trainings, trusted>>

(* load_bundle: none when the file cannot be read whole.                   *)
Loaded == IF file = Torn THEN NoBundle ELSE file

(* The route reloads; the command line ends, and the server keeps what it  *)
(* has in memory.                                                          *)
EndTraining(t) ==
    /\ At(t, "saved")
    /\ training' = [training EXCEPT ![t] = NoWork]
    /\ IF t \in ByRoute THEN memory' = Loaded /\ trusted' = fileSettled
       ELSE UNCHANGED <<memory, trusted>>
    /\ UNCHANGED <<versions, active, shownCard, file, asking, circuit, stored, trainings, fileSettled>>

(* A fit or a statement fails, or the process stops: what was registered   *)
(* stays, and nothing is saved.                                            *)
FailTraining(t) ==
    /\ t \in Busy
    /\ training' = [training EXCEPT ![t] = NoWork]
    /\ UNCHANGED <<versions, active, shownCard, file, memory, asking, circuit, stored, trainings, fileSettled, trusted>>

Restart ==
    /\ memory # NoBundle
    /\ memory' = NoBundle /\ trusted' = FALSE
    /\ UNCHANGED <<versions, active, shownCard, file, training, asking, circuit, stored, trainings, fileSettled>>

-----------------------------------------------------------------------------
(* Scoring. *)

(* ensureUp, and score: _load reads the file if there is none in memory.   *)
AskModels(a) ==
    /\ asking[a] = NoWork /\ circuit = "closed"
    /\ memory' = IF memory = NoBundle THEN Loaded ELSE memory
    /\ trusted' = IF memory = NoBundle THEN fileSettled ELSE trusted
    /\ asking' = [asking EXCEPT ![a] = [at |-> "loaded", made |-> memory', label |-> <<>>, sure |-> trusted']]
    /\ UNCHANGED <<versions, active, shownCard, file, training, circuit, stored, trainings, fileSettled>>

(* version_map: what is active by now.                                     *)
LabelScores(a) ==
    /\ asking[a] # NoWork /\ asking[a].at = "loaded" /\ asking[a].made # NoBundle
    /\ asking' = [asking EXCEPT ![a].at = "labelled", ![a].label = active]
    /\ UNCHANGED <<versions, active, shownCard, file, memory, training, circuit, stored, trainings, fileSettled, trusted>>

(* upsertPredictions of an answer in time.                                 *)
StoreScores(a) ==
    /\ asking[a] # NoWork /\ asking[a].at = "labelled"
    /\ stored' = stored \cup {[source |-> "ml", made |-> asking[a].made, label |-> asking[a].label,
                               sure |-> asking[a].sure]}
    /\ asking' = [asking EXCEPT ![a] = NoWork]
    /\ UNCHANGED <<versions, active, shownCard, file, memory, training, circuit, trainings, fileSettled, trusted>>

Heuristic == [source |-> "heuristic", made |-> <<>>, label |-> <<>>, sure |-> TRUE]

(* recomputeAll falls back on the features: no scores; or no answer, which *)
(* opens the circuit; or an open circuit.                                  *)
FallBack(a) ==
    /\ \/ asking[a] # NoWork /\ asking[a].at = "loaded" /\ asking[a].made = NoBundle /\ UNCHANGED circuit
       \/ asking[a] # NoWork /\ circuit' = "open"
       \/ asking[a] = NoWork /\ circuit = "open" /\ UNCHANGED circuit
    /\ stored' = stored \cup {Heuristic}
    /\ asking' = [asking EXCEPT ![a] = NoWork]
    /\ UNCHANGED <<versions, active, shownCard, file, memory, training, trainings, fileSettled, trusted>>

CoolDown ==
    /\ circuit = "open" /\ circuit' = "closed"
    /\ UNCHANGED <<versions, active, shownCard, file, memory, training, asking, stored, trainings, fileSettled, trusted>>

ModelNext ==
    \/ \E t \in Trainer :
          \/ BeginTraining(t) \/ NextVersion(t) \/ Deactivate(t) \/ Insert(t) \/ PutCard(t)
          \/ OpenFile(t) \/ WriteFile(t) \/ EndTraining(t) \/ FailTraining(t)
    \/ \E a \in Asking : AskModels(a) \/ LabelScores(a) \/ StoreScores(a) \/ FallBack(a)
    \/ Restart \/ CoolDown

-----------------------------------------------------------------------------
(* A prediction carries the versions of the models that made it, unless a  *)
(* training registered a model since the bundle in memory was read, or what *)
(* was read came of trainings that overlapped or failed; and when the last *)
(* training ran alone to its end, the bundle on disk, the active versions  *)
(* and the cards agree.                                                    *)
HonestLabels ==
    /\ \A p \in stored : p.sure => p.label = p.made
    /\ fileSettled /\ file # NoBundle => file = active /\ file = shownCard
=============================================================================
