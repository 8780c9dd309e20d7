---------------------------- MODULE JourneyEngine ----------------------------
(***************************************************************************)
(* The journey engine of core-api: journey/journey-engine.service.ts with  *)
(* the admin operations of journey-admin.service.ts, over the tables of    *)
(* migration 013.  One journey, its published versions and its             *)
(* participants.                                                           *)
(*                                                                         *)
(* A tick claims the participant that is due first (FOR UPDATE SKIP        *)
(* LOCKED) and moves it by one node in the transaction that holds its row. *)
(* A node that only writes this transaction is one action here.  An action *)
(* node is three: its effect (points, a send) commits on another           *)
(* connection, under the key journey:{participant}:{node}, between the     *)
(* claim and the commit of the step, and the process can die or the effect *)
(* can fail in between.                                                    *)
(***************************************************************************)
EXTENDS Integers, FiniteSets, Sequences, SequencesExt

CONSTANTS
    Occ,            \* members, each at most once a participant (UNIQUE)
    Worker,         \* schedulers and POST /journeys/tick requests
    MaxVersion,     \* bound: how often the journey is published
    Nodes,          \* Nodes[v]: the nodes of version v
    Kind,           \* Kind[v][n]: what n does
    Succ,           \* Succ[v][n]: the nodes its edges lead to
    First           \* First[v]: the node after the entry

MaxAttempts == 3    \* MAX_ATTEMPTS

Version == 1 .. MaxVersion

(* What validateDefinition lets through.  "unfit" is a wait whose          *)
(* delayMinutes is not an integer: make_interval refuses it each time.  A  *)
(* version is acyclic, so its nodes can be numbered along the edges.       *)
ValidDefinition(v) ==
    /\ Nodes[v] \subseteq Nat
    /\ First[v] \in Nodes[v]
    /\ \A n \in Nodes[v] :
        /\ Kind[v][n] \in {"action", "wait", "condition", "exit", "unfit"}
        /\ Succ[v][n] \subseteq {m \in Nodes[v] : n < m}
        /\ Succ[v][n] = {} <=> Kind[v][n] = "exit"

ASSUME JourneyAssumption ==
    /\ MaxVersion \in Nat
    /\ \A v \in Version : ValidDefinition(v)

VARIABLES
    journey,        \* journey.status
    published,      \* journey.published_version; 0 while NULL
    participant,    \* the journey_participant of each member
    due,            \* the active participants that are due, by next_run_at
    step,           \* journey_step_run.status, by participant and node
    given,          \* the nodes whose effect was committed, by participant
    worker          \* the action node each worker is at

vars == <<journey, published, participant, due, step, given, worker>>

Node == UNION {Nodes[v] : v \in Version}
NotEnrolled == [status |-> "none"]
Idle == [at |-> "idle"]
Participant ==
    [status : {"active", "completed", "exited", "failed"}, version : Version,
     node : Node, attempts : 0 .. MaxAttempts - 1]

TypeOK ==
    /\ journey \in {"draft", "active", "paused", "archived"}
    /\ published \in 0 .. MaxVersion
    /\ participant \in [Occ -> Participant \cup {NotEnrolled}]
    /\ ToSet(due) \subseteq {o \in Occ : participant[o].status = "active"}
    /\ Len(due) = Cardinality(ToSet(due))
    /\ step \in [Occ -> [Node -> {"none", "done", "failed"}]]
    /\ given \in [Occ -> SUBSET Node]
    /\ worker \in [Worker -> {Idle} \cup [at : {"claimed", "ok", "error"}, occ : Occ]]

Init ==
    /\ journey = "draft"
    /\ published = 0
    /\ participant = [o \in Occ |-> NotEnrolled]
    /\ due = <<>>
    /\ step = [o \in Occ |-> [n \in Node |-> "none"]]
    /\ given = [o \in Occ |-> {}]
    /\ worker = [w \in Worker |-> Idle]

-----------------------------------------------------------------------------
(* Administration. *)

Publish ==
    /\ published < MaxVersion
    /\ published' = published + 1
    /\ UNCHANGED <<journey, participant, due, step, given, worker>>

ActivateJourney ==
    /\ published > 0
    /\ journey \in {"draft", "paused"}
    /\ journey' = "active"
    /\ UNCHANGED <<published, participant, due, step, given, worker>>

SetStatus(s) ==
    /\ journey' = s
    /\ UNCHANGED <<published, participant, due, step, given, worker>>

(* enroll: INSERT ... ON CONFLICT (journey_id, occ_id) DO NOTHING.  The    *)
(* journey is read (loadActiveDefinition) in a statement before; a pause or *)
(* a publish in between leaves what the enrolment before it would have.    *)
Enroll(o) ==
    /\ journey = "active"
    /\ published > 0
    /\ participant[o] = NotEnrolled
    /\ participant' = [participant EXCEPT ![o] =
          [status |-> "active", version |-> published, node |-> First[published],
           attempts |-> 0]]
    /\ due' = Append(due, o)
    /\ UNCHANGED <<journey, published, step, given, worker>>

-----------------------------------------------------------------------------
(* Mutant: the claim does not lock the row. *)
Unlocked == {}

(* The participants whose row a worker holds. *)
Locked == {worker[w].occ : w \in {x \in Worker : worker[x] # Idle}}

(* The row that a tick claims: ORDER BY next_run_at, SKIP LOCKED. *)
FirstDue(o) ==
    \E i \in DOMAIN due : due[i] = o /\ o \notin Locked
                          /\ \A j \in 1 .. i - 1 : due[j] \in Locked

(* Mutant: the definition of the latest version. *)
DefinitionLatest(o) == published

(* participantDefinition: the version the participant was enrolled with. *)
DefinitionOf(o) == participant[o].version

At(o) == Kind[DefinitionOf(o)][participant[o].node]
Edges(o) == Succ[DefinitionOf(o)][participant[o].node]

(* recordStep and the insert of fail: ON CONFLICT DO NOTHING. *)
StepRecorded(o, status) ==
    [step EXCEPT ![o][participant[o].node] = IF @ = "none" THEN status ELSE @]

(* moveTo and the update of a wait: attempts = 0. *)
MovedTo(o, n) ==
    [participant EXCEPT ![o].node = n, ![o].attempts = 0]

NotDue(o) == Remove(due, o)
DueAgain(o) == Append(NotDue(o), o)

(* A node without an effect of its own.  A statement that fails here aborts *)
(* the transaction, handleActionError with it, and the round of the tick:  *)
(* nothing changes, so an "unfit" node has no action.                      *)
AtExit(w, o) ==
    /\ worker[w] = Idle
    /\ FirstDue(o)
    /\ At(o) = "exit"
    /\ step' = StepRecorded(o, "done")
    /\ participant' = [participant EXCEPT ![o].status = "completed"]
    /\ due' = NotDue(o)
    /\ UNCHANGED <<journey, published, given, worker>>

AtWait(w, o) ==
    /\ worker[w] = Idle
    /\ FirstDue(o)
    /\ At(o) = "wait"
    /\ step' = StepRecorded(o, "done")
    /\ \E n \in Edges(o) : participant' = MovedTo(o, n)
    /\ due' = NotDue(o)
    /\ UNCHANGED <<journey, published, given, worker>>

AtCondition(w, o) ==
    /\ worker[w] = Idle
    /\ FirstDue(o)
    /\ At(o) = "condition"
    /\ step' = StepRecorded(o, "done")
    /\ \E n \in Edges(o) : participant' = MovedTo(o, n)
    /\ due' = DueAgain(o)
    /\ UNCHANGED <<journey, published, given, worker>>

(* An action node: the claim, ... *)
Claim(w, o) ==
    /\ worker[w] = Idle
    /\ FirstDue(o)
    /\ At(o) = "action"
    /\ worker' = [worker EXCEPT ![w] = [at |-> "claimed", occ |-> o]]
    /\ UNCHANGED <<journey, published, participant, due, step, given>>

(* ... runAction, which commits the effect unless its key is already used, *)
(* and whose answer can be lost, ...                                       *)
RunAction(w) ==
    LET o == worker[w].occ IN
    /\ worker[w].at = "claimed"
    /\ \/ /\ given' = [given EXCEPT ![o] = @ \cup {participant[o].node}]
          /\ \E at \in {"ok", "error"} : worker' = [worker EXCEPT ![w].at = at]
       \/ /\ worker' = [worker EXCEPT ![w].at = "error"]
          /\ UNCHANGED given
    /\ UNCHANGED <<journey, published, participant, due, step>>

(* Mutant: an error of the action is not looked at. *)
RecordAnyway(w) ==
    LET o == worker[w].occ IN
    /\ worker[w].at \in {"ok", "error"}
    /\ step' = StepRecorded(o, "done")
    /\ \E n \in Edges(o) : participant' = MovedTo(o, n)
    /\ due' = DueAgain(o)
    /\ worker' = [worker EXCEPT ![w] = Idle]
    /\ UNCHANGED <<journey, published, given>>

(* ... and the step with the move to the next node. *)
RecordStep(w) ==
    LET o == worker[w].occ IN
    /\ worker[w].at = "ok"
    /\ step' = StepRecorded(o, "done")
    /\ \E n \in Edges(o) : participant' = MovedTo(o, n)
    /\ due' = DueAgain(o)
    /\ worker' = [worker EXCEPT ![w] = Idle]
    /\ UNCHANGED <<journey, published, given>>

(* Mutant: the attempts are not counted. *)
HandleForever(w) ==
    LET o == worker[w].occ IN
    /\ worker[w].at = "error"
    /\ due' = NotDue(o)
    /\ worker' = [worker EXCEPT ![w] = Idle]
    /\ UNCHANGED <<journey, published, participant, step, given>>

(* handleActionError: a later attempt after a backoff, or fail.  No code   *)
(* raises a permanent error.                                               *)
HandleActionError(w) ==
    LET o == worker[w].occ IN
    /\ worker[w].at = "error"
    /\ due' = NotDue(o)
    /\ worker' = [worker EXCEPT ![w] = Idle]
    /\ IF participant[o].attempts + 1 < MaxAttempts
       THEN /\ participant' = [participant EXCEPT ![o].attempts = @ + 1]
            /\ UNCHANGED step
       ELSE /\ participant' = [participant EXCEPT ![o].status = "failed"]
            /\ step' = StepRecorded(o, "failed")
    /\ UNCHANGED <<journey, published, given>>

(* The process or its connection dies: the claim rolls back. *)
Crash(w) ==
    /\ worker[w] # Idle
    /\ worker' = [worker EXCEPT ![w] = Idle]
    /\ UNCHANGED <<journey, published, participant, due, step, given>>

(* now() reaches next_run_at. *)
Elapse(o) ==
    /\ participant[o].status = "active"
    /\ o \notin ToSet(due)
    /\ due' = Append(due, o)
    /\ UNCHANGED <<journey, published, participant, step, given, worker>>

(* Both wait for the row while a worker holds it. *)
RetryParticipant(o) ==
    /\ participant[o].status = "failed"
    /\ o \notin Locked
    /\ participant' = [participant EXCEPT ![o].status = "active", ![o].attempts = 0]
    /\ due' = Append(due, o)
    /\ UNCHANGED <<journey, published, step, given, worker>>

ForceExit(o) ==
    /\ participant[o].status \in {"active", "failed"}
    /\ o \notin Locked
    /\ participant' = [participant EXCEPT ![o].status = "exited"]
    /\ due' = NotDue(o)
    /\ UNCHANGED <<journey, published, step, given, worker>>

Advance(w) == \E o \in Occ : AtExit(w, o) \/ AtWait(w, o) \/ AtCondition(w, o) \/ Claim(w, o)

Next ==
    \/ Publish
    \/ ActivateJourney
    \/ \E s \in {"paused", "archived"} : SetStatus(s)
    \/ \E o \in Occ : Enroll(o)
    \/ \E w \in Worker : Advance(w)
    \/ \E w \in Worker : RunAction(w)
    \/ \E w \in Worker : RecordStep(w)
    \/ \E w \in Worker : HandleActionError(w)
    \/ \E w \in Worker : Crash(w)
    \/ \E o \in Occ : Elapse(o)
    \/ \E o \in Occ : RetryParticipant(o)
    \/ \E o \in Occ : ForceExit(o)

Spec == Init /\ [][Next]_vars

WorkerAt(w, o) == worker[w] # Idle /\ worker[w].occ = o
RunsAction(o) == \E w \in Worker : WorkerAt(w, o) /\ RunAction(w)
EndsAction(o) ==
    \E w \in Worker : WorkerAt(w, o) /\ (RecordStep(w) \/ HandleActionError(w))

(* The scheduler ticks for as long as the service is up, the clock runs, and *)
(* the service is not killed each time it is at the action of a participant. *)
LiveSpec ==
    /\ Spec
    /\ \A w \in Worker : WF_vars(Advance(w))
    /\ \A o \in Occ : WF_vars(Elapse(o)) /\ SF_vars(RunsAction(o)) /\ SF_vars(EndsAction(o))
-----------------------------------------------------------------------------
(* Properties. *)

(* A step of an action node is recorded as done only when its effect was   *)
(* committed, and a participant leaves the node for the next one only then: *)
(* no crash, lost answer or retry skips an effect.                         *)
NoEffectSkipped ==
    [][\A o \in Occ :
         (participant[o] # NotEnrolled /\ At(o) = "action" /\ participant'[o].node # participant[o].node)
            => participant[o].node \in given[o]]_vars

(* No effect is committed for a participant that was taken out or has      *)
(* finished: a forced exit waits for the tick that is at work.             *)
NoEffectAfterExit ==
    [][\A o \in Occ : given'[o] # given[o] => participant[o].status = "active"]_vars

(* A participant follows the edges of the version it was enrolled with, to *)
(* the end, however often the journey is published meanwhile.              *)
FollowsItsVersion ==
    [][\A o \in Occ :
         (participant[o] # NotEnrolled /\ participant'[o].node # participant[o].node)
            => participant'[o].node \in Succ[participant[o].version][participant[o].node]]_vars

(* "One broken participant does not bring down the whole round": a         *)
(* participant of a version without unfit nodes ends up completed, exited  *)
(* or failed.                                                              *)
Healthy(o) == \A n \in Nodes[participant[o].version] : Kind[participant[o].version][n] # "unfit"
HealthyParticipantsEnd ==
    \A o \in Occ : (participant[o].status = "active" /\ Healthy(o))
                      ~> participant[o].status # "active"
=============================================================================
