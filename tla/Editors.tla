------------------------------- MODULE Editors -------------------------------
(***************************************************************************)
(* The editors of a pipeline and of a journey in the browsers, against the *)
(* rows the server keeps.  An editor copies the definition it is opened    *)
(* with and never looks again; what it is opened with comes from the       *)
(* browser's query cache; its save and status requests run side by side.   *)
(***************************************************************************)
EXTENDS Naturals, FiniteSets

CONSTANTS
    Browser,
    Draft,       \* definitions
    Fit,         \* those validatePipeline / validateDefinition accept
    Blank,       \* the definition it is created with
    MaxCalls     \* bound on the requests of a behavior

ASSUME EditorAssumption == Fit \subseteq Draft /\ Blank \in Draft /\ MaxCalls \in Nat

VARIABLES
    kind,        \* "pipeline" or "journey"
    stored,      \* the row: [def, status, live]; live: the published version's definition
    cached,      \* per browser: the row as the query cache has it
    fetched,     \* per browser: the GET under way
    screen,      \* per browser: the open editor
    calls,       \* the requests under way
    sent,        \* how many were sent
    undone,      \* some save wrote over an edit its editor had never shown
    trust        \* 2, 1 or 0: what happened since that may explain it

editorVars == <<kind, stored, cached, fetched, screen, calls, sent, undone, trust>>

None == [none |-> TRUE]
Closed == [none |-> TRUE, open |-> FALSE]
Loading == [none |-> TRUE, open |-> TRUE]
IsOpen(b) == screen[b] \notin {Closed, Loading}
Lower(t) == IF t < trust THEN t ELSE trust
Behind(b, row) == row.def # stored.def \/ \E c \in calls : c.by = b
InUse(B) == \E b \in B : screen[b] # Closed \/ \E c \in calls : c.by = b

(* What a screen shows of a row; basis: the definitions it goes back to.   *)
Shows(row) ==
    [shown |-> row.def, status |-> row.status, basis |-> {row.def},
     saving |-> FALSE, asking |-> {}]

(* newPipeline and createJourney: a draft; applyTemplate: an active one.   *)
EditorInit ==
    /\ kind \in {"pipeline", "journey"}
    /\ \/ stored = [def |-> Blank, status |-> "draft", live |-> None]
       \/ kind = "pipeline" /\ \E d \in Fit : stored = [def |-> d, status |-> "active", live |-> None]
    /\ cached = [b \in Browser |-> None]
    /\ fetched = [b \in Browser |-> None]
    /\ screen = [b \in Browser |-> Closed]
    /\ calls = {}
    /\ sent = 0
    /\ undone = FALSE
    /\ trust = 2

Row == [def : Draft, status : {"draft", "active", "paused"}, live : Draft \cup {None}]
EditorTypeOK ==
    /\ stored \in Row
    /\ \A b \in Browser : cached[b] \in Row \cup {None}
    /\ \A c \in calls : c.at \in {"sent", "checked", "done", "refused"}
    /\ sent \in 0 .. MaxCalls

-----------------------------------------------------------------------------
(* The queries: pipeQ and jq. *)

(* A cached row is shown at once, fresh or not; without one, or when the   *)
(* cached one is stale, it is fetched.  An editor that opens on a row which *)
(* is not the one in the database, or beside another browser, may undo what *)
(* it has never shown (trust).                                             *)
Open(b) ==
    /\ screen[b] = Closed
    /\ screen' = [screen EXCEPT ![b] = IF cached[b] = None THEN Loading ELSE Shows(cached[b])]
    /\ fetched' \in IF cached[b] # None THEN {fetched, [fetched EXCEPT ![b] = [at |-> "asked"]]}
                    ELSE {[fetched EXCEPT ![b] = IF @ = None THEN [at |-> "asked"] ELSE @]}
    /\ trust' = IF (cached[b] # None /\ Behind(b, cached[b])) \/ InUse(Browser \ {b}) THEN 0 ELSE trust
    /\ UNCHANGED <<kind, stored, cached, calls, sent, undone>>

(* getPipeline, getJourney.                                                *)
ReadDraft(b) ==
    /\ fetched[b] = [at |-> "asked"]
    /\ fetched' = [fetched EXCEPT ![b] = [at |-> "read", row |-> stored]]
    /\ UNCHANGED <<kind, stored, cached, screen, calls, sent, undone, trust>>

(* The first answer fills a screen that waits for it; a later one only the *)
(* cache (loaded; the state of the canvas is initialised once).            *)
Arrive(b) ==
    /\ fetched[b] # None /\ fetched[b].at = "read"
    /\ cached' = [cached EXCEPT ![b] = fetched[b].row]
    /\ fetched' = [fetched EXCEPT ![b] = None]
    /\ screen' = [screen EXCEPT ![b] = IF @ = Loading THEN Shows(fetched[b].row) ELSE @]
    /\ trust' = IF screen[b] = Loading /\ Behind(b, fetched[b].row) THEN 0 ELSE trust
    /\ UNCHANGED <<kind, stored, calls, sent, undone>>

(* invalidateQueries: the open screen's query is fetched anew.             *)
Refetched(b) ==
    [fetched EXCEPT ![b] = IF screen[b] = Closed THEN @ ELSE [at |-> "asked"]]

Leave(b) ==
    /\ IsOpen(b)
    /\ screen' = [screen EXCEPT ![b] = Closed]
    /\ UNCHANGED <<kind, stored, cached, fetched, calls, sent, undone, trust>>

-----------------------------------------------------------------------------
(* The screens. *)

(* The pipeline editor keeps the status it last heard of itself; the       *)
(* journey's comes with the query.                                         *)
StatusShown(b) == IF kind = "pipeline" THEN screen[b].status ELSE cached[b].status
Editable(b) == StatusShown(b) # "active"

Edit(b, d) ==
    /\ IsOpen(b) /\ Editable(b) /\ screen[b].shown # d
    /\ screen' = [screen EXCEPT ![b].shown = d]
    /\ trust' = IF \E c \in calls : c.by = b THEN Lower(1) ELSE trust
    /\ UNCHANGED <<kind, stored, cached, fetched, calls, sent, undone>>

Call(b, op) == [by |-> b, op |-> op, def |-> screen[b].shown, basis |-> screen[b].basis, at |-> "sent"]
Overlap(b) == \E c \in calls : c.by = b /\ c.op = "save"

(* "Lưu", "Lưu luồng": greyed out while the save is under way.             *)
SendSave(b) ==
    /\ IsOpen(b) /\ Editable(b) /\ ~screen[b].saving /\ sent < MaxCalls
    /\ calls' = calls \cup {Call(b, "save")}
    /\ screen' = [screen EXCEPT ![b].saving = TRUE]
    /\ sent' = sent + 1
    /\ trust' = IF Overlap(b) THEN 0 ELSE trust
    /\ UNCHANGED <<kind, stored, cached, fetched, undone>>

(* "Kích hoạt" of a pipeline: a save and a change of status, at once.      *)
SaveAndActivate(b) ==
    /\ kind = "pipeline" /\ IsOpen(b) /\ Editable(b) /\ "active" \notin screen[b].asking
    /\ sent + 2 <= MaxCalls
    /\ calls' = calls \cup {Call(b, "save"), Call(b, "active")}
    /\ screen' = [screen EXCEPT ![b].saving = TRUE, ![b].asking = @ \cup {"active"}]
    /\ sent' = sent + 2
    /\ trust' = IF Overlap(b) THEN 0 ELSE trust
    /\ UNCHANGED <<kind, stored, cached, fetched, undone>>

(* canPublish, canActivate and the button of an active one.                *)
MaySend(b, op) ==
    CASE op = "paused" -> StatusShown(b) = "active"
      [] op = "publish" -> kind = "journey" /\ Editable(b)
      [] op = "activate" -> kind = "journey" /\ Editable(b) /\ cached[b].live # None
SendStatus(b, op) ==
    /\ IsOpen(b) /\ op \notin screen[b].asking /\ sent < MaxCalls
    /\ MaySend(b, op)
    /\ calls' = calls \cup {Call(b, op)}
    /\ screen' = [screen EXCEPT ![b].asking = @ \cup {op}]
    /\ sent' = sent + 1
    /\ UNCHANGED <<kind, stored, cached, fetched, undone, trust>>

-----------------------------------------------------------------------------
(* The server. *)

Become(c, at) == calls' = (calls \ {c}) \cup {[c EXCEPT !.at = at]}

(* Mutant: the definition is written as it comes.                          *)
AcceptsAny(c) == kind = "pipeline" \/ stored.status # "active"

(* savePipeline validates, whatever the status; saveDraft takes any draft, *)
(* of a journey that is not active.                                        *)
Accepts(c) == IF kind = "pipeline" THEN c.def \in Fit ELSE stored.status # "active"

(* A save undoes an edit if what it replaces is neither what its editor    *)
(* goes back to nor what it saves.                                         *)
Save(c) ==
    /\ c.op = "save" /\ c.at = "sent" /\ Accepts(c)
    /\ stored' = [stored EXCEPT !.def = c.def]
    /\ undone' = (undone \/ (trust > 0 /\ stored.def \notin c.basis \cup {c.def}))
    /\ Become(c, "done")
    /\ UNCHANGED trust

(* setPipelineStatus reads and validates, and updates in another statement; *)
(* publish does both under the lock of the row.                            *)
Check(c) ==
    /\ c.op = "active" /\ c.at = "sent" /\ stored.def \in Fit
    /\ Become(c, "checked")
    /\ UNCHANGED <<stored, undone, trust>>
SetStatus(c) ==
    /\ \/ c.op = "active" /\ c.at = "checked" /\ stored' = [stored EXCEPT !.status = "active"]
       \/ c.op = "paused" /\ c.at = "sent" /\ stored' = [stored EXCEPT !.status = "paused"]
       \/ /\ c.op = "activate" /\ c.at = "sent"
          /\ stored.live # None /\ stored.status # "active"
          /\ stored' = [stored EXCEPT !.status = "active"]
    /\ Become(c, "done")
    /\ UNCHANGED <<undone, trust>>
Publish(c) ==
    /\ c.op = "publish" /\ c.at = "sent" /\ stored.def \in Fit
    /\ stored' = [stored EXCEPT !.live = stored.def]
    /\ Become(c, "done")
    /\ UNCHANGED <<undone, trust>>
RefuseSave(c) ==
    /\ c.at = "sent"
    /\ \/ c.op = "save" /\ ~Accepts(c)
       \/ c.op \in {"active", "publish"} /\ stored.def \notin Fit
       \/ c.op = "activate" /\ (stored.live = None \/ stored.status = "active")
    /\ Become(c, "refused")
    /\ trust' = Lower(1)
    /\ UNCHANGED <<stored, undone>>

(* The answer.  A journey's screen invalidates its query; the pipeline's   *)
(* only takes note of the status.  The editor goes back to what it saved.  *)
AfterSuccess(b, c) ==
    /\ screen' = [screen EXCEPT ![b] =
          IF ~IsOpen(b) THEN @
          ELSE [@ EXCEPT !.saving = @ /\ c.op # "save",
                         !.asking = @ \ {c.op},
                         !.basis = IF c.op = "save" THEN @ \cup {c.def} ELSE @,
                         !.status = IF c.op \in {"active", "paused"} THEN c.op ELSE @]]
    /\ fetched' = IF kind = "journey" THEN Refetched(b) ELSE fetched
AnswerCall(c) ==
    /\ c.at = "done"
    /\ AfterSuccess(c.by, c)
    /\ calls' = calls \ {c}
    /\ UNCHANGED <<kind, stored, cached, sent, undone, trust>>

(* An error, or an answer that is lost: a message is shown.                *)
Fail(c) ==
    /\ c.at \in {"done", "refused"}
    /\ calls' = calls \ {c}
    /\ screen' = [screen EXCEPT ![c.by] =
          IF ~IsOpen(c.by) THEN @
          ELSE [@ EXCEPT !.saving = @ /\ c.op # "save", !.asking = @ \ {c.op}]]
    /\ trust' = IF c.at = "done" THEN 0 ELSE trust
    /\ UNCHANGED <<kind, stored, cached, fetched, sent, undone>>

Serve(c) ==
    /\ Save(c) \/ Check(c) \/ SetStatus(c) \/ Publish(c) \/ RefuseSave(c)
    /\ UNCHANGED <<kind, cached, fetched, screen, sent>>

EditorNext ==
    \/ \E b \in Browser :
          \/ Open(b) \/ ReadDraft(b) \/ Arrive(b) \/ Leave(b) \/ SendSave(b) \/ SaveAndActivate(b)
          \/ \E d \in Draft : Edit(b, d)
          \/ \E op \in {"paused", "publish", "activate"} : SendStatus(b, op)
    \/ \E c \in calls : Serve(c) \/ AnswerCall(c) \/ Fail(c)

-----------------------------------------------------------------------------
(* Only a definition the server accepts runs: that of a pipeline that is   *)
(* active, although its status and its definition are checked in separate  *)
(* statements and saved in any order; the version a journey follows.       *)
RunsOnlyFit ==
    /\ kind = "pipeline" /\ stored.status = "active" => stored.def \in Fit
    /\ kind = "journey" => stored.live \in Fit \cup {None} /\ (stored.status = "active" => stored.live # None)

(* An edit that was saved is undone by a save that knew nothing of it only *)
(* after an editor was opened on a cached row, with two saves of a screen  *)
(* under way, a lost answer, or by another browser; and while nothing is   *)
(* under way and nothing of that kind came in between, nor a refusal, nor  *)
(* an edit made while a request was under way, what is active is what the  *)
(* editor of the browser shows.                                            *)
EditsKept ==
    /\ ~undone
    /\ \A b \in Browser :
          (/\ kind = "pipeline" /\ trust = 2 /\ calls = {}
           /\ IsOpen(b) /\ StatusShown(b) = "active") => screen[b].shown = stored.def

(* Both of the above.                                                      *)
EditorsAgree == RunsOnlyFit /\ EditsKept
=============================================================================
