------------------------------ MODULE Assistant ------------------------------
(***************************************************************************)
(* The generative assistant: every request makes one or two calls of the   *)
(* LLM gateway, which reads the configuration, counts the calls its caller *)
(* made today, calls the provider and records the usage, each on a         *)
(* connection of its own.                                                  *)
(***************************************************************************)
EXTENDS Integers, FiniteSets

CONSTANTS
    Slot,       \* requests that can be under way at the same time
    Principal,  \* users and keys that are counted
    Anonymous,  \* a call without principalId
    Cap,        \* LLM_DAILY_CALL_CAP; 0: no cap
    MaxCharged  \* bound on the calls of a principal per day

ASSUME AssistantAssumption ==
    /\ IsFiniteSet(Slot) /\ Cap \in Nat /\ MaxCharged \in Nat /\ Anonymous \notin Principal

VARIABLES
    enabled,    \* ai_config features.assistant
    request,    \* per slot: what is asked, by whom, the calls left, where it stands
    recorded,   \* ai_llm_usage: the rows of the present day per principal
    charged,    \* calls a provider answered today
    unrecorded  \* of these, the calls whose row could not be written

assistantVars == <<enabled, request, recorded, charged, unrecorded>>

(* content and explain go like ask, the questions about data like segment. *)
Kind == {"ask", "segment", "narrative", "copilot"}
Standing == {"idle", "config", "count", "calling", "answered", "done", "refused", "template"}
NoRequest == [kind |-> "ask", by |-> Anonymous, left |-> 0, at |-> "idle"]

AssistantInit ==
    /\ enabled = TRUE
    /\ request = [r \in Slot |-> NoRequest]
    /\ recorded = [p \in Principal |-> 0]
    /\ charged = [p \in Principal |-> 0]
    /\ unrecorded = [p \in Principal |-> 0]

AssistantTypeOK ==
    /\ enabled \in BOOLEAN
    /\ request \in [Slot -> [kind : Kind, by : Principal \cup {Anonymous}, left : Int, at : Standing]]
    /\ recorded \in [Principal -> Nat] /\ charged \in [Principal -> Nat]
    /\ unrecorded \in [Principal -> Nat]

-----------------------------------------------------------------------------
To(r, standing) == request' = [request EXCEPT ![r].at = standing]

(* One more for whoever is counted.                                        *)
OneMore(count, r) ==
    [p \in Principal |-> IF p = request[r].by THEN count[p] + 1 ELSE count[p]]

(* The copilot asks for a segment and then for a text; the others call the *)
(* gateway once.                                                           *)
Calls(kind) == IF kind = "copilot" THEN 2 ELSE 1

AskAssistant(r, kind, p) ==
    /\ request[r].at \in {"idle", "done", "refused", "template"}
    /\ request' = [request EXCEPT ![r] = [kind |-> kind, by |-> p, left |-> Calls(kind), at |-> "config"]]
    /\ UNCHANGED <<enabled, recorded, charged, unrecorded>>

(* The call is over; the copilot goes on with its next one.                *)
AfterCall(r, standing) ==
    request' = [request EXCEPT ![r].left = @ - 1,
                               ![r].at = IF request[r].left > 1 THEN "config" ELSE standing]

(* A call that failed: the copilot notes it and goes on, and in the end    *)
(* proposes a journey all the same; the narrative falls back to its        *)
(* template when the assistant is off or the provider not to be had, not   *)
(* when the cap is reached; the others fail.                               *)
Failing(r, why) ==
    AfterCall(r, CASE request[r].kind = "copilot" -> "done"
                   [] request[r].kind = "narrative" /\ why = "unavailable" -> "template"
                   [] OTHER -> "refused")

(* getConfig; an assistant that is off ends the call.                      *)
ReadSwitch(r) ==
    /\ request[r].at = "config"
    /\ IF enabled THEN To(r, "count") ELSE Failing(r, "unavailable")
    /\ UNCHANGED <<enabled, recorded, charged, unrecorded>>

Counted(r) == request[r].by \in Principal /\ Cap > 0

(* Mutant: one call too many.                                              *)
ExhaustedBeyond(r) == Counted(r) /\ recorded[request[r].by] > Cap

(* used >= dailyCap.                                                       *)
Exhausted(r) == Counted(r) /\ recorded[request[r].by] >= Cap

(* The rows of today are counted, and the provider is called unless there  *)
(* are too many.                                                           *)
CountUsage(r) ==
    /\ request[r].at = "count"
    /\ IF Exhausted(r) THEN Failing(r, "cap") ELSE To(r, "calling")
    /\ UNCHANGED <<enabled, recorded, charged, unrecorded>>

ProviderAnswers(r) ==
    /\ request[r].at = "calling"
    /\ \A p \in Principal : request[r].by = p => charged[p] < MaxCharged
    /\ To(r, "answered")
    /\ charged' = OneMore(charged, r)
    /\ UNCHANGED <<enabled, recorded, unrecorded>>

(* No key, no network, a timeout or an error of the provider.              *)
ProviderFails(r) ==
    /\ request[r].at = "calling"
    /\ \E why \in {"unavailable", "error"} : Failing(r, why)
    /\ UNCHANGED <<enabled, recorded, charged, unrecorded>>

(* What the model said must be a segment or a plan in JSON.                *)
MayBeUnreadable(kind) == kind \in {"segment", "copilot"}

(* The row is written, whatever the answer is then good for.               *)
RecordUsage(r) ==
    /\ request[r].at = "answered"
    /\ recorded' = OneMore(recorded, r)
    /\ \/ AfterCall(r, "done")
       \/ MayBeUnreadable(request[r].kind) /\ Failing(r, "unreadable")
    /\ UNCHANGED <<enabled, charged, unrecorded>>

RecordFails(r) ==
    /\ request[r].at = "answered"
    /\ unrecorded' = OneMore(unrecorded, r)
    /\ Failing(r, "error")
    /\ UNCHANGED <<enabled, recorded, charged>>

Switch ==
    /\ enabled' = ~enabled
    /\ UNCHANGED <<request, recorded, charged, unrecorded>>

(* date_trunc('day', now()): the rows of yesterday count no more.          *)
NewDay ==
    /\ recorded' = [p \in Principal |-> 0]
    /\ charged' = [p \in Principal |-> 0]
    /\ unrecorded' = [p \in Principal |-> 0]
    /\ UNCHANGED <<enabled, request>>

AssistantNext ==
    \/ \E r \in Slot :
          \/ \E kind \in Kind, p \in Principal \cup {Anonymous} : AskAssistant(r, kind, p)
          \/ ReadSwitch(r) \/ CountUsage(r)
          \/ ProviderAnswers(r) \/ ProviderFails(r)
          \/ RecordUsage(r) \/ RecordFails(r)
    \/ Switch
    \/ NewDay

AssistantSpec == AssistantInit /\ [][AssistantNext]_assistantVars

-----------------------------------------------------------------------------
(* The cap is checked before the call and the row written after it, so it  *)
(* can be exceeded; but on no day by more than one call for every other    *)
(* request that is under way, and by the calls that could not be recorded, *)
(* even around midnight.                                                   *)
CapIsKept ==
    Cap > 0 => \A p \in Principal : charged[p] <= Cap + Cardinality(Slot) - 1 + unrecorded[p]
=============================================================================
