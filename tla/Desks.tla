-------------------------------- MODULE Desks --------------------------------
(***************************************************************************)
(* The desks of the console: screens that call the server from their event *)
(* handlers and keep the answers in their own state, one desk in a         *)
(* behavior.  Loyalty and consent: a member is typed or picked, looked up, *)
(* and written to.  Audience: criteria are set or picked, previewed, and   *)
(* the list is activated.  Customer: a customer is looked up, and what     *)
(* belongs to the profile is asked for piece by piece.                     *)
(***************************************************************************)
EXTENDS Naturals

CONSTANTS
    Subject,     \* members, or criteria of an audience
    MaxTurns     \* bound on what the user asks for

ASSUME DeskAssumption == MaxTurns \in Nat

VARIABLES
    desk,
    field,     \* the subject in the input
    loaded,    \* consent: the member the states were loaded for
    shown,     \* the subject of the data on the screen
    busy,      \* the flag that greys the buttons out; customer: the skeleton
    pending,   \* requests under way: [op, of, turn]
    turn,      \* how often the user has asked; customer: reqId
    details,   \* customer: whose data each piece is
    apart,     \* the input was changed since its subject was last asked for, or that failed
    overtaken  \* a request was made while another was under way

deskVars == <<desk, field, loaded, shown, busy, pending, turn, details, apart, overtaken>>

NoSubject == "nobody"
Pieces == <<"analytics", "recs", "feature", "nba">>
Empty == [p \in {"analytics", "recs", "feature", "nba", "explain"} |-> NoSubject]

DeskInit ==
    /\ desk \in {"loyalty", "consent", "audience", "customer"}
    /\ field = NoSubject /\ loaded = NoSubject /\ shown = NoSubject
    /\ busy = FALSE
    /\ pending = {} /\ turn = 0
    /\ details = Empty
    /\ apart = FALSE /\ overtaken = FALSE

DeskTypeOK ==
    /\ {field, loaded, shown} \subseteq Subject \cup {NoSubject}
    /\ \A a \in pending : a.of \in Subject /\ a.turn \in 1 .. turn
    /\ turn \in 0 .. MaxTurns
    /\ \A p \in DOMAIN details : details[p] \in Subject \cup {NoSubject}

(* A request of the user's, and what a handler asks for next.              *)
AskServer(op, of) ==
    /\ turn < MaxTurns
    /\ turn' = turn + 1
    /\ pending' = pending \cup {[op |-> op, of |-> of, turn |-> turn + 1]}
Ended(a) == pending' = pending \ {a} /\ UNCHANGED turn
Then(a, op) == pending' = (pending \ {a}) \cup {[a EXCEPT !.op = op]} /\ UNCHANGED turn

(* Data asked for what the input holds, alone, settle what came before.    *)
Settles(others, of) ==
    /\ apart' = (apart /\ of # field')
    /\ overtaken' = (others # {} \/ (overtaken /\ of # field'))

-----------------------------------------------------------------------------
(* The handlers. *)

(* The input is never greyed out, nor are the list of members and the      *)
(* suggested segments, which ask at once (openMember, applySmart).         *)
Type(o) ==
    /\ desk # "customer" /\ o # field
    /\ field' = o /\ apart' = TRUE
    /\ UNCHANGED <<desk, loaded, shown, busy, pending, turn, details, overtaken>>
Pick(o) ==
    /\ desk \in {"loyalty", "audience"}
    /\ field' = o
    /\ AskServer("load", o)
    /\ busy' = TRUE
    /\ Settles(pending, o)
    /\ UNCHANGED <<desk, loaded, shown, details>>

(* loadBalance, load, previewSegment.                                      *)
Load ==
    /\ desk # "customer" /\ field # NoSubject /\ ~busy
    /\ AskServer("load", field)
    /\ busy' = TRUE
    /\ UNCHANGED field
    /\ Settles(pending, field)
    /\ UNCHANGED <<desk, loaded, shown, details>>

(* findLookalike adds to the list it finds.                                *)
Extend ==
    /\ desk = "audience" /\ shown # NoSubject /\ ~busy
    /\ AskServer("load", shown)
    /\ busy' = TRUE
    /\ overtaken' = (overtaken \/ pending # {})
    /\ UNCHANGED <<desk, field, loaded, shown, details, apart>>

(* doEarn, doReserve, settle go by the input; setConsent by the member that *)
(* was loaded; run takes the list on the screen.                           *)
Target == IF desk = "consent" THEN loaded ELSE field
MayWrite == desk # "customer" /\ shown # NoSubject /\ Target # NoSubject /\ ~busy
Write ==
    /\ MayWrite
    /\ AskServer("write", Target)
    /\ busy' = TRUE
    /\ overtaken' = (overtaken \/ pending # {})
    /\ UNCHANGED <<desk, field, loaded, shown, details, apart>>

(* A lookup, greyed out while one shows its skeleton; back to the list;    *)
(* an explanation of the features on the screen, one at a time.            *)
LookUpCustomer(o) ==
    /\ desk = "customer" /\ ~busy
    /\ AskServer("load", o)
    /\ busy' = TRUE /\ shown' = NoSubject /\ details' = Empty
    /\ overtaken' = (\E a \in pending : a.op = "explain")
    /\ UNCHANGED <<desk, field, loaded, apart>>
BackToList ==
    /\ desk = "customer" /\ shown # NoSubject
    /\ shown' = NoSubject
    /\ UNCHANGED <<desk, field, loaded, busy, pending, turn, details, apart, overtaken>>
Explain ==
    /\ desk = "customer" /\ shown # NoSubject /\ details["feature"] # NoSubject
    /\ \A a \in pending : a.op # "explain"
    /\ pending' = pending \cup {[op |-> "explain", of |-> details["feature"], turn |-> turn]}
    /\ UNCHANGED <<desk, field, loaded, shown, busy, turn, details, apart, overtaken>>

-----------------------------------------------------------------------------
(* The answers. *)

(* Balance, consent states, list: whatever they were asked for is shown.   *)
ShowLoaded(a) ==
    /\ desk # "customer" /\ a.op \in {"load", "reload"}
    /\ shown' = a.of
    /\ loaded' = IF desk = "consent" /\ a.op = "load" THEN a.of ELSE loaded
    /\ busy' = FALSE
    /\ Ended(a)
    /\ UNCHANGED <<desk, field, details, apart, overtaken>>

(* A write is followed by the data of the member it was made for (the      *)
(* handler still has the input of its click); a run of an audience is not. *)
Written(a) ==
    /\ desk # "customer" /\ a.op = "write"
    /\ IF desk = "audience"
       THEN busy' = FALSE /\ Ended(a) /\ UNCHANGED <<field, apart, overtaken>>
       ELSE /\ Then(a, "reload")
            /\ busy' = TRUE
            /\ UNCHANGED field
            /\ Settles(pending \ {a}, a.of)
    /\ UNCHANGED <<desk, loaded, shown, details>>

(* An error, or an answer lost: the lookup that fails takes what is shown  *)
(* away (setBalance(null), setStates(null)); the list of an audience stays *)
(* beside the criteria that were asked for.                                *)
Failed(a) ==
    /\ desk # "customer"
    /\ busy' = FALSE
    /\ Ended(a)
    /\ shown' = IF \/ desk = "loyalty" /\ a.op # "write"
                   \/ desk = "consent" /\ a.op = "load" THEN NoSubject ELSE shown
    /\ apart' = (apart \/ (desk = "audience" /\ a.op = "load"))
    /\ UNCHANGED <<desk, field, loaded, details, overtaken>>

(* Mutant: every answer is taken for the customer on the screen.           *)
CurrentAlways(a) == a.turn <= turn

(* myReq === reqId.current                                                 *)
Current(a) == a.turn = turn

(* The customer, or none; then one piece after the other, even if they are *)
(* no longer wanted: those are dropped when they come.                     *)
CustomerCame(a) ==
    /\ desk = "customer" /\ a.op = "load"
    /\ IF Current(a)
       THEN shown' = a.of /\ busy' = FALSE /\ Then(a, Pieces[1])
       ELSE Ended(a) /\ UNCHANGED <<shown, busy>>
    /\ UNCHANGED <<desk, field, loaded, details, apart, overtaken>>
NoCustomer(a) ==
    /\ desk = "customer" /\ a.op = "load"
    /\ busy' = (busy /\ ~Current(a))
    /\ Ended(a)
    /\ UNCHANGED <<desk, field, loaded, shown, details, apart, overtaken>>
PieceEnds(i, a) ==
    /\ desk = "customer" /\ a.op = Pieces[i]
    /\ details' \in {details, IF Current(a) THEN [details EXCEPT ![a.op] = a.of] ELSE details}
    /\ IF i = 4 THEN Ended(a) ELSE Then(a, Pieces[i + 1])
    /\ UNCHANGED <<desk, field, loaded, shown, busy, apart, overtaken>>
Explained(a) ==
    /\ desk = "customer" /\ a.op = "explain"
    /\ details' \in {details, [details EXCEPT !["explain"] = a.of]}
    /\ Ended(a)
    /\ UNCHANGED <<desk, field, loaded, shown, busy, apart, overtaken>>

DeskNext ==
    \/ Load \/ Extend \/ Write \/ BackToList \/ Explain
    \/ \E o \in Subject : Type(o) \/ Pick(o) \/ LookUpCustomer(o)
    \/ \E a \in pending :
          \/ ShowLoaded(a) \/ Written(a) \/ Failed(a)
          \/ CustomerCame(a) \/ NoCustomer(a) \/ Explained(a)
          \/ \E i \in 1 .. 4 : PieceEnds(i, a)

-----------------------------------------------------------------------------
(* What is written is written for the subject whose data are on the screen: *)
(* always at the consent desk; at the others unless the input was changed  *)
(* since, its lookup failed, or a request was made during another.  And the  *)
(* pieces of a customer's profile are all of that customer, in whatever    *)
(* order the answers come, but for an explanation that was asked for       *)
(* before another customer was looked up.                                  *)
ShownTogether ==
    /\ MayWrite => Target = shown \/ (desk # "consent" /\ (apart \/ overtaken))
    /\ \A p \in DOMAIN details :
          shown # NoSubject /\ details[p] # NoSubject =>
              details[p] = shown \/ (p = "explain" /\ overtaken)
=============================================================================
