------------------------------- MODULE Intake -------------------------------
(***************************************************************************)
(* How purchases come in: the ingestion call of a till, the token webhook  *)
(* and the write key of a connector, and the notification of a payment     *)
(* gateway.  Every one of them is sent again until its sender is told to   *)
(* stop, and all of them end in ingestOrderCompleted.  The resolve inside  *)
(* it is atomic here; IdentityResolve has its steps.                       *)
(***************************************************************************)
EXTENDS Naturals, FiniteSets

CONSTANTS
    Sending,     \* requests that senders repeat until they are answered
    Contact,     \* strong identifiers, 1..n: a member is its first one
    What,        \* per sending: [message, idents, via, sound]
    MaxFailures  \* bound on crashes and on inserts of events that fail

Via == {"ingest", "webhook", "track", "vnpay", "zalopay", "momo"}
Gateways == {"vnpay", "zalopay", "momo"}
Soundness == {"good", "unsigned", "unreferenced", "unpaid", "odd_amount", "unreadable"}
ASSUME IntakeAssumption ==
    \A s \in Sending : What[s].via \in Via /\ What[s].sound \in Soundness /\ What[s].idents \subseteq Contact

Nobody == 0
Message == {What[s].message : s \in Sending}

VARIABLES
    step,      \* where the present attempt of a sending is
    found,     \* what its transaction will answer with
    owner,     \* identity_edge: the member of an identifier
    bought,    \* canonical_transaction: the buyer of a message, if stored
    events,    \* connector_event: [of, status]
    told,      \* the answer that ended a sending
    enrolled,  \* sendings whose purchase triggered the event journeys
    failures

intakeVars == <<step, found, owner, bought, events, told, enrolled, failures>>

Absent == [stored |-> FALSE, occ |-> Nobody]
Stored(o) == [stored |-> TRUE, occ |-> o]
NoAnswer == [word |-> "none", occ |-> Nobody]

IntakeInit ==
    /\ step = [s \in Sending |-> "waiting"]
    /\ found = [s \in Sending |-> NoAnswer]
    /\ owner = [i \in Contact |-> Nobody]
    /\ bought = [x \in Message |-> Absent]
    /\ events = {}
    /\ told = [s \in Sending |-> NoAnswer]
    /\ enrolled = {}
    /\ failures = 0

Event(s, status) == [of |-> s, status |-> status]

(* The order of the checks of a notification, and the one check of an      *)
(* order: an identifier that is readable, if any was sent.                 *)
Verdict(s) ==
    CASE What[s].sound = "unsigned"     -> "bad_checksum"
      [] What[s].sound = "unreferenced" -> "no_txnref"
      [] What[s].sound = "unpaid"       -> "not_success"
      [] What[s].sound = "odd_amount"   -> "bad_amount"
      [] What[s].sound = "unreadable"   -> "invalid"
      [] OTHER                          -> "ok"

(* What a verdict makes of the sender: a code it takes for the end, or one *)
(* after which it sends again.                                             *)
AckFor(via, verdict) ==
    CASE verdict = "invalid" -> "refused"
      [] via \notin Gateways -> "done"
      [] verdict = "bad_checksum" -> "refused"
      [] via = "zalopay" -> IF verdict \in {"ingested", "idempotent"} THEN "done" ELSE "again"
      [] via = "vnpay" -> IF verdict \in {"no_txnref", "bad_amount"} THEN "refused" ELSE "done"
      [] OTHER -> "done"

EndWith(s, verdict, occ) ==
    LET ack == AckFor(What[s].via, verdict)
    IN  /\ step' = [step EXCEPT ![s] = IF ack = "again" THEN "waiting" ELSE "over"]
        /\ told' = IF ack = "again" THEN told ELSE [told EXCEPT ![s] = [word |-> verdict, occ |-> occ]]

(* An attempt that is not sound is refused with a rejected event.  (One    *)
(* that a limiter or a paused connection turns away has not arrived.)      *)
Refuse(s) ==
    /\ step[s] = "waiting" /\ Verdict(s) # "ok"
    /\ EndWith(s, Verdict(s), Nobody)
    /\ events' = IF What[s].via = "ingest" THEN events ELSE events \cup {Event(s, "rejected")}
    /\ UNCHANGED <<found, owner, bought, enrolled, failures>>

(* Mutant: a notification is acknowledged before it is ingested.           *)
LookUpAcknowledging(s) ==
    /\ step[s] = "waiting" /\ Verdict(s) = "ok"
    /\ EndWith(s, "ingested", Nobody)
    /\ UNCHANGED <<found, owner, bought, events, enrolled, failures>>

(* A sound one looks for its message under a row lock.                     *)
LookUp(s) ==
    /\ step[s] = "waiting" /\ Verdict(s) = "ok"
    /\ LET row == bought[What[s].message]
       IN  IF row.stored
           THEN /\ found' = [found EXCEPT ![s] = [word |-> "idempotent", occ |-> row.occ]]
                /\ step' = [step EXCEPT ![s] = "kept"]
           ELSE /\ step' = [step EXCEPT ![s] = "absent"]
                /\ UNCHANGED found
    /\ UNCHANGED <<owner, bought, events, told, enrolled, failures>>

(* resolveOccIdTx of the identifiers: the members they have become one,    *)
(* the eldest, and with them their identifiers and purchases.              *)
MembersOf(asked) == {owner[i] : i \in asked} \ {Nobody}
Eldest(asked) ==
    LET known == IF MembersOf(asked) = {} THEN asked ELSE MembersOf(asked)
    IN  IF asked = {} THEN Nobody ELSE CHOOSE o \in known : \A p \in known : o <= p
Merged(o, asked) == IF o \in MembersOf(asked) THEN Eldest(asked) ELSE o

(* winner.occ_id ?? occId.                                                 *)
AnswerOfWinner(row, own) ==
    [word |-> "idempotent", occ |-> IF row.occ = Nobody THEN own ELSE row.occ]

(* Resolve, insert and commit.  An insert that meets an uncommitted one of *)
(* its key waits for it, so the commit is the moment that counts.          *)
Store(s) ==
    LET x == What[s].message
        asked == What[s].idents
        own == Eldest(asked)
        moved == [y \in Message |-> [bought[y] EXCEPT !.occ = Merged(@, asked)]]
    IN  /\ step[s] = "absent"
        /\ owner' = [i \in Contact |-> IF i \in asked THEN own ELSE Merged(owner[i], asked)]
        /\ IF bought[x].stored
           THEN /\ bought' = moved
                /\ found' = [found EXCEPT ![s] = AnswerOfWinner(moved[x], own)]
           ELSE /\ bought' = [moved EXCEPT ![x] = Stored(own)]
                /\ found' = [found EXCEPT ![s] = [word |-> "ingested", occ |-> own]]
        /\ step' = [step EXCEPT ![s] = "kept"]
        /\ UNCHANGED <<events, told, enrolled, failures>>

(* enrolEventJourneys of a purchase that is new and has a buyer.           *)
Triggers(s) ==
    What[s].via = "ingest" /\ found[s].word = "ingested" /\ found[s].occ # Nobody

(* After the commit: the connector records the event, the till's call      *)
(* starts the journeys and the projection and waits for neither.           *)
Answer(s) ==
    /\ step[s] = "kept"
    /\ EndWith(s, found[s].word, found[s].occ)
    /\ events' = IF What[s].via = "ingest" THEN events ELSE events \cup {Event(s, "ingested")}
    /\ enrolled' = IF Triggers(s) THEN enrolled \cup {<<s, What[s].message>>} ELSE enrolled
    /\ UNCHANGED <<found, owner, bought, failures>>

(* The insert of the event fails after the purchase was committed: the     *)
(* webhook then records a rejection, if it can; the sender tries again.    *)
RecordFails(s) ==
    /\ step[s] = "kept" /\ What[s].via # "ingest" /\ failures < MaxFailures
    /\ \/ UNCHANGED events
       \/ What[s].via \notin Gateways /\ events' = events \cup {Event(s, "rejected")}
    /\ step' = [step EXCEPT ![s] = "waiting"]
    /\ failures' = failures + 1
    /\ UNCHANGED <<found, owner, bought, told, enrolled>>

(* The process dies, or the answer is lost: an open transaction is rolled  *)
(* back, a committed one stays, and the sender tries again.                *)
Dies(s) ==
    /\ step[s] \in {"absent", "kept"} /\ failures < MaxFailures
    /\ step' = [step EXCEPT ![s] = "waiting"]
    /\ failures' = failures + 1
    /\ UNCHANGED <<found, owner, bought, events, told, enrolled>>

Handle(s) == Refuse(s) \/ LookUp(s) \/ Store(s) \/ Answer(s)

IntakeNext == \E s \in Sending : Handle(s) \/ RecordFails(s) \/ Dies(s)

IntakeSpec == IntakeInit /\ [][IntakeNext]_intakeVars

Word == {"none", "ingested", "idempotent", "bad_checksum", "no_txnref", "not_success",
         "bad_amount", "invalid"}
Buyer == Contact \cup {Nobody}

IntakeTypeOK ==
    /\ step \in [Sending -> {"waiting", "absent", "kept", "over"}]
    /\ found \in [Sending -> [word : Word, occ : Buyer]]
    /\ owner \in [Contact -> Buyer]
    /\ bought \in [Message -> [stored : BOOLEAN, occ : Buyer]]
    /\ events \subseteq [of : Sending, status : {"ingested", "rejected"}]
    /\ told \in [Sending -> [word : Word, occ : Buyer]]
    /\ enrolled \subseteq (Sending \X Message)
    /\ failures \in 0..MaxFailures

(* A sender that stops sending something sound is right to: the purchase   *)
(* is stored.  A gateway reads that from a code of its own.                *)
DoneMeansStored ==
    \A s \in Sending :
      step[s] = "over" /\ What[s].sound = "good" => bought[What[s].message].stored

(* Whoever won the race of two sendings of a message, a stored buyer and   *)
(* every answer that names one mean the same member once the merges of the *)
(* meantime are followed.                                                  *)
AnswersAgree ==
    \A s \in Sending :
      LET row == bought[What[s].message]
      IN  told[s].occ # Nobody /\ row.occ # Nobody => owner[told[s].occ] = row.occ

(* However often a purchase is sent, it starts the journeys once.          *)
TriggersOnce ==
    \A a, b \in enrolled : a[2] = b[2] => a = b

(* One sale per message: stored before anyone is told so, answered alike   *)
(* to all who sent it, and followed up once.                               *)
OneSalePerMessage == DoneMeansStored /\ AnswersAgree /\ TriggersOnce
=============================================================================
