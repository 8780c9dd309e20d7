------------------------------- MODULE Reports -------------------------------
(***************************************************************************)
(* The reports over purchases and journeys: cohorts, attribution, the      *)
(* report of one journey and the analytics of one customer.  Each is put   *)
(* together from several queries without a snapshot, while purchases,      *)
(* enrolments and merges go on.  Rounding is left out; revenue per journey *)
(* is kept in units of 1/Scale.                                            *)
(***************************************************************************)
EXTENDS Naturals, FiniteSets, FiniteSetsExt

CONSTANTS
    Buyer,              \* members; the elder has the smaller number
    Order,              \* order_completed events
    OrderTotal,         \* the total of each order
    Journey,
    AttributionWindow,  \* windowDays, in months
    LastMonth           \* bound on the clock

VARIABLES
    month,          \* the present month
    boughtBy,       \* canonical_transaction.occ_id, or NoBuyer
    boughtAt,       \* canonical_transaction.occ_timestamp
    enrolled,       \* journey_participant: the month of enrolment, or Never
    merged,         \* members merged into another one
    report,         \* the report under way, or the one just made
    disturbed       \* a table was written since that report began

reportVars == <<month, boughtBy, boughtAt, enrolled, merged, report, disturbed>>
tables == <<month, boughtBy, boughtAt, enrolled, merged>>

NoBuyer == 0
Never == 0
Month == 1 .. LastMonth
NoReport == [kind |-> "none", at |-> "done"]
Query == {"summary", "monthly"}
Touch == {"first", "last", "linear"}

ReportInit ==
    /\ month = 1 /\ merged = {}
    /\ boughtBy = [o \in Order |-> NoBuyer]
    /\ boughtAt = [o \in Order |-> Never]
    /\ enrolled = [j \in Journey |-> [b \in Buyer |-> Never]]
    /\ report = NoReport /\ disturbed = FALSE

ReportTypeOK ==
    /\ month \in Month /\ merged \subseteq Buyer
    /\ boughtBy \in [Order -> Buyer \cup {NoBuyer}]
    /\ boughtAt \in [Order -> Month \cup {Never}]
    /\ enrolled \in [Journey -> [Buyer -> Month \cup {Never}]]
    /\ disturbed \in BOOLEAN

-----------------------------------------------------------------------------
(* Figures, each read by one statement. *)

Scale == IF Cardinality(Journey) < 2 THEN 1 ELSE Cardinality(Journey)
Revenue(S) == SumFunctionOnSet(OrderTotal, S)
OrdersOf(b) == {o \in Order : boughtBy[o] = b}
In(b) == {j \in Journey : enrolled[j][b] # Never}
Participants(j) == {b \in Buyer : enrolled[j][b] # Never}

(* first_enroll.                                                           *)
FirstEnrolled(b) == Min({enrolled[j][b] : j \in In(b)})

(* The revenue of each member after the first enrolment; strictly after.   *)
RevenueAfter ==
    [b \in Buyer |-> IF In(b) = {} THEN 0
                     ELSE Revenue({o \in OrdersOf(b) : boughtAt[o] > FirstEnrolled(b)})]

(* ORDER BY enrolled_at: the first and the last row; rows of one month may *)
(* come in either order.                                                   *)
Extremes(b, model) ==
    {j \in In(b) : enrolled[j][b] = IF model = "first" THEN FirstEnrolled(b)
                                    ELSE Max({enrolled[k][b] : k \in In(b)})}

(* The journeys that share the revenue of b.                               *)
Credited(b, model) == IF model = "linear" THEN {In(b)} ELSE {{j} : j \in Extremes(b, model)}

(* The order rows of a journey in the window after each enrolment.         *)
Attributed(j, window) ==
    {o \in Order : \E b \in Participants(j) :
        /\ boughtBy[o] = b
        /\ boughtAt[o] >= enrolled[j][b]
        /\ boughtAt[o] < enrolled[j][b] + window}

(* firsts: the month of the first purchase.                                *)
CohortOf(b) == Min({boughtAt[o] : o \in OrdersOf(b)})

(* cohortRetention: per cohort and offset, the members active then.        *)
Cohorts ==
    [m \in Month |-> [offset \in 0 .. LastMonth |->
        Cardinality({b \in Buyer : OrdersOf(b) # {} /\ CohortOf(b) = m
                        /\ \E o \in OrdersOf(b) : boughtAt[o] = m + offset})]]

-----------------------------------------------------------------------------
(* Writes. *)

(* A purchase may arrive months after it was made.                         *)
BuyOrder(o, b) ==
    /\ boughtBy[o] = NoBuyer /\ b \notin merged
    /\ boughtBy' = [boughtBy EXCEPT ![o] = b]
    /\ \E m \in 1 .. month : boughtAt' = [boughtAt EXCEPT ![o] = m]
    /\ UNCHANGED <<month, enrolled, merged>>

(* enroll: once per journey; a member listed by enrollSegment may have been  *)
(* merged since.                                                           *)
Enrol(j, b) ==
    /\ enrolled[j][b] = Never
    /\ enrolled' = [enrolled EXCEPT ![j][b] = month]
    /\ UNCHANGED <<month, boughtBy, boughtAt, merged>>

(* Mutant: the participants of the merged member are deleted.              *)
RowDropped(j, survivor, other) == FALSE

(* journey_participant: a row moves unless the survivor is in that journey.*)
RowMoves(j, survivor, other) == enrolled[j][survivor] = Never /\ enrolled[j][other] # Never

MergeBuyers(survivor, other) ==
    /\ survivor < other /\ {survivor, other} \cap merged = {}
    /\ merged' = merged \cup {other}
    /\ boughtBy' = [o \in Order |-> IF boughtBy[o] = other THEN survivor ELSE boughtBy[o]]
    /\ enrolled' = [j \in Journey |->
          [enrolled[j] EXCEPT ![other] = Never,
                              ![survivor] = IF RowMoves(j, survivor, other) THEN enrolled[j][other] ELSE @]]
    /\ UNCHANGED <<month, boughtAt>>

NextMonth ==
    /\ month < LastMonth /\ month' = month + 1
    /\ UNCHANGED <<boughtBy, boughtAt, enrolled, merged>>

Written ==
    /\ \/ \E o \in Order, b \in Buyer : BuyOrder(o, b)
       \/ \E j \in Journey, b \in Buyer : Enrol(j, b)
       \/ \E survivor, other \in Buyer : MergeBuyers(survivor, other)
       \/ NextMonth
    /\ disturbed' = (report.at # "done")
    /\ report' = IF report.at = "done" THEN NoReport ELSE report

-----------------------------------------------------------------------------
(* Reports. *)

(* cohortRetention is a single statement.                                  *)
CohortRetention ==
    /\ report.at = "done"
    /\ report' = [kind |-> "cohorts", at |-> "done", table |-> Cohorts,
                  buyers |-> Cardinality({b \in Buyer : OrdersOf(b) # {}})]
    /\ disturbed' = FALSE /\ UNCHANGED tables

(* journeyAttribution: the enrolments, reduced here to the journeys that   *)
(* the model credits for each member.                                      *)
ReadEnrolments(model) ==
    /\ report.at = "done"
    /\ \E credit \in [Buyer -> SUBSET Journey] :
          /\ \A b \in Buyer : IF In(b) = {} THEN credit[b] = {} ELSE credit[b] \in Credited(b, model)
          /\ report' = [kind |-> "attribution", at |-> "enrolments", credit |-> credit]
    /\ disturbed' = FALSE /\ UNCHANGED tables

(* Mutant: every credited journey gets the whole revenue.                  *)
ShareWhole(revenue, n) == revenue * Scale

(* share = revenue / js.length.                                            *)
Share(revenue, n) == (revenue * Scale) \div n

(* ... then the revenue, for the members of the first answer.              *)
ReadRevenue ==
    /\ report.at = "enrolments"
    /\ LET credit == report.credit
           paying == {b \in Buyer : credit[b] # {} /\ RevenueAfter[b] > 0}
           Given(j, b) == IF j \in credit[b] THEN Share(RevenueAfter[b], Cardinality(credit[b])) ELSE 0
       IN report' = [kind |-> "attribution", at |-> "done", converted |-> Cardinality(paying),
                     total |-> SumFunctionOnSet(RevenueAfter, paying),
                     given |-> [j \in Journey |->
                         MapThenSumSet(LAMBDA b : Given(j, b), paying)]]
    /\ UNCHANGED <<disturbed, tables>>

(* journeyReport: the counts by status, and the attribution.               *)
CountParticipants(j) ==
    /\ report.at = "done"
    /\ report' = [kind |-> "journey", at |-> "entered", journey |-> j,
                  entered |-> Cardinality(Participants(j))]
    /\ disturbed' = FALSE /\ UNCHANGED tables

CountOrders ==
    /\ report.kind = "journey" /\ report.at = "entered"
    /\ LET orders == Attributed(report.journey, AttributionWindow)
       IN report' = [kind |-> "journey", at |-> "done", entered |-> report.entered,
                     revenue |-> Revenue(orders),
                     converted |-> Cardinality({boughtBy[o] : o \in orders})]
    /\ UNCHANGED <<disturbed, tables>>

(* getCustomerAnalytics: the queries run side by side on connections of    *)
(* their own, so that they are answered in any order.                      *)
AskAnalytics(b) ==
    /\ report.at = "done"
    /\ report' = [kind |-> "customer", at |-> "asked", of |-> b, answers |-> <<>>]
    /\ disturbed' = FALSE /\ UNCHANGED tables

Monthly(b) == [m \in Month |-> Revenue({o \in OrdersOf(b) : boughtAt[o] = m})]
SumOver(f) == SumFunctionOnSet(f, DOMAIN f)

(* The totals of what the queries group by; brands, categories, stores and *)
(* days of the week group the same rows in other ways.                     *)
Answer(q, b) ==
    CASE q = "summary" -> Revenue(OrdersOf(b))
      [] q = "monthly" -> SumOver(Monthly(b))

AnswerQuery(q) ==
    /\ report.at = "asked" /\ q \notin DOMAIN report.answers
    /\ LET seen == DOMAIN report.answers \cup {q}
       IN report' = [report EXCEPT
             !.answers = [r \in seen |-> IF r = q THEN Answer(q, report.of) ELSE report.answers[r]],
             !.at = IF seen = Query THEN "done" ELSE "asked"]
    /\ UNCHANGED <<disturbed, tables>>

ReportNext ==
    \/ Written
    \/ CohortRetention
    \/ \E model \in Touch : ReadEnrolments(model)
    \/ ReadRevenue
    \/ \E j \in Journey : CountParticipants(j)
    \/ CountOrders
    \/ \E b \in Buyer : AskAnalytics(b)
    \/ \E q \in Query : AnswerQuery(q)

-----------------------------------------------------------------------------
Done(kind) == report.kind = kind /\ report.at = "done"

(* The cohorts divide the members that bought something, and nobody is     *)
(* retained who was not there in the first month.                          *)
CohortsDivide ==
    Done("cohorts") =>
        /\ report.buyers = MapThenSumSet(LAMBDA m : report.table[m][0], Month)
        /\ \A m \in Month, offset \in 0 .. LastMonth : report.table[m][offset] <= report.table[m][0]

(* Attribution gives the revenue it counts to the journeys, all of it and  *)
(* once, whatever model was asked for and whatever was written in between: *)
(* a merge between the two queries hides revenue but never doubles it.     *)
RevenueGivenOnce ==
    Done("attribution") =>
        /\ SumOver(report.given) = report.total * Scale
        /\ report.total <= Revenue({o \in Order : boughtBy[o] # NoBuyer})

(* The report of a journey and the analytics of a customer are free of     *)
(* contradictions unless their tables were written while they were read:   *)
(* no more members convert than entered, and the months add up to the same *)
(* spending as the summary.                                                *)
TornOnlyByWrites ==
    ~disturbed =>
        /\ Done("journey") => report.converted <= report.entered
        /\ Done("customer") => \A q \in Query : report.answers[q] = report.answers["summary"]

(* The reports keep to what the tables say (journey-report.service.ts,     *)
(* advanced.service.ts, customer-analytics.ts).                            *)
FiguresAgree == CohortsDivide /\ RevenueGivenOnce /\ TornOnlyByWrites

AttributedRevenue == SumFunctionOnSet(RevenueAfter, Buyer)

(* A merge does not take revenue away from the journeys, unless it deletes *)
(* an enrolment that is older than the survivor's in the same journey.     *)
MergesKeepRevenue ==
    [][\A survivor, other \in Buyer :
          MergeBuyers(survivor, other) =>
             \/ AttributedRevenue' >= AttributedRevenue
             \/ \E j \in Journey : enrolled[j][other] \in 1 .. enrolled[j][survivor] - 1]_reportVars
=============================================================================
