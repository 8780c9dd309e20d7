--------------------------- MODULE AssistantProofs ---------------------------
(***************************************************************************)
(* The daily cap of the assistant, for every cap and number of requests.   *)
(* The bound on the charged calls is not inductive: the calls that passed  *)
(* the check are counted together with the rows (Spent), and the calls     *)
(* that were answered but not recorded yet explain the difference between  *)
(* rows and charged calls (Explained).                                     *)
(***************************************************************************)
EXTENDS Assistant, FiniteSetTheorems, TLAPS

Calling(p) == {r \in Slot : request[r].by = p /\ request[r].at \in {"calling", "answered"}}
Answered(p) == {r \in Slot : request[r].by = p /\ request[r].at = "answered"}

Spent ==
    Cap > 0 => \A p \in Principal :
        recorded[p] + Cardinality(Calling(p)) <= Cap + Cardinality(Slot) - 1

Explained ==
    \A p \in Principal : charged[p] <= recorded[p] + Cardinality(Answered(p)) + unrecorded[p]

AssistantInv == AssistantTypeOK /\ Spent /\ Explained

-----------------------------------------------------------------------------

LEMMA SlotsAreFinite ==
    ASSUME NEW S \in SUBSET Slot
    PROVE  /\ IsFiniteSet(S)
           /\ Cardinality(S) \in Nat /\ Cardinality(Slot) \in Nat
           /\ Cardinality(S) <= Cardinality(Slot)
  <1>1. IsFiniteSet(Slot)
    BY AssistantAssumption
  <1>2. IsFiniteSet(S) /\ Cardinality(S) <= Cardinality(Slot)
    BY <1>1, FS_Subset
  <1>3. Cardinality(S) \in Nat /\ Cardinality(Slot) \in Nat
    BY <1>1, <1>2, FS_CardinalityType
  <1> QED BY <1>2, <1>3

(* How a set of slots grows and shrinks by one slot.                       *)
LEMMA OneSlot ==
    ASSUME NEW S \in SUBSET Slot, NEW r \in Slot
    PROVE  /\ Cardinality(S \cup {r}) = IF r \in S THEN Cardinality(S) ELSE Cardinality(S) + 1
           /\ Cardinality(S \ {r}) = IF r \in S THEN Cardinality(S) - 1 ELSE Cardinality(S)
  <1>1. IsFiniteSet(S)
    BY SlotsAreFinite
  <1> QED BY <1>1, FS_AddElement, FS_RemoveElement

LEMMA Subsets ==
    ASSUME NEW T \in SUBSET Slot, NEW S \in SUBSET T
    PROVE  Cardinality(S) <= Cardinality(T)
  <1>1. IsFiniteSet(T)
    BY SlotsAreFinite
  <1> QED BY <1>1, FS_Subset

LEMMA CallsAreSlots ==
    ASSUME NEW p
    PROVE  Calling(p) \in SUBSET Slot /\ Answered(p) \in SUBSET Calling(p) /\ Answered(p) \in SUBSET Slot
  BY DEF Calling, Answered

(* What becomes of both sets when one slot gets the record v.              *)
LEMMA SlotMoves ==
    ASSUME AssistantTypeOK, NEW r \in Slot, NEW v, request' = [request EXCEPT ![r] = v], NEW p
    PROVE  /\ Calling(p)' = IF v.by = p /\ v.at \in {"calling", "answered"}
                            THEN Calling(p) \cup {r} ELSE Calling(p) \ {r}
           /\ Answered(p)' = IF v.by = p /\ v.at = "answered"
                             THEN Answered(p) \cup {r} ELSE Answered(p) \ {r}
  BY DEF AssistantTypeOK, Calling, Answered

(* The record that To and AfterCall leave in the slot.                     *)
LEMMA ToLeaves ==
    ASSUME AssistantTypeOK, NEW r \in Slot, NEW s \in Standing, To(r, s)
    PROVE  \E v \in [kind : Kind, by : Principal \cup {Anonymous}, left : Int, at : Standing] :
              /\ request' = [request EXCEPT ![r] = v]
              /\ v.by = request[r].by /\ v.at = s
  <1> DEFINE v == [request[r] EXCEPT !.at = s]
  <1>1. v \in [kind : Kind, by : Principal \cup {Anonymous}, left : Int, at : Standing]
    BY DEF AssistantTypeOK
  <1>2. v.by = request[r].by /\ v.at = s
    BY DEF AssistantTypeOK
  <1>3. request' = [request EXCEPT ![r] = v]
    BY DEF To, AssistantTypeOK
  <1> HIDE DEF v
  <1> QED BY <1>1, <1>2, <1>3

LEMMA CallEnds ==
    ASSUME AssistantTypeOK, NEW r \in Slot,
           (\E s \in {"done", "refused", "template"} : AfterCall(r, s))
    PROVE  \E v \in [kind : Kind, by : Principal \cup {Anonymous}, left : Int, at : Standing] :
              /\ request' = [request EXCEPT ![r] = v]
              /\ v.at \notin {"calling", "answered"}
  <1>1. PICK s \in {"done", "refused", "template"} : AfterCall(r, s)
    OBVIOUS
  <1> DEFINE v == [request[r] EXCEPT !.left = @ - 1, !.at = IF request[r].left > 1 THEN "config" ELSE s]
  <1> DEFINE Requests == [kind : Kind, by : Principal \cup {Anonymous}, left : Int, at : Standing]
  <1>2. v \in Requests
    <2>1. request[r] \in Requests /\ request[r].left - 1 \in Int
      BY DEF AssistantTypeOK
    <2>2. (IF request[r].left > 1 THEN "config" ELSE s) \in Standing
      BY DEF Standing
    <2> QED BY <2>1, <2>2
  <1>3. v.at \notin {"calling", "answered"}
    BY DEF AssistantTypeOK
  <1>4. request' = [request EXCEPT ![r] = v]
    BY <1>1 DEF AfterCall, AssistantTypeOK
  <1> HIDE DEF v
  <1> QED BY <1>2, <1>3, <1>4

LEMMA FailingEnds ==
    ASSUME NEW r, NEW why, Failing(r, why)
    PROVE  \E s \in {"done", "refused", "template"} : AfterCall(r, s)
  <1>1. CASE request[r].kind = "copilot"
    BY <1>1 DEF Failing
  <1>2. CASE request[r].kind # "copilot" /\ request[r].kind = "narrative" /\ why = "unavailable"
    BY <1>2 DEF Failing
  <1>3. CASE request[r].kind # "copilot" /\ ~(request[r].kind = "narrative" /\ why = "unavailable")
    BY <1>3 DEF Failing
  <1> QED BY <1>1, <1>2, <1>3

-----------------------------------------------------------------------------
(* Steps that leave the counters alone and take no slot into a call, and   *)
(* those that do. *)

(* A slot that leaves its call, or stays out of one.                       *)
LEMMA OutOfCalls ==
    ASSUME AssistantInv, NEW r \in Slot,
           NEW v \in [kind : Kind, by : Principal \cup {Anonymous}, left : Int, at : Standing],
           request' = [request EXCEPT ![r] = v], v.at \notin {"calling", "answered"},
           request[r].at # "answered",
           enabled' \in BOOLEAN, UNCHANGED <<recorded, charged, unrecorded>>
    PROVE  AssistantInv'
  <1>1. AssistantTypeOK'
    BY DEF AssistantInv, AssistantTypeOK
  <1>2. ASSUME NEW p \in Principal
        PROVE  /\ Cardinality(Calling(p))' <= Cardinality(Calling(p))
               /\ Cardinality(Answered(p))' = Cardinality(Answered(p))
    <2>1. Calling(p)' = Calling(p) \ {r} /\ Answered(p)' = Answered(p) \ {r}
      BY SlotMoves DEF AssistantInv
    <2>2. r \notin Answered(p)
      BY DEF Answered
    <2>3. Cardinality(Calling(p) \ {r}) <= Cardinality(Calling(p))
      BY CallsAreSlots, Subsets
    <2>4. Answered(p) \ {r} = Answered(p)
      BY <2>2
    <2> QED BY <2>1, <2>3, <2>4
  <1>3. \A p \in Principal : Cardinality(Calling(p)) \in Nat /\ Cardinality(Calling(p))' \in Nat
    <2>1. \A p \in Principal : Calling(p) \in SUBSET Slot /\ Calling(p)' \in SUBSET Slot
      BY DEF Calling
    <2> QED BY <2>1, SlotsAreFinite
  <1>4. Spent'
    BY <1>2, <1>3, SlotsAreFinite, AssistantAssumption DEF AssistantInv, AssistantTypeOK, Spent
  <1>5. Explained'
    BY <1>2 DEF AssistantInv, Explained
  <1> QED BY <1>1, <1>4, <1>5 DEF AssistantInv

(* A call that was answered is over: its caller has one call less.         *)
LEMMA AnsweredLeaves ==
    ASSUME AssistantInv, NEW r \in Slot,
           NEW v \in [kind : Kind, by : Principal \cup {Anonymous}, left : Int, at : Standing],
           request' = [request EXCEPT ![r] = v], v.at \notin {"calling", "answered"},
           request[r].at = "answered", NEW p \in Principal
    PROVE  LET gone == IF p = request[r].by THEN 1 ELSE 0
           IN  /\ Cardinality(Calling(p))' = Cardinality(Calling(p)) - gone
               /\ Cardinality(Answered(p))' = Cardinality(Answered(p)) - gone
  <1>1. Calling(p)' = Calling(p) \ {r} /\ Answered(p)' = Answered(p) \ {r}
    BY SlotMoves DEF AssistantInv
  <1>2. Calling(p) \in SUBSET Slot /\ Answered(p) \in SUBSET Slot
    BY CallsAreSlots
  <1>3. /\ r \in Calling(p) <=> p = request[r].by
        /\ r \in Answered(p) <=> p = request[r].by
    BY DEF Calling, Answered
  <1>4. /\ Cardinality(Calling(p) \ {r}) =
             IF r \in Calling(p) THEN Cardinality(Calling(p)) - 1 ELSE Cardinality(Calling(p))
        /\ Cardinality(Answered(p) \ {r}) =
             IF r \in Answered(p) THEN Cardinality(Answered(p)) - 1 ELSE Cardinality(Answered(p))
    BY <1>2, OneSlot
  <1>5. Cardinality(Calling(p)) \in Nat /\ Cardinality(Answered(p)) \in Nat
    BY <1>2, SlotsAreFinite
  <1> QED BY <1>1, <1>3, <1>4, <1>5

(* The cardinalities are numbers, before and after a step.                 *)
LEMMA Counts ==
    ASSUME NEW p
    PROVE  /\ Cardinality(Calling(p)) \in Nat /\ Cardinality(Calling(p))' \in Nat
           /\ Cardinality(Answered(p)) \in Nat /\ Cardinality(Answered(p))' \in Nat
           /\ Cardinality(Calling(p)) <= Cardinality(Slot)
           /\ Cardinality(Calling(p))' <= Cardinality(Slot)
           /\ Cardinality(Answered(p)) <= Cardinality(Calling(p))
           /\ Cardinality(Answered(p))' <= Cardinality(Calling(p))'
           /\ Cardinality(Slot) \in Nat
  <1>1. /\ Calling(p) \in SUBSET Slot /\ Answered(p) \in SUBSET Slot
        /\ Calling(p)' \in SUBSET Slot /\ Answered(p)' \in SUBSET Slot
        /\ Answered(p) \in SUBSET Calling(p) /\ Answered(p)' \in SUBSET Calling(p)'
    BY DEF Calling, Answered
  <1> QED BY <1>1, SlotsAreFinite, Subsets

LEMMA RecordUsageKeeps ==
    ASSUME AssistantInv, NEW r \in Slot, RecordUsage(r)
    PROVE  AssistantInv'
  <1>1. \E s \in {"done", "refused", "template"} : AfterCall(r, s)
    BY FailingEnds DEF RecordUsage
  <1>2. PICK v \in [kind : Kind, by : Principal \cup {Anonymous}, left : Int, at : Standing] :
               /\ request' = [request EXCEPT ![r] = v]
               /\ v.at \notin {"calling", "answered"}
    BY <1>1, CallEnds DEF AssistantInv
  <1>3. /\ request[r].at = "answered"
        /\ recorded' = [p \in Principal |-> IF p = request[r].by THEN recorded[p] + 1 ELSE recorded[p]]
        /\ UNCHANGED <<enabled, charged, unrecorded>>
    BY DEF RecordUsage, OneMore
  <1>4. AssistantTypeOK'
    BY <1>2, <1>3 DEF AssistantInv, AssistantTypeOK
  <1>5. ASSUME NEW p \in Principal
        PROVE  /\ recorded'[p] + Cardinality(Calling(p))' = recorded[p] + Cardinality(Calling(p))
               /\ recorded'[p] + Cardinality(Answered(p))' = recorded[p] + Cardinality(Answered(p))
    <2> DEFINE gone == IF p = request[r].by THEN 1 ELSE 0
    <2>1. /\ Cardinality(Calling(p))' = Cardinality(Calling(p)) - gone
          /\ Cardinality(Answered(p))' = Cardinality(Answered(p)) - gone
      BY <1>2, <1>3, AnsweredLeaves
    <2>2. recorded'[p] = recorded[p] + gone /\ recorded[p] \in Nat
      BY <1>3 DEF AssistantInv, AssistantTypeOK
    <2>3. gone \in {0, 1}
      OBVIOUS
    <2> HIDE DEF gone
    <2> QED BY <2>1, <2>2, <2>3, Counts
  <1>6. Spent'
    BY <1>5 DEF AssistantInv, Spent
  <1>7. Explained'
    <2> SUFFICES ASSUME NEW p \in Principal
                 PROVE  charged'[p] <= recorded'[p] + Cardinality(Answered(p))' + unrecorded'[p]
      BY DEF Explained
    <2>1. charged'[p] = charged[p] /\ unrecorded'[p] = unrecorded[p]
      BY <1>3
    <2>2. charged[p] <= recorded[p] + Cardinality(Answered(p)) + unrecorded[p]
      BY DEF AssistantInv, Explained
    <2> QED BY <1>5, <2>1, <2>2
  <1> QED BY <1>4, <1>6, <1>7 DEF AssistantInv

LEMMA RecordFailsKeeps ==
    ASSUME AssistantInv, NEW r \in Slot, RecordFails(r)
    PROVE  AssistantInv'
  <1>1. \E s \in {"done", "refused", "template"} : AfterCall(r, s)
    BY FailingEnds DEF RecordFails
  <1>2. PICK v \in [kind : Kind, by : Principal \cup {Anonymous}, left : Int, at : Standing] :
               /\ request' = [request EXCEPT ![r] = v]
               /\ v.at \notin {"calling", "answered"}
    BY <1>1, CallEnds DEF AssistantInv
  <1>3. /\ request[r].at = "answered"
        /\ unrecorded' = [p \in Principal |->
                            IF p = request[r].by THEN unrecorded[p] + 1 ELSE unrecorded[p]]
        /\ UNCHANGED <<enabled, charged, recorded>>
    BY DEF RecordFails, OneMore
  <1>4. AssistantTypeOK'
    BY <1>2, <1>3 DEF AssistantInv, AssistantTypeOK
  <1>5. ASSUME NEW p \in Principal
        PROVE  /\ Cardinality(Calling(p))' <= Cardinality(Calling(p))
               /\ Cardinality(Answered(p))' + unrecorded'[p] = Cardinality(Answered(p)) + unrecorded[p]
    <2> DEFINE gone == IF p = request[r].by THEN 1 ELSE 0
    <2>1. /\ Cardinality(Calling(p))' = Cardinality(Calling(p)) - gone
          /\ Cardinality(Answered(p))' = Cardinality(Answered(p)) - gone
      BY <1>2, <1>3, AnsweredLeaves
    <2>2. unrecorded'[p] = unrecorded[p] + gone /\ unrecorded[p] \in Nat
      BY <1>3 DEF AssistantInv, AssistantTypeOK
    <2>3. gone \in {0, 1}
      OBVIOUS
    <2> HIDE DEF gone
    <2> QED BY <2>1, <2>2, <2>3, Counts
  <1>6. Spent'
    <2> SUFFICES ASSUME Cap > 0, NEW p \in Principal
                 PROVE  recorded'[p] + Cardinality(Calling(p))' <= Cap + Cardinality(Slot) - 1
      BY DEF Spent
    <2>1. recorded[p] + Cardinality(Calling(p)) <= Cap + Cardinality(Slot) - 1
      BY DEF AssistantInv, Spent
    <2>2. recorded'[p] = recorded[p] /\ recorded[p] \in Nat /\ Cap \in Nat
      BY <1>3, AssistantAssumption DEF AssistantInv, AssistantTypeOK
    <2> QED BY <1>5, <2>1, <2>2, Counts
  <1>7. Explained'
    <2> SUFFICES ASSUME NEW p \in Principal
                 PROVE  charged'[p] <= recorded'[p] + Cardinality(Answered(p))' + unrecorded'[p]
      BY DEF Explained
    <2>1. charged'[p] = charged[p] /\ recorded'[p] = recorded[p]
      BY <1>3
    <2>2. charged[p] <= recorded[p] + Cardinality(Answered(p)) + unrecorded[p]
      BY DEF AssistantInv, Explained
    <2>3. /\ charged[p] \in Nat /\ recorded[p] \in Nat
          /\ unrecorded[p] \in Nat /\ unrecorded'[p] \in Nat
      BY <1>4 DEF AssistantInv, AssistantTypeOK
    <2> QED BY <1>5, <2>1, <2>2, <2>3, Counts
  <1> QED BY <1>4, <1>6, <1>7 DEF AssistantInv

(* The check lets a call pass only while there are fewer rows than the cap;*)
(* the calls under way are at most one per slot.                           *)
LEMMA CountUsageKeeps ==
    ASSUME AssistantInv, NEW r \in Slot, CountUsage(r)
    PROVE  AssistantInv'
  <1>1. request[r].at = "count" /\ UNCHANGED <<enabled, recorded, charged, unrecorded>>
    BY DEF CountUsage
  <1>2. CASE Exhausted(r)
    <2>1. PICK v \in [kind : Kind, by : Principal \cup {Anonymous}, left : Int, at : Standing] :
                 /\ request' = [request EXCEPT ![r] = v]
                 /\ v.at \notin {"calling", "answered"}
      BY <1>2, FailingEnds, CallEnds DEF CountUsage, AssistantInv
    <2> QED BY <1>1, <2>1, OutOfCalls DEF AssistantInv, AssistantTypeOK
  <1>3. CASE ~Exhausted(r)
    <2>1. PICK v \in [kind : Kind, by : Principal \cup {Anonymous}, left : Int, at : Standing] :
                 /\ request' = [request EXCEPT ![r] = v]
                 /\ v.by = request[r].by /\ v.at = "calling"
      BY <1>3, ToLeaves DEF CountUsage, AssistantInv, Standing
    <2>2. AssistantTypeOK'
      BY <1>1, <2>1 DEF AssistantInv, AssistantTypeOK
    <2>3. ASSUME NEW p \in Principal
          PROVE  /\ p # request[r].by => Calling(p)' = Calling(p)
                 /\ Answered(p)' = Answered(p)
      BY <1>1, <2>1, SlotMoves DEF AssistantInv, Calling, Answered
    <2>4. Spent'
      <3> SUFFICES ASSUME Cap > 0, NEW p \in Principal
                   PROVE  recorded'[p] + Cardinality(Calling(p))' <= Cap + Cardinality(Slot) - 1
        BY DEF Spent
      <3>1. CASE p = request[r].by
        <4>1. recorded[p] < Cap
          BY <1>3, <3>1, AssistantAssumption DEF Exhausted, Counted, AssistantInv, AssistantTypeOK
        <4> QED BY <1>1, <4>1, Counts, AssistantAssumption DEF AssistantInv, AssistantTypeOK
      <3>2. CASE p # request[r].by
        <4>1. Cardinality(Calling(p))' = Cardinality(Calling(p))
          BY <2>3, <3>2
        <4> QED BY <1>1, <4>1 DEF AssistantInv, Spent
      <3> QED BY <3>1, <3>2
    <2>5. Explained'
      <3>1. \A p \in Principal : Cardinality(Answered(p))' = Cardinality(Answered(p))
        BY <2>3
      <3> QED BY <1>1, <3>1 DEF AssistantInv, Explained
    <2> QED BY <2>2, <2>4, <2>5 DEF AssistantInv
  <1> QED BY <1>2, <1>3

LEMMA ProviderAnswersKeeps ==
    ASSUME AssistantInv, NEW r \in Slot, ProviderAnswers(r)
    PROVE  AssistantInv'
  <1>1. PICK v \in [kind : Kind, by : Principal \cup {Anonymous}, left : Int, at : Standing] :
               /\ request' = [request EXCEPT ![r] = v]
               /\ v.by = request[r].by /\ v.at = "answered"
    BY ToLeaves DEF ProviderAnswers, AssistantInv, Standing
  <1>2. /\ request[r].at = "calling"
        /\ charged' = [p \in Principal |-> IF p = request[r].by THEN charged[p] + 1 ELSE charged[p]]
        /\ UNCHANGED <<enabled, recorded, unrecorded>>
    BY DEF ProviderAnswers, OneMore
  <1>3. AssistantTypeOK'
    BY <1>1, <1>2 DEF AssistantInv, AssistantTypeOK
  <1>4. ASSUME NEW p \in Principal
        PROVE  /\ Calling(p)' = Calling(p)
               /\ Answered(p)' = IF p = request[r].by THEN Answered(p) \cup {r} ELSE Answered(p)
    <2>1. AssistantTypeOK
      BY DEF AssistantInv
    <2>2. Calling(p)' = IF p = request[r].by THEN Calling(p) \cup {r} ELSE Calling(p) \ {r}
      BY <1>1, <2>1, SlotMoves
    <2>3. Answered(p)' = IF p = request[r].by THEN Answered(p) \cup {r} ELSE Answered(p) \ {r}
      BY <1>1, <2>1, SlotMoves
    <2>4. r \in Calling(p) <=> p = request[r].by
      BY <1>2 DEF Calling
    <2>5. r \notin Answered(p)
      BY <1>2 DEF Answered
    <2> QED BY <2>2, <2>3, <2>4, <2>5
  <1>5. \A p \in Principal : Cardinality(Calling(p))' = Cardinality(Calling(p))
    BY <1>4
  <1>6. Spent'
    BY <1>2, <1>5 DEF AssistantInv, Spent
  <1>7. Explained'
    <2> SUFFICES ASSUME NEW p \in Principal
                 PROVE  charged'[p] <= recorded'[p] + Cardinality(Answered(p))' + unrecorded'[p]
      BY DEF Explained
    <2> DEFINE more == IF p = request[r].by THEN 1 ELSE 0
    <2>1. charged'[p] = charged[p] + more
      <3>1. charged[p] \in Nat
        BY DEF AssistantInv, AssistantTypeOK
      <3> QED BY <1>2, <3>1
    <2>2. Cardinality(Answered(p))' = Cardinality(Answered(p)) + more
      <3>1. r \notin Answered(p) /\ Answered(p) \in SUBSET Slot
        BY <1>2 DEF Answered
      <3>2. Cardinality(Answered(p) \cup {r}) = Cardinality(Answered(p)) + 1
        BY <3>1, OneSlot
      <3>3. CASE p = request[r].by
        BY <1>4, <3>2, <3>3
      <3>4. CASE p # request[r].by
        <4>1. Answered(p)' = Answered(p)
          BY <1>4, <3>4
        <4> QED BY <3>4, <4>1, Counts
      <3> QED BY <3>3, <3>4
    <2>3. charged[p] <= recorded[p] + Cardinality(Answered(p)) + unrecorded[p]
      BY DEF AssistantInv, Explained
    <2>4. charged[p] \in Nat /\ recorded[p] \in Nat /\ unrecorded[p] \in Nat /\ more \in {0, 1}
      BY DEF AssistantInv, AssistantTypeOK
    <2>5. recorded'[p] = recorded[p] /\ unrecorded'[p] = unrecorded[p]
      BY <1>2
    <2> HIDE DEF more
    <2> QED BY <2>1, <2>2, <2>3, <2>4, <2>5, Counts
  <1> QED BY <1>3, <1>6, <1>7 DEF AssistantInv

(* The other steps of a request.                                           *)
LEMMA OtherStepsKeep ==
    ASSUME AssistantInv, NEW r \in Slot,
           \/ \E kind \in Kind, p \in Principal \cup {Anonymous} : AskAssistant(r, kind, p)
           \/ ReadSwitch(r) \/ ProviderFails(r)
    PROVE  AssistantInv'
  <1> DEFINE Requests == [kind : Kind, by : Principal \cup {Anonymous}, left : Int, at : Standing]
  <1>1. enabled' \in BOOLEAN /\ UNCHANGED <<recorded, charged, unrecorded>> /\ request[r].at # "answered"
    <2>1. enabled \in BOOLEAN
      BY DEF AssistantInv, AssistantTypeOK
    <2> QED BY <2>1 DEF AskAssistant, ReadSwitch, ProviderFails
  <1>2. \E v \in Requests : request' = [request EXCEPT ![r] = v] /\ v.at \notin {"calling", "answered"}
    <2>1. CASE \E kind \in Kind, p \in Principal \cup {Anonymous} : AskAssistant(r, kind, p)
      <3>1. PICK kind \in Kind, p \in Principal \cup {Anonymous} : AskAssistant(r, kind, p)
        BY <2>1
      <3> DEFINE v == [kind |-> kind, by |-> p, left |-> Calls(kind), at |-> "config"]
      <3>2. v \in Requests /\ v.at \notin {"calling", "answered"}
        BY DEF Calls, Standing
      <3>3. request' = [request EXCEPT ![r] = v]
        BY <3>1 DEF AskAssistant
      <3> HIDE DEF v
      <3> QED BY <3>2, <3>3
    <2>2. CASE ReadSwitch(r)
      <3>1. CASE enabled
        <4>1. To(r, "count") /\ "count" \in Standing
          BY <2>2, <3>1 DEF ReadSwitch, Standing
        <4> QED BY <4>1, ToLeaves DEF AssistantInv
      <3>2. CASE ~enabled
        <4>1. \E s \in {"done", "refused", "template"} : AfterCall(r, s)
          BY <2>2, <3>2, FailingEnds DEF ReadSwitch
        <4> QED BY <4>1, CallEnds DEF AssistantInv
      <3> QED BY <3>1, <3>2
    <2>3. CASE ProviderFails(r)
      <3>1. \E s \in {"done", "refused", "template"} : AfterCall(r, s)
        BY <2>3, FailingEnds DEF ProviderFails
      <3> QED BY <3>1, CallEnds DEF AssistantInv
    <2> QED BY <2>1, <2>2, <2>3
  <1> QED BY <1>1, <1>2, OutOfCalls

(* Midnight takes the rows away and leaves the calls under way, of which   *)
(* there are no more than slots.                                           *)
LEMMA NewDayKeeps ==
    ASSUME AssistantInv, NewDay
    PROVE  AssistantInv'
  <1>1. AssistantTypeOK'
    BY DEF AssistantInv, AssistantTypeOK, NewDay
  <1>2. ASSUME NEW p \in Principal
        PROVE  /\ recorded'[p] = 0 /\ charged'[p] = 0 /\ unrecorded'[p] = 0
    BY DEF NewDay
  <1>3. Spent'
    BY <1>2, Counts, AssistantAssumption DEF Spent
  <1>4. Explained'
    BY <1>2, Counts DEF Explained
  <1> QED BY <1>1, <1>3, <1>4 DEF AssistantInv

LEMMA SameRequests ==
    ASSUME AssistantInv, enabled' \in BOOLEAN, UNCHANGED <<request, recorded, charged, unrecorded>>
    PROVE  AssistantInv'
  BY DEF AssistantInv, AssistantTypeOK, Spent, Explained, Calling, Answered

LEMMA InitHolds == AssistantInit => AssistantInv
  <1> SUFFICES ASSUME AssistantInit PROVE AssistantInv
    OBVIOUS
  <1>1. AssistantTypeOK
    BY DEF AssistantInit, AssistantTypeOK, NoRequest, Kind, Standing
  <1>2. \A p \in Principal : recorded[p] = 0 /\ charged[p] = 0 /\ unrecorded[p] = 0
    BY DEF AssistantInit
  <1>3. Spent
    BY <1>2, Counts, AssistantAssumption DEF Spent
  <1>4. Explained
    BY <1>2, Counts DEF Explained
  <1> QED BY <1>1, <1>3, <1>4 DEF AssistantInv

LEMMA StepHolds == AssistantInv /\ [AssistantNext]_assistantVars => AssistantInv'
  <1> SUFFICES ASSUME AssistantInv, [AssistantNext]_assistantVars PROVE AssistantInv'
    OBVIOUS
  <1>1. ASSUME NEW r \in Slot,
               \/ \E kind \in Kind, p \in Principal \cup {Anonymous} : AskAssistant(r, kind, p)
               \/ ReadSwitch(r) \/ ProviderFails(r)
        PROVE  AssistantInv'
    BY <1>1, OtherStepsKeep
  <1>2. ASSUME NEW r \in Slot, CountUsage(r) \/ ProviderAnswers(r) \/ RecordUsage(r) \/ RecordFails(r)
        PROVE  AssistantInv'
    BY <1>2, CountUsageKeeps, ProviderAnswersKeeps, RecordUsageKeeps, RecordFailsKeeps
  <1>3. CASE Switch
    BY <1>3, SameRequests DEF Switch, AssistantInv, AssistantTypeOK
  <1>4. CASE NewDay
    BY <1>4, NewDayKeeps
  <1>5. CASE UNCHANGED assistantVars
    BY <1>5, SameRequests DEF assistantVars, AssistantInv, AssistantTypeOK
  <1> QED BY <1>1, <1>2, <1>3, <1>4, <1>5 DEF AssistantNext

(* The rows, the calls under way and the charged calls keep to the         *)
(* inductive invariant.                                                    *)
THEOREM AssistantInvariant == AssistantSpec => []AssistantInv
  BY InitHolds, StepHolds, PTL DEF AssistantSpec

LEMMA InvBoundsCharges == AssistantInv => CapIsKept
  <1> SUFFICES ASSUME AssistantInv, Cap > 0, NEW p \in Principal
               PROVE  charged[p] <= Cap + Cardinality(Slot) - 1 + unrecorded[p]
    BY DEF CapIsKept
  <1>1. charged[p] <= recorded[p] + Cardinality(Answered(p)) + unrecorded[p]
    BY DEF AssistantInv, Explained
  <1>2. recorded[p] + Cardinality(Calling(p)) <= Cap + Cardinality(Slot) - 1
    BY DEF AssistantInv, Spent
  <1>3. charged[p] \in Nat /\ recorded[p] \in Nat /\ unrecorded[p] \in Nat /\ Cap \in Nat
    BY AssistantAssumption DEF AssistantInv, AssistantTypeOK
  <1> QED BY <1>1, <1>2, <1>3, Counts

(* runLlmTask: whatever the cap and however many requests run at once, a   *)
(* principal is charged for no more than the cap and one call for every    *)
(* other request, besides the calls whose row was lost.                    *)
THEOREM CapIsAlwaysKept == AssistantSpec => []CapIsKept
  BY AssistantInvariant, InvBoundsCharges, PTL
=============================================================================
