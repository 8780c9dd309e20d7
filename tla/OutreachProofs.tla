--------------------------- MODULE OutreachProofs ---------------------------
(***************************************************************************)
(* The chain of consent records has no break, for any number of members,   *)
(* writers, merges and deliveries: whoever holds the lock has read the     *)
(* last record, and nobody commits another one before he does.  And a      *)
(* member gets one message of a run, unless deliveries or merges race.     *)
(***************************************************************************)
EXTENDS Outreach, SequenceTheorems, WellFoundedInduction, TLAPS

Entry == [occ : Nat, status : {"granted", "withdrawn", "denied", "none"}, prev : Nat, wish : BOOLEAN]

ChainInv ==
    /\ records \in Seq(Entry)
    /\ chain \in Entry
    /\ chain # NoRecord => chain.prev = Len(records)
    /\ merging.to \in Nat
    /\ merging.append \in {"granted", "withdrawn", "denied", "none"}
    /\ ChainVerifies

(* One more record, behind the last. *)
LEMMA ChainGrows ==
  ASSUME ChainInv, chain # NoRecord, records' = Append(records, chain)
  PROVE  records' \in Seq(Entry) /\ ChainVerifies'
<1>1. records \in Seq(Entry) /\ chain \in Entry /\ chain.prev = Len(records)
  BY DEF ChainInv
<1>2. /\ records' \in Seq(Entry)
      /\ Len(records') = Len(records) + 1
      /\ \A i \in 1 .. Len(records) : records'[i] = records[i]
      /\ records'[Len(records) + 1] = chain
  BY <1>1, AppendProperties
<1>3. DOMAIN records = 1 .. Len(records) /\ DOMAIN records' = 1 .. Len(records) + 1
  BY <1>1, <1>2
<1>4. Len(records) \in Nat
  BY <1>1
<1>5. ASSUME NEW i \in DOMAIN records'
      PROVE  records'[i].prev = i - 1
  <2>1. CASE i = Len(records) + 1
    BY <1>1, <1>2, <1>4, <2>1
  <2>2. CASE i \in 1 .. Len(records)
    BY <1>2, <1>3, <2>2 DEF ChainInv, ChainVerifies
  <2> QED BY <1>3, <1>4, <1>5, <2>1, <2>2
<1> QED BY <1>2, <1>5 DEF ChainVerifies

(* Nothing that the chain is about changes. *)
LEMMA ChainStays ==
  ASSUME ChainInv, UNCHANGED <<records, chain, merging>>
  PROVE  ChainInv'
  BY DEF ChainInv, ChainVerifies

(* The lock is taken, and the record names the last one. *)
LEMMA ChainHeld ==
  ASSUME ChainInv, NEW p \in Nat, NEW status \in {"granted", "withdrawn", "denied", "none"},
         NEW wish \in BOOLEAN, AppendConsent(p, status, wish), UNCHANGED <<records, merging>>
  PROVE  ChainInv'
<1>1. records \in Seq(Entry) /\ Len(records) \in Nat
  BY DEF ChainInv
<1>2. chain' = [occ |-> p, status |-> status, prev |-> Len(records), wish |-> wish]
  BY DEF AppendConsent
<1>3. chain' \in Entry /\ chain'.prev = Len(records')
  BY <1>1, <1>2 DEF Entry
<1> QED BY <1>1, <1>3 DEF ChainInv, ChainVerifies

(* The newest record of a member that has one. *)
LEMMA LatestIsRecord ==
  ASSUME ChainInv, NEW S, NEW k \in DOMAIN records, records[k].occ \in S
  PROVE  LatestIndex(S) \in DOMAIN records
<1> DEFINE own == {i \in DOMAIN records : records[i].occ \in S}
           later == {Len(records) - i : i \in own}
<1>1. Len(records) \in Nat /\ DOMAIN records = 1 .. Len(records)
  BY DEF ChainInv
<1>2. k \in own /\ own \subseteq 1 .. Len(records)
  BY <1>1
<1>3. later \in SUBSET Nat /\ later # {}
  BY <1>1, <1>2
<1>4. PICK n \in later : \A m \in later : n <= m
  <2> DEFINE less == OpToRel(<, Nat)
  <2>1. IsWellFoundedOn(less, Nat)
    BY NatLessThanWellFounded
  <2>2. \A x \in Nat, y \in Nat : <<x, y>> \in less <=> x < y
    BY DEF OpToRel
  <2> HIDE DEF less, later
  <2>3. PICK n \in later : \A m \in later : <<m, n>> \notin less
    BY <1>3, <2>1, WFMin
  <2>4. ASSUME NEW m \in later PROVE n <= m
    <3>1. m \in Nat /\ n \in Nat
      BY <1>3
    <3>2. <<m, n>> \notin less
      BY <2>3
    <3>3. ~(m < n)
      BY <2>2, <3>1, <3>2
    <3> QED BY ONLY <3>1, <3>3
  <2> QED BY <2>4
<1>5. PICK i \in own : n = Len(records) - i
  BY <1>4
<1>6. \A j \in own : j <= i
  <2> SUFFICES ASSUME NEW j \in own PROVE j <= i
    OBVIOUS
  <2>1. Len(records) - i <= Len(records) - j
    BY <1>4, <1>5
  <2>2. i \in 1 .. Len(records) /\ j \in 1 .. Len(records)
    BY <1>2
  <2> HIDE DEF own
  <2> QED BY <1>1, <2>1, <2>2
<1>7. LatestIndex(S) = CHOOSE x \in own : \A j \in own : j <= x
  BY <1>2 DEF LatestIndex
<1> HIDE DEF own, later
<1>8. LatestIndex(S) \in own
  BY <1>5, <1>6, <1>7
<1> QED BY <1>1, <1>2, <1>8

LEMMA InitChain == OutreachInit => ChainInv
  BY EmptySeq DEF OutreachInit, ChainInv, ChainVerifies, Entry, NoRecord, NotMerging

LEMMA NextChain ==
  ASSUME ChainInv, [OutreachNext]_outreachVars
  PROVE  ChainInv'
<1>1. ASSUME NEW p \in Person, RecordConsent(p)
      PROVE  ChainInv'
  <2>1. p \in Nat
    BY OutreachAssumption
  <2>2. PICK status \in {"granted", "withdrawn"} : AppendConsent(p, status, TRUE)
    BY <1>1 DEF RecordConsent
  <2>3. UNCHANGED <<records, merging>>
    BY <1>1 DEF RecordConsent
  <2> QED BY <2>1, <2>2, <2>3, ChainHeld
<1>2. CASE CommitConsent
  <2>1. chain # NoRecord /\ records' = Append(records, chain)
    BY <1>2 DEF CommitConsent, NoRecord
  <2>2. records' \in Seq(Entry) /\ ChainVerifies'
    BY <2>1, ChainGrows
  <2>3. chain' = NoRecord /\ NoRecord \in Entry /\ merging' = merging
    BY <1>2 DEF CommitConsent, NoRecord, Entry
  <2> QED BY <2>2, <2>3 DEF ChainInv
<1>3. CASE RollbackConsent
  <2>1. chain' = NoRecord /\ NoRecord \in Entry /\ UNCHANGED <<records, merging>>
    BY <1>3 DEF RollbackConsent, NoRecord, Entry
  <2> QED BY <2>1 DEF ChainInv, ChainVerifies
<1>4. ASSUME NEW from \in Person, NEW to \in Person, StartMerge(from, to)
      PROVE  ChainInv'
  <2> DEFINE i == LatestIndex({from, to})
             read == IF LatestIndex({from}) # 0 /\ records[i].occ = from
                     THEN records[i].status ELSE "none"
  <2>1. merging' = [from |-> from, to |-> to, append |-> read] /\ UNCHANGED <<records, chain>>
    BY <1>4 DEF StartMerge
  <2>2. read \in {"granted", "withdrawn", "denied", "none"}
    <3>1. CASE LatestIndex({from}) = 0
      BY <3>1
    <3>2. CASE LatestIndex({from}) # 0
      <4>1. PICK k \in DOMAIN records : records[k].occ \in {from}
        BY <3>2 DEF LatestIndex
      <4>2. i \in DOMAIN records
        BY <4>1, LatestIsRecord
      <4>3. records[i] \in Entry
        BY <4>2, ElementOfSeq DEF ChainInv
      <4>4. records[i].status \in {"granted", "withdrawn", "denied", "none"}
        BY <4>3 DEF Entry
      <4> QED BY <4>4
    <3> QED BY <3>1, <3>2
  <2>3. to \in Nat
    BY OutreachAssumption
  <2> HIDE DEF read
  <2> QED BY <2>1, <2>2, <2>3 DEF ChainInv, ChainVerifies
<1>5. CASE AppendMerged
  <2>1. AppendConsent(merging.to, merging.append, FALSE) /\ UNCHANGED <<records, merging>>
    BY <1>5 DEF AppendMerged
  <2>2. merging.to \in Nat /\ merging.append \in {"granted", "withdrawn", "denied", "none"}
    BY DEF ChainInv
  <2> QED BY <2>1, <2>2, ChainHeld
<1>6. CASE EndMerge
  <2>1. merging' = NotMerging /\ merging'.to \in Nat /\ merging'.append = "none"
    BY <1>6 DEF EndMerge, NotMerging
  <2>2. CASE merging.append = "none"
    <3>1. UNCHANGED <<records, chain>>
      BY <1>6, <2>2 DEF EndMerge
    <3> QED BY <2>1, <3>1 DEF ChainInv, ChainVerifies
  <2>3. CASE merging.append # "none"
    <3>1. chain # NoRecord /\ records' = Append(records, chain) /\ chain' = NoRecord
      BY <1>6, <2>3 DEF EndMerge
    <3>2. records' \in Seq(Entry) /\ ChainVerifies'
      BY <3>1, ChainGrows
    <3>3. NoRecord \in Entry
      BY DEF NoRecord, Entry
    <3> QED BY <2>1, <3>1, <3>2, <3>3 DEF ChainInv
  <2> QED BY <2>2, <2>3
<1>7. ASSUME NEW p \in Person, Decide(p)
      PROVE  ChainInv'
  BY <1>7, ChainStays DEF Decide
<1>8. CASE Activate
  BY <1>8, ChainStays DEF Activate
<1>9. ASSUME NEW d \in Delivery,
             StartDelivery(d) \/ SkipMember(d) \/ CheckMember(d) \/ Send(d) \/ EndDelivery(d)
      PROVE  ChainInv'
  BY <1>9, ChainStays DEF StartDelivery, SkipMember, CheckMember, Send, EndDelivery
<1>10. CASE UNCHANGED outreachVars
  BY <1>10, ChainStays DEF outreachVars
<1> QED BY <1>1, <1>2, <1>3, <1>4, <1>5, <1>6, <1>7, <1>8, <1>9, <1>10 DEF OutreachNext

(* verifyConsentChain finds no break (appendConsentRecord, under its lock): *)
(* every record names the one before it, however many writers and merges   *)
(* interleave, roll back or commit.                                        *)
THEOREM ChainAlwaysVerifies == OutreachSpec => []ChainVerifies
<1>1. OutreachInit => ChainInv
  BY InitChain
<1>2. ChainInv /\ [OutreachNext]_outreachVars => ChainInv'
  BY NextChain
<1>3. ChainInv => ChainVerifies
  BY DEF ChainInv
<1> QED BY <1>1, <1>2, <1>3, PTL DEF OutreachSpec

-----------------------------------------------------------------------------
(* One message per member.  A member that no other one was merged into has *)
(* one row in the run, <<p, p>>, and a delivery that runs alone knows from *)
(* the log what it has not sent itself.                                    *)

Unmerged(p) == \A q \in Person \ {p} : joined[q] # p

(* What a delivery that is under way may still do with p's row. *)
Done(d, p) == <<p, p>> \notin delivery[d].todo

SendInv ==
    /\ joined \in [Person -> Person]
    /\ sends \in [Person -> Nat]
    /\ delivery \in [Delivery -> [todo : SUBSET (Person \X Person), already : SUBSET Person,
                                  checked : Person \cup {0}, on : BOOLEAN]]
    /\ merging # NotMerging =>
         /\ merging.from \in Person /\ merging.to \in Person /\ merging.to # merging.from
         /\ joined[merging.from] = merging.from
    /\ DOMAIN runRows \subseteq Person /\ delivered \subseteq Person
    /\ \A x \in DOMAIN runRows :
         runRows[x] \in Person /\ (Unmerged(runRows[x]) => runRows[x] = x)
    /\ \A d \in Delivery : \A row \in delivery[d].todo : Unmerged(row[2]) => row[2] = row[1]
    /\ \A d \in Delivery : delivery[d].on \/ (delivery[d].todo = {} /\ delivery[d].checked = 0)
    /\ overlapped \/ \A d, e \in Delivery : delivery[d].on /\ delivery[e].on => d = e
    /\ \A d \in Delivery, p \in Person :
         delivery[d].on /\ Unmerged(p) /\ ~overlapped =>
           /\ p \in delivered \ delivery[d].already => Done(d, p)
           /\ delivery[d].checked = p => p \notin delivered /\ Done(d, p)
    /\ \A p \in Person : sends[p] > 0 => p \in delivered
    /\ SentOnceUnlessRaced

(* A merge is never taken back. *)
LEMMA MergedStays ==
  ASSUME SendInv, EndMerge \/ UNCHANGED joined
  PROVE  \A p \in Person : Unmerged(p)' => Unmerged(p)
<1>1. CASE UNCHANGED joined
  BY <1>1 DEF Unmerged
<1>2. CASE EndMerge
  <2> SUFFICES ASSUME NEW p \in Person, NEW q \in Person \ {p}, joined[q] = p
               PROVE  joined'[q] = p
    BY DEF Unmerged
  <2>1. /\ joined' = [joined EXCEPT ![merging.from] = merging.to]
        /\ joined[merging.from] = merging.from
    BY <1>2 DEF EndMerge, SendInv
  <2>2. q # merging.from
    BY <2>1
  <2> QED BY <2>1, <2>2 DEF SendInv
<1> QED BY <1>1, <1>2

(* Nothing that sending is about changes. *)
LEMMA SendStays ==
  ASSUME SendInv, UNCHANGED <<joined, merging, runRows, delivery, delivered, sends, overlapped>>
  PROVE  SendInv'
  BY DEF SendInv, Unmerged, Done, SentOnceUnlessRaced

LEMMA StartMergeSends ==
  ASSUME SendInv, NEW from \in Person, NEW to \in Person, StartMerge(from, to)
  PROVE  SendInv'
<1>1. /\ merging'.from = from /\ merging'.to = to /\ to # from /\ joined[from] = from
      /\ UNCHANGED <<joined, runRows, delivery, delivered, sends, overlapped>>
  BY OutreachAssumption DEF StartMerge
<1> QED BY <1>1 DEF SendInv, Unmerged, Done, SentOnceUnlessRaced

LEMMA EndMergeSends ==
  ASSUME SendInv, EndMerge
  PROVE  SendInv'
<1>0. PICK from \in Person, to \in Person : from = merging.from /\ to = merging.to /\ to # from
  BY DEF EndMerge, SendInv
<1>1. /\ joined' = [joined EXCEPT ![from] = to]
      /\ runRows' = [x \in DOMAIN runRows |-> IF runRows[x] = from THEN to ELSE runRows[x]]
      /\ merging' = NotMerging
      /\ UNCHANGED <<delivery, delivered, sends, overlapped>>
  BY <1>0 DEF EndMerge
<1>2. from \in Person /\ to \in Person /\ to # from
  BY <1>0
<1>3. \A p \in Person : Unmerged(p)' => Unmerged(p)
  BY MergedStays
<1>4. joined' \in [Person -> Person] /\ joined'[from] = to
  BY <1>1, <1>2 DEF SendInv
<1>5. ~Unmerged(to)'
  BY <1>2, <1>4 DEF Unmerged
<1>6. ASSUME NEW x \in DOMAIN runRows'
      PROVE  runRows'[x] \in Person /\ (Unmerged(runRows[x])' => runRows'[x] = x)
  <2>1. x \in DOMAIN runRows /\ runRows'[x] = IF runRows[x] = from THEN to ELSE runRows[x]
    BY <1>1
  <2>2. CASE runRows[x] = from
    BY <1>2, <1>5, <2>1, <2>2
  <2>3. CASE runRows[x] # from
    BY <1>3, <2>1, <2>3 DEF SendInv
  <2> QED BY <2>2, <2>3
<1>7. DOMAIN runRows' \subseteq Person
  BY <1>1 DEF SendInv
<1>8. \A d \in Delivery : \A row \in delivery[d].todo : Unmerged(row[2])' => row[2] = row[1]
  BY <1>3 DEF SendInv
<1>9. \A p \in Person : sends[p] > 1 => overlapped \/ ~Unmerged(p)'
  BY <1>3 DEF SendInv, SentOnceUnlessRaced, Unmerged
<1> QED BY <1>1, <1>3, <1>4, <1>6, <1>7, <1>8, <1>9
        DEF SendInv, Done, SentOnceUnlessRaced, Unmerged

(* A delivery begins with the rows as they are and the log as it is. *)
LEMMA StartDeliverySends ==
  ASSUME SendInv, NEW d \in Delivery, StartDelivery(d)
  PROVE  SendInv'
<1> DEFINE new == [todo |-> {<<x, runRows[x]>> : x \in DOMAIN runRows}, already |-> delivered,
                   checked |-> 0, on |-> TRUE]
<1>1. /\ delivery' = [delivery EXCEPT ![d] = new]
      /\ overlapped' = (overlapped \/ \E e \in Delivery : delivery[e].on)
      /\ UNCHANGED <<joined, merging, runRows, delivered, sends>>
  BY DEF StartDelivery
<1>2. \A row \in new.todo : row \in Person \X Person /\ (Unmerged(row[2]) => row[2] = row[1])
  BY DEF SendInv
<1>3. delivered \subseteq Person => new.already \in SUBSET Person
  OBVIOUS
<1>4. /\ new.already = delivered /\ new.checked = 0 /\ new.on = TRUE
      /\ new.todo \subseteq Person \X Person
  BY <1>2
<1> HIDE DEF new
<1>5. delivered \subseteq Person
  BY DEF SendInv
<1>6. new \in [todo : SUBSET (Person \X Person), already : SUBSET Person,
               checked : Person \cup {0}, on : BOOLEAN]
  BY <1>4, <1>5 DEF new
<1>7. /\ delivery'[d] = new
      /\ \A e \in Delivery \ {d} : delivery'[e] = delivery[e]
      /\ delivery' \in [Delivery -> [todo : SUBSET (Person \X Person), already : SUBSET Person,
                                     checked : Person \cup {0}, on : BOOLEAN]]
  BY <1>1, <1>6 DEF SendInv
<1>8. \A p : Unmerged(p)' <=> Unmerged(p)
  BY <1>1 DEF Unmerged
<1>9. \A e \in Delivery : \A row \in delivery'[e].todo : Unmerged(row[2])' => row[2] = row[1]
  BY <1>2, <1>7, <1>8 DEF SendInv
<1>10. overlapped' \/ \A e, f \in Delivery : delivery'[e].on /\ delivery'[f].on => e = f
  BY <1>1, <1>7 DEF SendInv
<1>11. ASSUME NEW e \in Delivery, NEW p \in Person,
              delivery'[e].on, Unmerged(p)', ~overlapped'
       PROVE  /\ p \in delivered' \ delivery'[e].already => Done(e, p)'
              /\ delivery'[e].checked = p => p \notin delivered' /\ Done(e, p)'
  <2>1. e = d
    BY <1>1, <1>7, <1>11
  <2> QED BY <1>1, <1>4, <1>7, <2>1, OutreachAssumption
<1>12. \A e \in Delivery :
         delivery'[e].on \/ (delivery'[e].todo = {} /\ delivery'[e].checked = 0)
  BY <1>4, <1>7 DEF SendInv
<1> QED BY <1>1, <1>7, <1>8, <1>9, <1>10, <1>11, <1>12 DEF SendInv, SentOnceUnlessRaced

(* A row leaves the list: the member has answered no, or has his message.  *)
LEMMA SkipMemberSends ==
  ASSUME SendInv, NEW d \in Delivery, SkipMember(d)
  PROVE  SendInv'
<1>1. PICK row \in delivery[d].todo : delivery' = [delivery EXCEPT ![d].todo = @ \ {row}]
  BY DEF SkipMember
<1>2. UNCHANGED <<joined, merging, runRows, delivered, sends, overlapped>>
  BY DEF SkipMember
<1>3. /\ \A e \in Delivery : /\ delivery'[e].todo \subseteq delivery[e].todo
                             /\ delivery'[e].already = delivery[e].already
                             /\ delivery'[e].checked = delivery[e].checked
                             /\ delivery'[e].on = delivery[e].on
      /\ delivery' \in [Delivery -> [todo : SUBSET (Person \X Person), already : SUBSET Person,
                                     checked : Person \cup {0}, on : BOOLEAN]]
  BY <1>1 DEF SendInv
<1> QED BY <1>2, <1>3 DEF SendInv, Unmerged, Done, SentOnceUnlessRaced

(* A member who is taken from the list has not been sent to in this run.   *)
LEMMA CheckMemberSends ==
  ASSUME SendInv, NEW d \in Delivery, CheckMember(d)
  PROVE  SendInv'
<1>1. PICK row \in delivery[d].todo :
        /\ row[2] \notin delivery[d].already
        /\ delivery' = [delivery EXCEPT ![d].todo = @ \ {row}, ![d].checked = row[2]]
  BY DEF CheckMember, Skips
<1>2. UNCHANGED <<joined, merging, runRows, delivered, sends, overlapped>>
  BY DEF CheckMember
<1>3. row \in Person \X Person /\ delivery[d].on
  BY <1>1 DEF SendInv
<1> DEFINE D == [todo : SUBSET (Person \X Person), already : SUBSET Person,
                 checked : Person \cup {0}, on : BOOLEAN]
           new == [delivery[d] EXCEPT !.todo = @ \ {row}, !.checked = row[2]]
<1>0. delivery \in [Delivery -> D] /\ delivery[d] \in D /\ row[2] \in Person
  BY <1>3 DEF SendInv
<1>a. /\ new.todo = delivery[d].todo \ {row} /\ new.checked = row[2]
      /\ new.already = delivery[d].already /\ new.on = delivery[d].on
      /\ new \in D
  BY <1>0
<1>b. delivery' = [delivery EXCEPT ![d] = new]
  BY <1>0, <1>1
<1> HIDE DEF new, D
<1>c. /\ delivery'[d] = new
      /\ \A e \in Delivery \ {d} : delivery'[e] = delivery[e]
      /\ delivery' \in [Delivery -> D]
  BY <1>0, <1>a, <1>b
<1>4. /\ delivery'[d].todo = delivery[d].todo \ {row}
      /\ delivery'[d].checked = row[2]
      /\ \A e \in Delivery : /\ delivery'[e].already = delivery[e].already
                             /\ delivery'[e].on = delivery[e].on
      /\ \A e \in Delivery \ {d} : delivery'[e] = delivery[e]
      /\ delivery' \in [Delivery -> [todo : SUBSET (Person \X Person), already : SUBSET Person,
                                     checked : Person \cup {0}, on : BOOLEAN]]
  BY <1>a, <1>c DEF D
<1>5. \A p : Unmerged(p)' <=> Unmerged(p)
  BY <1>2 DEF Unmerged
<1>6. ASSUME Unmerged(row[2]), ~overlapped
      PROVE  row = <<row[2], row[2]>> /\ row[2] \notin delivered
  <2>1. row = <<row[2], row[2]>>
    BY <1>1, <1>3, <1>6 DEF SendInv
  <2>2. ~Done(d, row[2])
    BY <1>1, <2>1 DEF Done
  <2> QED BY <1>1, <1>3, <1>6, <2>1, <2>2 DEF SendInv
<1>7. ASSUME NEW e \in Delivery, NEW p \in Person, delivery'[e].on, Unmerged(p), ~overlapped
      PROVE  /\ p \in delivered \ delivery'[e].already => Done(e, p)'
             /\ delivery'[e].checked = p => p \notin delivered /\ Done(e, p)'
  <2>1. CASE e = d
    <3>1. Done(d, p) => Done(d, p)'
      BY <1>4 DEF Done
    <3>2. row[2] = p => Done(d, p)'
      BY <1>4, <1>6, <1>7 DEF Done
    <3> QED BY <1>3, <1>4, <1>6, <1>7, <2>1, <3>1, <3>2 DEF SendInv
  <2>2. CASE e # d
    BY <1>4, <1>7, <2>2 DEF SendInv, Done
  <2> QED BY <2>1, <2>2
<1>8. \A e \in Delivery : \A r \in delivery'[e].todo : Unmerged(r[2]) => r[2] = r[1]
  BY <1>4 DEF SendInv
<1>9. \A e \in Delivery :
        delivery'[e].on \/ (delivery'[e].todo = {} /\ delivery'[e].checked = 0)
  BY <1>3, <1>4 DEF SendInv
<1> QED BY <1>2, <1>4, <1>5, <1>7, <1>8, <1>9 DEF SendInv, SentOnceUnlessRaced

(* The message is sent and logged, or refused and not logged.              *)
LEMMA SendSends ==
  ASSUME SendInv, NEW d \in Delivery, Send(d)
  PROVE  SendInv'
<1> DEFINE m == delivery[d].checked
<1>1. /\ m # 0
      /\ delivery' = [delivery EXCEPT ![d].checked = 0]
      /\ UNCHANGED <<joined, merging, runRows, overlapped>>
  BY DEF Send
<1>2. \/ sends' = [sends EXCEPT ![m] = @ + 1] /\ delivered' = delivered \cup {m}
      \/ UNCHANGED <<sends, delivered>>
  BY DEF Send
<1>3. m \in Person /\ delivery[d].on
  BY <1>1 DEF SendInv
<1>4. /\ delivery'[d].checked = 0
      /\ \A e \in Delivery : /\ delivery'[e].todo = delivery[e].todo
                             /\ delivery'[e].already = delivery[e].already
                             /\ delivery'[e].on = delivery[e].on
      /\ \A e \in Delivery \ {d} : delivery'[e] = delivery[e]
      /\ delivery' \in [Delivery -> [todo : SUBSET (Person \X Person), already : SUBSET Person,
                                     checked : Person \cup {0}, on : BOOLEAN]]
  BY <1>1 DEF SendInv
<1>5. \A p : Unmerged(p)' <=> Unmerged(p)
  BY <1>1 DEF Unmerged
<1>6. Unmerged(m) /\ ~overlapped => m \notin delivered /\ Done(d, m)
  BY <1>3 DEF SendInv
<1> HIDE DEF m
<1>7. sends' \in [Person -> Nat] /\ \A p \in Person : sends'[p] > 0 => p \in delivered'
  BY <1>2, <1>3 DEF SendInv
<1>8. \A p \in Person : sends'[p] > 1 => overlapped \/ ~Unmerged(p)
  <2> SUFFICES ASSUME NEW p \in Person, sends'[p] > 1, ~overlapped, Unmerged(p)
               PROVE  FALSE
    OBVIOUS
  <2>1. sends[p] \in Nat /\ ~(sends[p] > 1)
    BY DEF SendInv, SentOnceUnlessRaced, Unmerged
  <2>2. p = m /\ sends[p] > 0
    BY <1>2, <1>3, <2>1 DEF SendInv
  <2> QED BY <1>6, <2>2 DEF SendInv
<1>9. ASSUME NEW e \in Delivery, NEW p \in Person, delivery'[e].on, Unmerged(p), ~overlapped
      PROVE  /\ p \in delivered' \ delivery'[e].already => Done(e, p)'
             /\ delivery'[e].checked = p => p \notin delivered' /\ Done(e, p)'
  <2>1. e = d
    BY <1>3, <1>4, <1>9 DEF SendInv
  <2>2. Done(d, p)' <=> Done(d, p)
    BY <1>4 DEF Done
  <2>3. delivery'[d].checked # p
    BY <1>4, OutreachAssumption
  <2>4. p \in delivered' => p \in delivered \/ p = m
    BY <1>2
  <2> QED BY <1>4, <1>6, <1>9, <2>1, <2>2, <2>3, <2>4 DEF SendInv
<1>10. delivered' \subseteq Person
  BY <1>2, <1>3 DEF SendInv
<1>11. \A e \in Delivery :
         delivery'[e].on \/ (delivery'[e].todo = {} /\ delivery'[e].checked = 0)
  BY <1>4 DEF SendInv
<1>12. \A e \in Delivery : \A r \in delivery'[e].todo : Unmerged(r[2]) => r[2] = r[1]
  BY <1>4 DEF SendInv
<1>13. overlapped \/ \A e, f \in Delivery : delivery'[e].on /\ delivery'[f].on => e = f
  BY <1>4 DEF SendInv
<1>14. SentOnceUnlessRaced'
  BY <1>1, <1>5, <1>8 DEF SentOnceUnlessRaced, Unmerged
<1> QED BY <1>1, <1>4, <1>5, <1>7, <1>9, <1>10, <1>11, <1>12, <1>13, <1>14 DEF SendInv

LEMMA EndDeliverySends ==
  ASSUME SendInv, NEW d \in Delivery, EndDelivery(d)
  PROVE  SendInv'
<1>1. /\ delivery' = [delivery EXCEPT ![d] = Resting]
      /\ UNCHANGED <<joined, merging, runRows, delivered, sends, overlapped>>
  BY DEF EndDelivery
<1>2. /\ delivery'[d] = Resting
      /\ \A e \in Delivery \ {d} : delivery'[e] = delivery[e]
      /\ delivery' \in [Delivery -> [todo : SUBSET (Person \X Person), already : SUBSET Person,
                                     checked : Person \cup {0}, on : BOOLEAN]]
  BY <1>1 DEF SendInv, Resting
<1>3. Resting.todo = {} /\ Resting.checked = 0 /\ Resting.on = FALSE
  BY DEF Resting
<1> QED BY <1>1, <1>2, <1>3 DEF SendInv, Unmerged, Done, SentOnceUnlessRaced

(* activate: each member of the segment has one row, about himself.        *)
LEMMA ActivateSends ==
  ASSUME SendInv, Activate, DOMAIN audience \subseteq Person
  PROVE  SendInv'
<1>1. /\ runRows' = [p \in {q \in DOMAIN audience : audience[q]} |-> p]
      /\ UNCHANGED <<joined, merging, delivery, delivered, sends, overlapped>>
  BY DEF Activate
<1>2. DOMAIN runRows' \subseteq Person /\ \A x \in DOMAIN runRows' : runRows'[x] = x
  BY <1>1
<1> QED BY <1>1, <1>2 DEF SendInv, Unmerged, Done, SentOnceUnlessRaced

(* However often a run is delivered, refused and delivered again, a member *)
(* gets one message, unless a merge brings him a second row or two         *)
(* deliveries overlap: for any number of members, requests and messages.   *)
THEOREM OneMessageUnlessRaced == OutreachSpec => []SentOnceUnlessRaced
<1> DEFINE IInv == SendInv /\ DOMAIN audience \subseteq Person
<1>1. OutreachInit => IInv
  BY OutreachAssumption
     DEF OutreachInit, SendInv, Unmerged, Done, SentOnceUnlessRaced, Resting, NotMerging
<1>2. IInv /\ [OutreachNext]_outreachVars => IInv'
  <2> SUFFICES ASSUME SendInv, DOMAIN audience \subseteq Person, [OutreachNext]_outreachVars
               PROVE  SendInv' /\ DOMAIN audience' \subseteq Person
    OBVIOUS
  <2>1. CASE \E p \in Person : RecordConsent(p) \/ Decide(p)
    <3>1. UNCHANGED <<joined, merging, runRows, delivery, delivered, sends, overlapped>>
      BY <2>1 DEF RecordConsent, Decide
    <3>2. DOMAIN audience' \subseteq Person
      BY <2>1 DEF RecordConsent, Decide
    <3> QED BY <3>1, <3>2, SendStays
  <2>2. CASE CommitConsent \/ RollbackConsent \/ AppendMerged
    BY <2>2, SendStays DEF CommitConsent, RollbackConsent, AppendMerged
  <2>3. CASE \E p, q \in Person : StartMerge(p, q)
    BY <2>3, StartMergeSends DEF StartMerge
  <2>4. CASE EndMerge
    BY <2>4, EndMergeSends DEF EndMerge
  <2>5. CASE Activate
    BY <2>5, ActivateSends DEF Activate
  <2>6. ASSUME NEW d \in Delivery,
               StartDelivery(d) \/ SkipMember(d) \/ CheckMember(d) \/ Send(d) \/ EndDelivery(d)
        PROVE  SendInv' /\ UNCHANGED audience
    <3>1. UNCHANGED audience
      BY <2>6 DEF StartDelivery, SkipMember, CheckMember, Send, EndDelivery
    <3>2. SendInv'
      BY <2>6, StartDeliverySends, SkipMemberSends, CheckMemberSends, SendSends, EndDeliverySends
    <3> QED BY <3>1, <3>2
  <2>7. CASE UNCHANGED outreachVars
    BY <2>7, SendStays DEF outreachVars
  <2> QED BY <2>1, <2>2, <2>3, <2>4, <2>5, <2>6, <2>7 DEF OutreachNext
<1>3. IInv => SentOnceUnlessRaced
  BY DEF SendInv
<1> QED BY <1>1, <1>2, <1>3, PTL DEF OutreachSpec
=============================================================================
