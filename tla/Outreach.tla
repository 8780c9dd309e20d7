------------------------------ MODULE Outreach ------------------------------
(***************************************************************************)
(* Consent and what is sent under it: the hash chain of consent records,   *)
(* the merge of two members' consents, an activation that decides who may  *)
(* be contacted, and the deliveries of its run.  One purpose is enough:    *)
(* purposes share only the lock of the chain.  A request that chose its    *)
(* member before a merge may end after it, and two deliveries of one run   *)
(* may overlap: nothing keeps them apart.                                  *)
(***************************************************************************)
EXTENDS Naturals, Sequences, FiniteSets

CONSTANTS
    Person,      \* members, the elder first: a merge goes to the smaller
    Delivery,    \* requests that deliver the run
    MaxRecords,  \* bound on consent records
    MaxSends     \* bound on messages per member

ASSUME OutreachAssumption == Person \subseteq Nat \ {0} /\ MaxSends \in Nat

VARIABLES
    records,    \* cdp.consent_record, committed, by id
    chain,      \* what the holder of the lock 'consent-chain' has inserted
    joined,     \* occ_identity.merged_into, or the member itself
    merging,    \* the merge in progress, after it read the consents
    audience,   \* decisions of the activation, as they are read
    runRows,    \* cdp.activation_member: who each row is about now
    delivery,   \* one record per delivery request
    delivered,  \* cdp.connector_delivery with status 'sent'
    sends,      \* messages the destination accepted, per member
    overlapped  \* whether two deliveries have been under way at once

outreachVars == <<records, chain, joined, merging, audience, runRows, delivery, delivered, sends, overlapped>>

NoRecord == [occ |-> 0, status |-> "denied", prev |-> 0, wish |-> FALSE]
NotMerging == [from |-> 0, to |-> 0, append |-> "none"]
Resting == [todo |-> {}, already |-> {}, checked |-> 0, on |-> FALSE]

OutreachInit ==
    /\ records = <<>>
    /\ chain = NoRecord
    /\ joined = [p \in Person |-> p]
    /\ merging = NotMerging
    /\ audience = [p \in {} |-> TRUE]
    /\ runRows = [p \in {} |-> 0]
    /\ delivery = [d \in Delivery |-> Resting]
    /\ delivered = {}
    /\ sends = [p \in Person |-> 0]
    /\ overlapped = FALSE

ChainFree == chain = NoRecord

(* The status of the last record of any member in S: absent is denied.     *)
LatestIndex(S) ==
    LET own == {i \in DOMAIN records : records[i].occ \in S}
    IN  IF own = {} THEN 0 ELSE CHOOSE i \in own : \A j \in own : j <= i

IsAllowed(p) == LET i == LatestIndex({p}) IN i # 0 /\ records[i].status = "granted"

(* Mutant: a chain per member instead of one for all.                      *)
AppendToOwnChain(p, status, wish) ==
    /\ ChainFree
    /\ Len(records) < MaxRecords
    /\ chain' = [occ |-> p, status |-> status, prev |-> LatestIndex({p}), wish |-> wish]

(* appendConsentRecord: wait for the chain, read the last record that is   *)
(* committed, insert behind it.  The insert is seen when it commits.       *)
AppendConsent(p, status, wish) ==
    /\ ChainFree
    /\ Len(records) < MaxRecords
    /\ chain' = [occ |-> p, status |-> status, prev |-> Len(records), wish |-> wish]

(* recordConsent of a customer's wish.                                     *)
RecordConsent(p) ==
    /\ \E status \in {"granted", "withdrawn"} : AppendConsent(p, status, TRUE)
    /\ UNCHANGED <<records, joined, merging, audience, runRows, delivery, delivered, sends, overlapped>>

CommitConsent ==
    /\ chain.wish
    /\ records' = Append(records, chain)
    /\ chain' = NoRecord
    /\ UNCHANGED <<joined, merging, audience, runRows, delivery, delivered, sends, overlapped>>

RollbackConsent ==
    /\ chain.wish
    /\ chain' = NoRecord
    /\ UNCHANGED <<records, joined, merging, audience, runRows, delivery, delivered, sends, overlapped>>

(* mergeConsent reads the newest record of the two members, before it      *)
(* holds the chain: what another transaction has not committed is missed.  *)
StartMerge(from, to) ==
    /\ merging = NotMerging
    /\ to < from /\ joined[from] = from /\ joined[to] = to
    /\ LET i == LatestIndex({from, to})
       IN  merging' = [from |-> from, to |-> to,
                       append |-> IF LatestIndex({from}) # 0 /\ records[i].occ = from
                                  THEN records[i].status ELSE "none"]
    /\ UNCHANGED <<records, chain, joined, audience, runRows, delivery, delivered, sends, overlapped>>

(* It appends the status for the survivor; the rows of the activation move *)
(* with the member, the log of deliveries does not.                        *)
AppendMerged ==
    /\ merging.append # "none" /\ ~chain.wish
    /\ AppendConsent(merging.to, merging.append, FALSE)
    /\ UNCHANGED <<records, joined, merging, audience, runRows, delivery, delivered, sends, overlapped>>

EndMerge ==
    /\ merging # NotMerging
    /\ merging.append = "none" \/ (chain # NoRecord /\ ~chain.wish)
    /\ records' = IF merging.append = "none" THEN records ELSE Append(records, chain)
    /\ chain' = IF merging.append = "none" THEN chain ELSE NoRecord
    /\ joined' = [joined EXCEPT ![merging.from] = merging.to]
    /\ runRows' = [p \in DOMAIN runRows |-> IF runRows[p] = merging.from THEN merging.to ELSE runRows[p]]
    /\ merging' = NotMerging
    /\ UNCHANGED <<audience, delivery, delivered, sends, overlapped>>

(* activate asks for each member of the segment separately ...             *)
Decide(p) ==
    /\ p \notin DOMAIN audience /\ runRows = [q \in {} |-> 0]
    /\ audience' = [q \in DOMAIN audience \cup {p} |->
                       IF q = p THEN IsAllowed(p) ELSE audience[q]]
    /\ UNCHANGED <<records, chain, joined, merging, runRows, delivery, delivered, sends, overlapped>>

(* ... and writes the run and its rows in one transaction; the key of the  *)
(* request makes a second one return the first run.                        *)
Activate ==
    /\ runRows = [p \in {} |-> 0]
    /\ \E p \in DOMAIN audience : audience[p]
    /\ runRows' = [p \in {q \in DOMAIN audience : audience[q]} |-> p]
    /\ audience' = [p \in {} |-> TRUE]
    /\ UNCHANGED <<records, chain, joined, merging, delivery, delivered, sends, overlapped>>

(* deliverActivationRun reads the rows and who was sent already ...        *)
StartDelivery(d) ==
    /\ ~delivery[d].on /\ DOMAIN runRows # {}
    /\ delivery' = [delivery EXCEPT ![d] =
                      [todo |-> {<<p, runRows[p]>> : p \in DOMAIN runRows}, already |-> delivered,
                       checked |-> 0, on |-> TRUE]]
    /\ overlapped' = (overlapped \/ \E e \in Delivery : delivery[e].on)
    /\ UNCHANGED <<records, chain, joined, merging, audience, runRows, delivered, sends>>

(* Mutant: only the consent is asked again.                                *)
SkipsDenied(d, row) == ~IsAllowed(row[2])

(* ... skips those, and asks for the consent of each of the others again.  *)
Skips(d, row) == row[2] \in delivery[d].already \/ ~IsAllowed(row[2])

SkipMember(d) ==
    \E row \in delivery[d].todo :
      /\ delivery[d].checked = 0 /\ Skips(d, row)
      /\ delivery' = [delivery EXCEPT ![d].todo = @ \ {row}]
      /\ UNCHANGED <<records, chain, joined, merging, audience, runRows, delivered, sends, overlapped>>

CheckMember(d) ==
    \E row \in delivery[d].todo :
      /\ delivery[d].checked = 0 /\ ~Skips(d, row)
      /\ delivery' = [delivery EXCEPT ![d].todo = @ \ {row}, ![d].checked = row[2]]
      /\ UNCHANGED <<records, chain, joined, merging, audience, runRows, delivered, sends, overlapped>>

(* deliverToConnection: the destination accepts or refuses, and the answer *)
(* is logged; a refused member is tried again by the next request.         *)
Send(d) ==
    /\ delivery[d].checked # 0
    /\ \/ /\ sends[delivery[d].checked] < MaxSends
          /\ sends' = [sends EXCEPT ![delivery[d].checked] = @ + 1]
          /\ delivered' = delivered \cup {delivery[d].checked}
       \/ UNCHANGED <<sends, delivered>>
    /\ delivery' = [delivery EXCEPT ![d].checked = 0]
    /\ UNCHANGED <<records, chain, joined, merging, audience, runRows, overlapped>>

EndDelivery(d) ==
    /\ delivery[d].on /\ delivery[d].todo = {} /\ delivery[d].checked = 0
    /\ delivery' = [delivery EXCEPT ![d] = Resting]
    /\ UNCHANGED <<records, chain, joined, merging, audience, runRows, delivered, sends, overlapped>>

OutreachNext ==
    \/ \E p \in Person : RecordConsent(p) \/ Decide(p)
    \/ CommitConsent \/ RollbackConsent
    \/ \E p, q \in Person : StartMerge(p, q)
    \/ AppendMerged \/ EndMerge \/ Activate
    \/ \E d \in Delivery :
         StartDelivery(d) \/ SkipMember(d) \/ CheckMember(d) \/ Send(d) \/ EndDelivery(d)

OutreachSpec == OutreachInit /\ [][OutreachNext]_outreachVars

ConsentRecord ==
    [occ : Person, status : {"granted", "withdrawn"}, prev : 0..MaxRecords, wish : BOOLEAN]

OutreachTypeOK ==
    /\ records \in Seq(ConsentRecord) /\ Len(records) <= MaxRecords
    /\ chain \in ConsentRecord \cup {NoRecord}
    /\ joined \in [Person -> Person]
    /\ merging = NotMerging \/ (merging.from \in Person /\ merging.to \in Person)
    /\ DOMAIN runRows \subseteq Person /\ DOMAIN audience \subseteq Person
    /\ delivery \in [Delivery -> [todo : SUBSET (Person \X Person), already : SUBSET Person,
                                  checked : Person \cup {0}, on : BOOLEAN]]
    /\ delivered \subseteq Person
    /\ sends \in [Person -> 0..MaxSends] /\ overlapped \in BOOLEAN

(* Every record names the one before it by id, so verifyConsentChain finds *)
(* no break however writers and merges interleave or roll back.            *)
ChainVerifies == \A i \in DOMAIN records : records[i].prev = i - 1

(* The last wish of a customer, told to any of the members that became     *)
(* this one, decides: a withdrawal is never undone by a merge.             *)
WithdrawalHolds ==
    \A p \in Person :
      LET self == {q \in Person : p \in {q, joined[q], joined[joined[q]]}}
          wishes == {i \in DOMAIN records : records[i].wish /\ records[i].occ \in self}
      IN  (joined[p] = p /\ IsAllowed(p))
             => \E i \in wishes : records[i].status = "granted" /\ \A j \in wishes : j <= i

(* "Idempotency" of deliverActivationRun: however often a run is delivered, *)
(* refused and delivered again, a member gets one message, unless a merge  *)
(* brings him a second row or two deliveries overlap.                      *)
SentOnceUnlessRaced ==
    \A p \in Person :
        sends[p] > 1 => overlapped \/ \E q \in Person \ {p} : joined[q] = p
=============================================================================
