----------------------------- MODULE StoredValue -----------------------------
(***************************************************************************)
(* Member cards and the stored-value wallet: loyalty/card.service.ts.  The *)
(* wallet is the ledger's, in the currency OCC_CASH; its lots never expire *)
(* and are left out.  An operation runs under the wallet lock (or the card *)
(* lock) of its member and is one action; the keys are those of all ledger *)
(* operations, unique over the members.                                    *)
(***************************************************************************)
EXTENDS PointTotals

CONSTANTS
    Payer,      \* members
    CashKey,    \* idempotency keys
    Sum,        \* amounts of money
    Card        \* card numbers

VARIABLES
    cash,       \* Σ delta of member:{occ}:available in OCC_CASH
    cashIn,     \* - Σ delta of system:cash_in
    cashOut,    \* Σ delta of system:cash_out
    paid,       \* loyalty_txn: key -> fingerprint
    card,       \* member_card
    mergedTo    \* occ_identity.merged_into; the member itself while active

storedVars == <<cash, cashIn, cashOut, paid, card, mergedTo>>

StoredInit ==
    /\ cash = [o \in Payer |-> 0]
    /\ cashIn = 0 /\ cashOut = 0
    /\ paid = <<>>
    /\ card = <<>>
    /\ mergedTo = [o \in Payer |-> o]

(* A first request; a repeated one returns the balance or conflicts. *)
Record(k, print) ==
    /\ k \notin DOMAIN paid
    /\ paid' = [j \in DOMAIN paid \cup {k} |-> IF j = k THEN print ELSE paid[j]]

(* topUp *)
TopUp(k, o, amount) ==
    /\ Record(k, [mode |-> "topup", occ |-> o, amount |-> amount])
    /\ cash' = [cash EXCEPT ![o] = @ + amount]
    /\ cashIn' = cashIn + amount
    /\ UNCHANGED <<cashOut, card, mergedTo>>

(* Mutant: the balance is not read again after the entries. *)
PayBlindly(k, o, amount) ==
    /\ Record(k, [mode |-> "pay", occ |-> o, amount |-> amount])
    /\ cash' = [cash EXCEPT ![o] = @ - amount]
    /\ cashOut' = cashOut + amount
    /\ UNCHANGED <<cashIn, card, mergedTo>>

(* payWithStoredValue: rolled back when the balance falls below zero. *)
PayWithStoredValue(k, o, amount) ==
    /\ Record(k, [mode |-> "pay", occ |-> o, amount |-> amount])
    /\ cash[o] - amount >= 0
    /\ cash' = [cash EXCEPT ![o] = @ - amount]
    /\ cashOut' = cashOut + amount
    /\ UNCHANGED <<cashIn, card, mergedTo>>

ActiveCards(o) == {c \in DOMAIN card : card[c].occ = o /\ card[c].status = "active"}

(* issueCard: a member with an active card is given that one again. *)
IssueCard(c, o) ==
    /\ c \notin DOMAIN card
    /\ ActiveCards(o) = {}
    /\ card' = [d \in DOMAIN card \cup {c} |->
                  IF d = c THEN [occ |-> o, status |-> "active"] ELSE card[d]]
    /\ UNCHANGED <<cash, cashIn, cashOut, paid, mergedTo>>

(* blockCard *)
BlockCard(c, status) ==
    /\ c \in DOMAIN card /\ card[c].status = "active"
    /\ card' = [card EXCEPT ![c].status = status]
    /\ UNCHANGED <<cash, cashIn, cashOut, paid, mergedTo>>

(* The merge of the resolver: money moves to the survivor, cards stay, and *)
(* the fingerprints keep the member they were made for.                    *)
MergePayer(from, to) ==
    /\ from # to /\ mergedTo[from] = from /\ mergedTo[to] = to
    /\ mergedTo' = [mergedTo EXCEPT ![from] = to]
    /\ cash' = [cash EXCEPT ![from] = 0, ![to] = @ + cash[from]]
    /\ UNCHANGED <<cashIn, cashOut, paid, card>>

StoredNext ==
    \/ \E k \in CashKey, o \in Payer, amount \in Sum :
         TopUp(k, o, amount) \/ PayWithStoredValue(k, o, amount)
    \/ \E c \in Card, o \in Payer : IssueCard(c, o)
    \/ \E c \in Card, status \in {"blocked", "lost"} : BlockCard(c, status)
    \/ \E from \in Payer, to \in Payer : MergePayer(from, to)

StoredSpec == StoredInit /\ [][StoredNext]_storedVars

-----------------------------------------------------------------------------
(* Properties. *)

StoredTypeOK ==
    /\ cash \in [Payer -> Int] /\ cashIn \in Nat /\ cashOut \in Nat
    /\ DOMAIN paid \subseteq CashKey
    /\ DOMAIN card \subseteq Card
    /\ \A c \in DOMAIN card : card[c].occ \in Payer
                                /\ card[c].status \in {"active", "blocked", "lost"}
    /\ mergedTo \in [Payer -> Payer]

(* The wallets hold the money that was paid in and not out, none is        *)
(* overdrawn, whatever is repeated and whoever is merged; each key moved   *)
(* money once; a member has one card at most.                              *)
SumOf(mode) == Total([k \in DOMAIN paid |-> IF paid[k].mode = mode THEN paid[k].amount ELSE 0])
CashAddsUp ==
    /\ \A o \in Payer : cash[o] >= 0
    /\ cashIn = SumOf("topup") /\ cashOut = SumOf("pay")
    /\ Total(cash) = cashIn - cashOut
    /\ \A o \in Payer : Cardinality(ActiveCards(o)) <= 1
=============================================================================
