---------------------------- MODULE PointLiability ----------------------------
(***************************************************************************)
(* What the ledger promises the books: the points outstanding of each      *)
(* currency, which the liability snapshot (loyalty/liability.service.ts,   *)
(* computeLiabilitySnapshot) prices as deferred revenue.  Members, lots,   *)
(* holds and the clock do not show here: holding, releasing, transferring  *)
(* and consuming in any order are invisible, and points leave the          *)
(* liability only by being taken back, redeemed or broken.                 *)
(***************************************************************************)
EXTENDS Integers

CONSTANTS Currency, Amount

VARIABLES
    outstanding,    \* points the group still owes its members
    issued,         \* points issued, less those taken back or converted away
    redeemed,       \* points redeemed
    broken          \* points that expired unused

vars == <<outstanding, issued, redeemed, broken>>

Init ==
    /\ outstanding = [c \in Currency |-> 0]
    /\ issued = [c \in Currency |-> 0]
    /\ redeemed = [c \in Currency |-> 0]
    /\ broken = [c \in Currency |-> 0]

Issue(c, p) ==
    /\ outstanding' = [outstanding EXCEPT ![c] = @ + p]
    /\ issued' = [issued EXCEPT ![c] = @ + p]
    /\ UNCHANGED <<redeemed, broken>>

TakeBack(c, p) ==
    /\ p <= outstanding[c]
    /\ outstanding' = [outstanding EXCEPT ![c] = @ - p]
    /\ issued' = [issued EXCEPT ![c] = @ - p]
    /\ UNCHANGED <<redeemed, broken>>

Exchange(c, d, p, q) ==
    /\ c # d
    /\ p <= outstanding[c]
    /\ outstanding' = [outstanding EXCEPT ![c] = @ - p, ![d] = @ + q]
    /\ issued' = [issued EXCEPT ![c] = @ - p, ![d] = @ + q]
    /\ UNCHANGED <<redeemed, broken>>

Redeem(c, p) ==
    /\ p <= outstanding[c]
    /\ outstanding' = [outstanding EXCEPT ![c] = @ - p]
    /\ redeemed' = [redeemed EXCEPT ![c] = @ + p]
    /\ UNCHANGED <<issued, broken>>

(* Any part of what is outstanding, in several currencies at once. *)
Break ==
    LET lost == [c \in Currency |-> broken'[c] - broken[c]] IN
    /\ broken' \in [Currency -> Nat]
    /\ \A c \in Currency : lost[c] \in 0 .. outstanding[c]
    /\ outstanding' = [c \in Currency |-> outstanding[c] - lost[c]]
    /\ UNCHANGED <<issued, redeemed>>

Next ==
    \/ \E c \in Currency, p \in Amount : Issue(c, p) \/ TakeBack(c, p) \/ Redeem(c, p)
    \/ \E c \in Currency, d \in Currency, p \in Amount, q \in Amount : Exchange(c, d, p, q)
    \/ Break

Spec == Init /\ [][Next]_vars

(* Every point that was issued is outstanding, redeemed or broken. *)
PointsAccountedFor ==
    \A c \in Currency : outstanding[c] >= 0 /\ issued[c] = outstanding[c] + redeemed[c] + broken[c]
=============================================================================
