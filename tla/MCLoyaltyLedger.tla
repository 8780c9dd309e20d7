--------------------------- MODULE MCLoyaltyLedger ---------------------------
(* The ledger on small instances. *)
EXTENDS LoyaltyLedger, TLC

CONSTANTS group, brand

(* Group points roll over two instants, brand points die at the next one. *)
MCPolicy ==
    [c \in Currency |-> [t \in Instant |-> IF c = group THEN t + 2 ELSE t + 1]]

(* Two brand points buy one group point; one group point buys two. *)
MCRate ==
    [c \in Currency |-> [d \in Currency |->
        IF c = brand THEN [num |-> 1, den |-> 2] ELSE [num |-> 2, den |-> 1]]]

Symmetric == Permutations(Occ) \cup Permutations(Key)
=============================================================================
