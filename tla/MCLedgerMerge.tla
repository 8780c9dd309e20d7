---------------------------- MODULE MCLedgerMerge ----------------------------
(* The ledger with merges on small instances. *)
EXTENDS LedgerMerge, TLC

CONSTANTS group

(* Points of one currency that roll over two instants. *)
MCPolicy == [c \in Currency |-> [t \in Instant |-> t + 2]]
MCRate == [c \in Currency |-> [d \in Currency |-> [num |-> 0, den |-> 1]]]

Symmetric == Permutations(Occ) \cup Permutations(Key)
=============================================================================
