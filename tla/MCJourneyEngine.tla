--------------------------- MODULE MCJourneyEngine ---------------------------
(* The journey engine on small instances. *)
EXTENDS JourneyEngine, TLC

CONSTANT firstNode      \* the kind of the first node of version 1

(* Version 1: a wait, an action, the exit.  Version 2: a condition, and an *)
(* exit on each of its branches.                                           *)
MCNodes == [v \in Version |-> 1 .. 3]
MCKind == [v \in Version |-> IF v = 1 THEN <<firstNode, "action", "exit">>
                             ELSE <<"condition", "exit", "exit">>]
MCSucc == [v \in Version |-> IF v = 1 THEN <<{2}, {3}, {}>> ELSE <<{2, 3}, {}, {}>>]
MCFirst == [v \in Version |-> 1]
=============================================================================
