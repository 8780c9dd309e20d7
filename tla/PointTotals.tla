----------------------------- MODULE PointTotals -----------------------------
(***************************************************************************)
(* Sums of point amounts.  The service never stores a balance: it sums     *)
(* rows (sum(delta), the sum of points_remaining, the sum of held points). *)
(*                                                                         *)
(* Total(f) is the sum of f[x] over a finite domain.  It is written as the *)
(* number of single points in f rather than as a recursion, so that facts  *)
(* about it follow from the library's theorems about Cardinality and the   *)
(* invariants built from it can be proved for any set of members or lots.  *)
(***************************************************************************)
EXTENDS Integers, FiniteSets

(* The single points of f: the point <<x, i>> is the i-th point held in x. *)
Units(f) == UNION {{x} \X (1 .. f[x]) : x \in DOMAIN f}

Total(f) == Cardinality(Units(f))

Plus(f, g) == [x \in DOMAIN f |-> f[x] + g[x]]
Minus(f, g) == [x \in DOMAIN f |-> f[x] - g[x]]

(* p points in x and none elsewhere. *)
Single(S, x, p) == [y \in S |-> IF y = x THEN p ELSE 0]

(* The part of f on the members of T. *)
Part(f, T) == [x \in DOMAIN f |-> IF x \in T THEN f[x] ELSE 0]
=============================================================================
