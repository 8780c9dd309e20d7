----------------------------- MODULE FlowEditor -----------------------------
(***************************************************************************)
(* The canvas of a journey: what can be drawn on it, the warnings it shows *)
(* (validateFlow) and what the server accepts when it publishes            *)
(* (validateDefinition).  The two are written twice, in two languages of   *)
(* the same graph; the engine then walks what was published by nextNodeId. *)
(* The fields of a node are abstracted to whether the server takes them.   *)
(***************************************************************************)
EXTENDS Naturals, FiniteSets, TLC

CONSTANTS
    NodeId,      \* numbers, in the order the ids are drawn
    Palette,     \* the node types of the toolbar that are used
    MaxEdges     \* bound

VARIABLES
    nodes,       \* of the canvas, by id: [type, fit]
    edges        \* [from, to, branch]

flowVars == <<nodes, edges>>

(* emptyDefinition: the entry and the exit a journey is created with.      *)
FlowInit ==
    /\ nodes = 1 :> [type |-> "entry", fit |-> TRUE] @@ 2 :> [type |-> "exit", fit |-> TRUE]
    /\ edges = {[from |-> 1, to |-> 2, branch |-> "one"]}

FlowTypeOK ==
    /\ DOMAIN nodes \subseteq NodeId
    /\ edges \subseteq [from : DOMAIN nodes, to : DOMAIN nodes, branch : {"one", "yes", "no"}]

OfType(t) == {n \in DOMAIN nodes : nodes[n].type = t}
Outs(n) == {e \in edges : e.from = n}
Branches(n) == {e.branch : e \in Outs(n)}
Next1(n) == {e.to : e \in Outs(n)}

(* A depth-first search meets a node it has not left yet iff some nodes    *)
(* all lead to one another.                                                *)
Cyclic == \E S \in SUBSET DOMAIN nodes : S # {} /\ \A n \in S : Next1(n) \cap S # {}

-----------------------------------------------------------------------------
(* The canvas. *)

(* addNode: a new node comes with fields the server takes.  Its id is      *)
(* random in the code and is only ever compared: the least unused will do. *)
AddNode(n, t) ==
    /\ n \notin DOMAIN nodes /\ \A k \in NodeId : k < n => k \in DOMAIN nodes
    /\ nodes' = n :> [type |-> t, fit |-> TRUE] @@ nodes
    /\ UNCHANGED edges

(* onConnect: from a source handle (an exit has none, a condition has two) *)
(* to a target handle (an entry has none); addEdge ignores a repetition.   *)
Connect(a, b, branch) ==
    /\ a \notin OfType("exit") /\ b \notin OfType("entry")
    /\ branch \in IF a \in OfType("condition") THEN {"yes", "no"} ELSE {"one"}
    /\ Cardinality(edges) < MaxEdges
    /\ edges' = edges \cup {[from |-> a, to |-> b, branch |-> branch]}
    /\ UNCHANGED nodes

Disconnect(e) == edges' = edges \ {e} /\ UNCHANGED nodes

(* removeNode, or the Delete key on a selected node, the entry included.   *)
RemoveNode(n) ==
    /\ nodes' = [k \in DOMAIN nodes \ {n} |-> nodes[k]]
    /\ edges' = {e \in edges : e.from # n /\ e.to # n}

(* patchConfig: a delay of 0, a kind of predicate without its value...     *)
PatchConfig(n) ==
    /\ nodes[n].type \in {"wait", "condition", "action"}
    /\ nodes' = [nodes EXCEPT ![n].fit = ~@]
    /\ UNCHANGED edges

FlowNext ==
    \/ \E n \in NodeId, t \in Palette : AddNode(n, t)
    \/ \E a, b \in DOMAIN nodes, branch \in {"one", "yes", "no"} : Connect(a, b, branch)
    \/ \E e \in edges : Disconnect(e)
    \/ \E n \in DOMAIN nodes : RemoveNode(n) \/ PatchConfig(n)

-----------------------------------------------------------------------------
(* Mutant: the branches of a condition are not looked at.                  *)
IssuesNoBranches ==
    \/ Cardinality(OfType("entry")) # 1
    \/ \E n \in DOMAIN nodes \ OfType("exit") : Outs(n) = {}
    \/ Cyclic

(* validateFlow has something to warn about.                               *)
Issues ==
    \/ Cardinality(OfType("entry")) # 1
    \/ \E n \in DOMAIN nodes \ OfType("exit") : Outs(n) = {}
    \/ \E n \in OfType("condition") : ~({"yes", "no"} \subseteq Branches(n))
    \/ Cyclic

(* The green line: "valid flow, ready to publish".                         *)
ShownReady == DOMAIN nodes # {} /\ ~Issues

(* One edge out, of each branch if there are two.                          *)
Ways(n) == IF n \in OfType("condition") THEN 2 ELSE 1
OneWayOn(n) == Cardinality(Outs(n)) = Ways(n) /\ Cardinality(Branches(n)) = Ways(n)

(* validateDefinition: an exit has no way out, all else one per branch.    *)
Publishable ==
    /\ Cardinality(OfType("entry")) = 1
    /\ OfType("exit") # {}
    /\ \A n \in OfType("exit") : Outs(n) = {}
    /\ \A n \in DOMAIN nodes \ OfType("exit") : OneWayOn(n) /\ nodes[n].fit
    /\ ~Cyclic

(* nextNodeId: the first edge of the branch.                               *)
CanFollow(n, branch) ==
    \E e \in Outs(n) : n \in OfType("condition") => e.branch = branch

(* What the canvas says and what the server does agree: a flow shown as    *)
(* ready is published, unless a node has more edges than are allowed or a  *)
(* field the server refuses (the canvas checks neither); a flow that       *)
(* would be published has no warning; and the engine finds a way on from   *)
(* every node of it, however its conditions come out.                      *)
CanvasAgrees ==
    /\ ShownReady =>
          \/ Publishable
          \/ \E n \in DOMAIN nodes : Cardinality(Outs(n)) > Ways(n) \/ ~nodes[n].fit
    /\ Publishable => ~Issues
    /\ Publishable =>
          \A n \in DOMAIN nodes \ OfType("exit"), branch \in {"yes", "no"} : CanFollow(n, branch)
=============================================================================
