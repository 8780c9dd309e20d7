--------------------------- MODULE IdentityResolve ---------------------------
(***************************************************************************)
(* Identity resolution: resolveOccIdTx of identity/identity.repo.ts, as    *)
(* concurrent READ COMMITTED transactions over cdp.identity_edge and       *)
(* cdp.occ_identity.                                                       *)
(*                                                                         *)
(* A transaction t takes the advisory locks of its strong identifiers and  *)
(* reads the edges (Read), merges the other members it found into the      *)
(* oldest one (MergeOther, one at a time), inserts or touches an edge per  *)
(* identifier (Upsert), and commits or rolls back.  Its writes are private *)
(* until Commit; a row it wrote and an advisory lock it took are its own   *)
(* until it ends, and a statement that needs one of another transaction    *)
(* waits: its action is disabled.                                          *)
(*                                                                         *)
(* A transaction creates at most one member, whose created_at is the       *)
(* transaction's start (DEFAULT now()), so the member is named after it:   *)
(* members are ordered by age as transactions by their start.  Reads come  *)
(* in any order, since every transaction may have started before the first *)
(* read.                                                                   *)
(***************************************************************************)
EXTENDS Integers, FiniteSets

CONSTANTS
    MaxTx,      \* bound: transactions, and so members
    Strong,     \* identifiers of a strong type (phone, email, cards)
    Weak,       \* the others (anonymous and social ids)
    MaxIds      \* bound: identifiers of one request

Ident == Strong \cup Weak
Tx == 1 .. MaxTx
Occ == Tx

ASSUME ResolveAssumption ==
    /\ MaxTx \in Nat
    /\ MaxIds \in Nat
    /\ Strong \cap Weak = {}
    /\ IsFiniteSet(Ident)

VARIABLES
    edge,           \* identity_edge.occ_id per identifier; 0 without a row
    mergedInto,     \* occ_identity.merged_into; 0 while NULL
    members,        \* the committed rows of occ_identity
    pc,             \* where each transaction is
    ids,            \* the normalised identifiers of its request
    target,         \* the member it resolves to (survivor, or its new one)
    others,         \* the members it has still to merge
    merged,         \* the members it has merged, uncommitted
    rows,           \* the edge rows it has written: their row locks
    moved           \* those of them it has pointed to target

resolveVars == <<edge, mergedInto, members, pc, ids, target, others, merged, rows, moved>>

Live == {t \in Tx : pc[t] = "running"}

ResolveTypeOK ==
    /\ edge \in [Ident -> Occ \cup {0}]
    /\ mergedInto \in [Occ -> Occ \cup {0}]
    /\ members \subseteq Occ
    /\ pc \in [Tx -> {"idle", "running", "committed"}]
    /\ ids \in [Tx -> SUBSET Ident]
    /\ target \in [Tx -> Occ \cup {0}]
    /\ others \in [Tx -> SUBSET Occ]
    /\ merged \in [Tx -> SUBSET Occ]
    /\ rows \in [Tx -> SUBSET Ident]
    /\ moved \in [Tx -> SUBSET Ident]
    /\ \A t \in Tx : moved[t] \subseteq rows[t]

ResolveInit ==
    /\ edge = [i \in Ident |-> 0]
    /\ mergedInto = [o \in Occ |-> 0]
    /\ members = {}
    /\ pc = [t \in Tx |-> "idle"]
    /\ ids = [t \in Tx |-> {}]
    /\ target = [t \in Tx |-> 0]
    /\ others = [t \in Tx |-> {}]
    /\ merged = [t \in Tx |-> {}]
    /\ rows = [t \in Tx |-> {}]
    /\ moved = [t \in Tx |-> {}]

(* Mutant: no advisory lock on the identifiers. *)
LocksIgnored(t, S) == TRUE

(* acquireLocks: the strong identifiers, in sorted order and before any    *)
(* other lock, so taking them together loses no behaviour.                 *)
LocksFree(t, S) ==
    \A u \in Live \ {t} : S \cap ids[u] \cap Strong = {}

(* SELECT DISTINCT occ_id of the committed edges of S. *)
Found(S) == {edge[i] : i \in {j \in S : edge[j] # 0}}

(* pickSurvivor: ORDER BY created_at. *)
Oldest(M) == CHOOSE o \in M : \A q \in M : o <= q

(* resolveOccIdTx up to pickSurvivor or createIdentity. *)
Read(t, S) ==
    LET found == Found(S)
        to == IF found = {} THEN t ELSE Oldest(found) IN
    /\ pc[t] = "idle"
    /\ LocksFree(t, S)
    /\ pc' = [pc EXCEPT ![t] = "running"]
    /\ ids' = [ids EXCEPT ![t] = S]
    /\ target' = [target EXCEPT ![t] = to]
    /\ others' = [others EXCEPT ![t] = found \ {to}]
    /\ UNCHANGED <<edge, mergedInto, members, merged, rows, moved>>

(* The loyalty:{occ} locks a transaction has taken in mergeOthers. *)
Wallets(t) == IF merged[t] = {} THEN {} ELSE merged[t] \cup {target[t]}

RowsFree(t, R) == \A u \in Live \ {t} : R \cap rows[u] = {}

(* One round of mergeOthers: the locks of both wallets, then the UPDATE of *)
(* the committed edges of o, and merged_into.                              *)
MergeOther(t, o) ==
    LET R == {i \in Ident : edge[i] = o} IN
    /\ t \in Live
    /\ o \in others[t]
    /\ \A u \in Live \ {t} : {o, target[t]} \cap Wallets(u) = {}
    /\ RowsFree(t, R)
    /\ others' = [others EXCEPT ![t] = @ \ {o}]
    /\ merged' = [merged EXCEPT ![t] = @ \cup {o}]
    /\ rows' = [rows EXCEPT ![t] = @ \cup R]
    /\ moved' = [moved EXCEPT ![t] = @ \cup R]
    /\ UNCHANGED <<edge, mergedInto, members, pc, ids, target>>

(* upsertEdges: INSERT the edge of i, or only its last_seen if it exists.  *)
(* A concurrent insert of the same identifier is waited for.               *)
Upsert(t, i) ==
    /\ t \in Live
    /\ others[t] = {}
    /\ i \in ids[t] \ rows[t]
    /\ RowsFree(t, {i})
    /\ rows' = [rows EXCEPT ![t] = @ \cup {i}]
    /\ moved' = [moved EXCEPT ![t] = IF edge[i] = 0 THEN @ \cup {i} ELSE @]
    /\ UNCHANGED <<edge, mergedInto, members, pc, ids, target, others, merged>>

(* The end of a transaction: its private writes and its locks are gone. *)
LocksDropped(t) ==
    /\ merged' = [merged EXCEPT ![t] = {}]
    /\ rows' = [rows EXCEPT ![t] = {}]
    /\ moved' = [moved EXCEPT ![t] = {}]

Commit(t) ==
    /\ t \in Live
    /\ others[t] = {}
    /\ ids[t] \subseteq rows[t]
    /\ edge' = [i \in Ident |-> IF i \in moved[t] THEN target[t] ELSE edge[i]]
    /\ mergedInto' =
         [o \in Occ |-> IF o \in merged[t] THEN target[t] ELSE mergedInto[o]]
    /\ members' = members \cup {target[t]}
    /\ pc' = [pc EXCEPT ![t] = "committed"]
    /\ LocksDropped(t)
    /\ UNCHANGED <<ids, target, others>>

(* ROLLBACK: an error, a lost connection, or the victim of a deadlock.  It *)
(* leaves no trace; t may then stand for another transaction.              *)
Abort(t) ==
    /\ t \in Live
    /\ pc' = [pc EXCEPT ![t] = "idle"]
    /\ ids' = [ids EXCEPT ![t] = {}]
    /\ target' = [target EXCEPT ![t] = 0]
    /\ others' = [others EXCEPT ![t] = {}]
    /\ LocksDropped(t)
    /\ UNCHANGED <<edge, mergedInto, members>>

Requests == {S \in SUBSET Ident : S # {} /\ Cardinality(S) <= MaxIds}

ResolveNext ==
    \/ \E t \in Tx, S \in Requests : Read(t, S)
    \/ \E t \in Tx, o \in Occ : MergeOther(t, o)
    \/ \E t \in Tx, i \in Ident : Upsert(t, i)
    \/ \E t \in Tx : Commit(t)
    \/ \E t \in Tx : Abort(t)

ResolveSpec == ResolveInit /\ [][ResolveNext]_resolveVars
-----------------------------------------------------------------------------
(* Properties. *)

Committed == {t \in Tx : pc[t] = "committed"}

(* However many requests race, a strong identifier makes one member: no two *)
(* committed requests that name it both created theirs.                    *)
OneMemberPerStrong ==
    \A t \in Committed, u \in Committed :
        (t # u /\ target[t] = t /\ target[u] = u) => ids[t] \cap ids[u] \cap Strong = {}

(* A merge is always into an older member, also when merges race for the   *)
(* same members, so following merged_into ends at an active one.           *)
MergesGoToElder ==
    \A o \in Occ : mergedInto[o] # 0 => mergedInto[o] < o /\ mergedInto[o] \in members

(* The active member a member was merged into, in as many steps as needed. *)
Root[o \in Occ] == IF mergedInto[o] \in 1 .. o - 1 THEN Root[mergedInto[o]] ELSE o

(* The requests answered so far and their strong identifiers belong to the *)
(* same active member.                                                     *)
StrongStitched ==
    \A t \in Committed : \A i \in ids[t] \cap Strong : Root[edge[i]] = Root[target[t]]

(* A request and its strong identifiers are never separated: from the      *)
(* member it was answered and from the member its identifier points to,    *)
(* merged_into leads to the same active member, through every race but one *)
(* -- a second merge of a member that had been merged into another one.    *)
OnlyRemergesSeparate ==
    [][StrongStitched => \/ StrongStitched'
                         \/ \E o \in Occ : mergedInto[o] \notin {0, mergedInto'[o]}]_resolveVars

(* Concurrent resolves make and merge members as if they came one by one, up *)
(* to that race: the three above.                                          *)
ResolvesAgree == [](OneMemberPerStrong /\ MergesGoToElder) /\ OnlyRemergesSeparate
=============================================================================
