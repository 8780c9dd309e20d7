----------------------------- MODULE LedgerMerge -----------------------------
(***************************************************************************)
(* The points ledger together with identity merges: mergeOthers and        *)
(* transferLoyalty of identity/identity.repo.ts, which move the wallet of  *)
(* a merged member to the survivor while loyalty requests are in flight.   *)
(*                                                                         *)
(* Merges and ledger operations hold the loyalty:{occ} locks of every      *)
(* member they write, so each is one action.  A settlement is two: the     *)
(* member of the reservation is read before the lock (settleReservation),  *)
(* and a merge can commit between the read and the lock.                   *)
(***************************************************************************)
EXTENDS LoyaltyLedger

VARIABLES
    mergedInto,     \* occ_identity.merged_into; the member itself while active
    settling        \* settlements that have read the reservation's member

mergeVars == <<mergedInto, settling>>
allVars == <<vars, mergeVars>>

Mode == {"capture", "release"}
Idle == [mode |-> "none"]

MergeInit ==
    /\ Init
    /\ mergedInto = [o \in Occ |-> o]
    /\ settling = [k \in Key |-> Idle]

Active(o) == mergedInto[o] = o

(* settleReservation, before the transaction: SELECT occ_id.  The request  *)
(* that carries the idempotency key k settles the hold r.                  *)
ReadHold(mode, r, k) ==
    /\ settling[k] = Idle
    /\ txn[k] = NoTxn
    /\ reservation[r] # NoReservation
    /\ settling' = [settling EXCEPT ![k] =
                      [mode |-> mode, hold |-> r, occ |-> reservation[r].occ]]
    /\ UNCHANGED <<vars, mergedInto>>

(* settleReservation, in the transaction, for the member that was read. *)
Settle(k) ==
    LET s == settling[k] IN
    /\ s # Idle
    /\ \/ s.mode = "capture" /\ CaptureFor(s.occ, s.hold, k)
       \/ s.mode = "release" /\ ReleaseFor(s.occ, s.hold, k)
    /\ settling' = [settling EXCEPT ![k] = Idle]
    /\ UNCHANGED mergedInto

(* RESERVATION_INVALID_STATE, a key used meanwhile, or a lost connection. *)
GiveUp(k) ==
    /\ settling[k] # Idle
    /\ settling' = [settling EXCEPT ![k] = Idle]
    /\ UNCHANGED <<vars, mergedInto>>

(* transferLoyalty: the lots that back the available points move with their *)
(* dates; a balance of 0 or less takes none.                               *)
MovedLots(from, c) ==
    IF available[from][c] <= 0 THEN {NoPoints}
    ELSE FifoTakes(lots[from][c], available[from][c])

(* Mutant: the survivor's lots are dated anew. *)
ArrivedFresh(to, c, slices) == Plus(lots[to][c], NewLot(c, Total(slices)))

(* createLotsFromSlicesTx for the survivor. *)
Arrived(to, c, slices) == Plus(lots[to][c], slices)

(* Mutant: the reservations keep naming the merged member. *)
HoldsUnmoved(from, to) == reservation

(* UPDATE loyalty_reservation SET occ_id. *)
HoldsMoved(from, to) ==
    [r \in Key |-> IF reservation[r] # NoReservation /\ reservation[r].occ = from
                   THEN [reservation[r] EXCEPT !.occ = to] ELSE reservation[r]]

(* mergeOthers for one pair of active members, under the locks of both; the *)
(* keys merge:{from}:{to}:{kind}:{cur} are then new.  The second merge of a *)
(* member that is already merged, which a stale edge can bring about       *)
(* (IdentityResolve, EdgesPointToActive), is left out.                     *)
MergeOthers(from, to) ==
    /\ from # to
    /\ Active(from)
    /\ Active(to)
    /\ \E moved \in [Currency -> UNION {MovedLots(from, c) : c \in Currency}] :
         /\ \A c \in Currency : moved[c] \in MovedLots(from, c)
         /\ lots' = [lots EXCEPT
              ![from] = [c \in Currency |-> Minus(lots[from][c], moved[c])],
              ![to] = [c \in Currency |-> Arrived(to, c, moved[c])]]
    /\ available' = [available EXCEPT
         ![from] = [c \in Currency |-> 0],
         ![to] = [c \in Currency |-> available[to][c] + available[from][c]]]
    /\ reserved' = [reserved EXCEPT ![from] = 0, ![to] = @ + reserved[from]]
    /\ txn' = [k \in Key |-> IF txn[k] # NoTxn /\ txn[k].occ = from
                             THEN [txn[k] EXCEPT !.occ = to] ELSE txn[k]]
    /\ reservation' = HoldsMoved(from, to)
    /\ mergedInto' = [mergedInto EXCEPT ![from] = to]
    /\ UNCHANGED <<now, issued, redeemed, breakage, settling>>

MergeNext ==
    \/ LedgerOp /\ UNCHANGED mergeVars
    \/ \E mode \in Mode, r \in Key, k \in Key : ReadHold(mode, r, k)
    \/ \E k \in Key : Settle(k)
    \/ \E k \in Key : GiveUp(k)
    \/ \E from \in Occ, to \in Occ : MergeOthers(from, to)

MergeSpec == MergeInit /\ [][MergeNext]_allVars

-----------------------------------------------------------------------------
(* Properties. *)

(* Amounts of either sign. *)
Net(f) == Total([x \in DOMAIN f |-> IF f[x] > 0 THEN f[x] ELSE 0])
            - Total([x \in DOMAIN f |-> IF f[x] < 0 THEN -f[x] ELSE 0])

(* Whatever a merge races with, no hold is lost or settled twice: over all *)
(* members the reserved accounts are what the held reservations hold.      *)
HoldsSurviveMerges ==
    Net(reserved) =
        Total([r \in Key |-> IF r \in Held THEN reservation[r].points ELSE 0])

(* As long as no settlement is in flight with the member of before a merge, *)
(* the reserved account of every member is exactly what its holds hold: the *)
(* damage of the race is confined to that window.                          *)
CleanUnlessRaced ==
    [][ /\ ReservedIsHeld
        /\ \A k \in Key : settling[k] # Idle =>
             settling[k].occ = reservation[settling[k].hold].occ
        => ReservedIsHeld' ]_allVars

=============================================================================
