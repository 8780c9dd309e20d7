---------------------------- MODULE AccessProofs ----------------------------
(***************************************************************************)
(* What is handled was asked by someone entitled, for any accounts, keys,  *)
(* requests, routes and roles.  Between two guards everything may change,  *)
(* so the invariant follows a request: as long as its credentials are not  *)
(* looked at, what they are worth now counts; from then on, the role that  *)
(* they were worth.                                                        *)
(***************************************************************************)
EXTENDS Access, TLAPS

Fields == {"at", "route", "cred", "role"}

AccessInv ==
    /\ DOMAIN asks = Ask
    /\ \A q \in Ask : DOMAIN asks[q] = Fields /\ asks[q].cred.until \in Nat
    /\ hour \in Nat /\ \A token \in tokens : token.until \in Nat
    /\ \A q \in Ask : asks[q].at = "limited" =>
         \A role \in Worth(asks[q].cred, accounts, keys) :
             Opened(asks[q].route, role) => q \in entitled
    /\ \A q \in Ask : asks[q].at \in {"known", "spared"} =>
         (Opened(asks[q].route, asks[q].role) => q \in entitled)
    /\ HandledWasEntitled

(* One request moves, nobody loses the title he had. *)
LEMMA OneMoves ==
  ASSUME AccessInv, NEW q \in Ask, NEW r, asks' = [asks EXCEPT ![q] = r],
         DOMAIN r = Fields, r.cred.until \in Nat, entitled \subseteq entitled',
         UNCHANGED <<accounts, keys, tokens, hour>>,
         r.at = "limited" => \A role \in Worth(r.cred, accounts, keys) :
                                 Opened(r.route, role) => q \in entitled',
         r.at \in {"known", "spared"} => (Opened(r.route, r.role) => q \in entitled'),
         r.at = "handled" => q \in entitled'
  PROVE  AccessInv'
<1>1. DOMAIN asks' = Ask /\ asks'[q] = r /\ \A p \in Ask \ {q} : asks'[p] = asks[p]
  BY DEF AccessInv
<1>2. \A p \in Ask : DOMAIN asks'[p] = Fields /\ asks'[p].cred.until \in Nat
  BY <1>1 DEF AccessInv
<1>3. ASSUME NEW p \in Ask, asks'[p].at = "limited", NEW role \in Worth(asks'[p].cred, accounts, keys),
             Opened(asks'[p].route, role)
      PROVE  p \in entitled'
  BY <1>1, <1>3 DEF AccessInv
<1>4. ASSUME NEW p \in Ask, asks'[p].at \in {"known", "spared"},
             Opened(asks'[p].route, asks'[p].role)
      PROVE  p \in entitled'
  BY <1>1, <1>4 DEF AccessInv
<1>5. ASSUME NEW p \in Ask, asks'[p].at = "handled"
      PROVE  p \in entitled'
  BY <1>1, <1>5 DEF AccessInv, HandledWasEntitled
<1>6. ASSUME NEW p \in Ask
      PROVE  Worth(asks[p].cred, accounts, keys)' = Worth(asks'[p].cred, accounts, keys)
  BY DEF Worth, Alive, IsToken
<1>7. ASSUME NEW p \in Ask, asks'[p].at = "limited",
             NEW role \in Worth(asks[p].cred, accounts, keys)', Opened(asks'[p].route, role)
      PROVE  p \in entitled'
  BY <1>3, <1>6, <1>7
<1> QED BY <1>1, <1>2, <1>4, <1>5, <1>7 DEF AccessInv, HandledWasEntitled, Opened

(* The request stays as it is, and so does what counts for it. *)
LEMMA NobodyMoves ==
  ASSUME AccessInv, UNCHANGED <<accounts, keys, asks, entitled>>,
         hour' \in Nat, hour <= hour', \A token \in tokens' : token.until \in Nat
  PROVE  AccessInv'
<1>1. ASSUME NEW q \in Ask
      PROVE  Worth(asks[q].cred, accounts, keys)' \subseteq Worth(asks[q].cred, accounts, keys)
  <2>1. asks[q].cred.until \in Nat /\ hour \in Nat
    BY DEF AccessInv
  <2>2. hour' < asks[q].cred.until => hour < asks[q].cred.until
    BY <2>1
  <2> QED BY <2>2 DEF Worth, Alive, IsToken
<1>2. ASSUME NEW q \in Ask, asks[q].at = "limited",
             NEW role \in Worth(asks[q].cred, accounts, keys)', Opened(asks[q].route, role)
      PROVE  q \in entitled
  BY <1>1, <1>2 DEF AccessInv
<1> QED BY <1>2 DEF AccessInv, HandledWasEntitled, Opened

LEMMA ComeStep ==
  ASSUME AccessInv, NEW q \in Ask, NEW route, NEW cred, cred.until \in Nat, Come(q, route, cred)
  PROVE  AccessInv'
<1> DEFINE r == [at |-> "limited", route |-> route, cred |-> cred, role |-> "none"]
<1>1. /\ asks' = [asks EXCEPT ![q] = r]
      /\ UNCHANGED <<accounts, keys, tokens, hour>>
      /\ entitled' = IF \E role \in Worth(cred, accounts, keys) : Opened(route, role)
                     THEN entitled \cup {q} ELSE entitled
  BY DEF Come
<1>2. entitled \subseteq entitled'
  BY <1>1
<1>3. \A role \in Worth(cred, accounts, keys) : Opened(route, role) => q \in entitled'
  BY <1>1
<1>4. DOMAIN r = Fields
  BY DEF Fields
<1>5. r.at = "limited" /\ r.cred = cred /\ r.route = route
  OBVIOUS
<1> HIDE DEF r
<1> QED BY <1>1, <1>2, <1>3, <1>4, <1>5, OneMoves

(* An answered request. *)
LEMMA EndsStep ==
  ASSUME AccessInv, NEW q \in Ask, NEW at \in {"handled", "refused"}, Ends(q, at),
         at = "handled" => q \in entitled, UNCHANGED <<accounts, keys, tokens, entitled, hour>>
  PROVE  AccessInv'
<1> DEFINE r == [Unasked EXCEPT !.at = at]
<1>1. asks' = [asks EXCEPT ![q] = r]
  BY DEF Ends
<1>2. DOMAIN r = Fields /\ r.at = at /\ r.cred.until \in Nat
  BY DEF Unasked, Fields, NoCredential, Credential
<1> HIDE DEF r
<1> QED BY <1>1, <1>2, OneMoves

LEMMA AuthenticateStep ==
  ASSUME AccessInv, NEW q \in Ask, Authenticate(q)
  PROVE  AccessInv'
<1> DEFINE worth == Worth(asks[q].cred, accounts, keys)
<1>1. /\ asks[q].at = "limited"
      /\ \/ worth = {} /\ Ends(q, "refused")
         \/ \E role \in worth : asks' = [asks EXCEPT ![q].at = "known", ![q].role = role]
      /\ UNCHANGED <<accounts, keys, tokens, entitled, hour>>
  BY DEF Authenticate
<1>2. CASE Ends(q, "refused")
  BY <1>1, <1>2, EndsStep
<1>3. ASSUME NEW role \in worth, asks' = [asks EXCEPT ![q].at = "known", ![q].role = role]
      PROVE  AccessInv'
  <2> DEFINE r == [asks[q] EXCEPT !.at = "known", !.role = role]
  <2>1. asks' = [asks EXCEPT ![q] = r]
    BY <1>3 DEF AccessInv
  <2>2. /\ DOMAIN r = Fields /\ r.at = "known" /\ r.route = asks[q].route /\ r.role = role
        /\ r.cred = asks[q].cred /\ r.cred.until \in Nat
    BY DEF AccessInv, Fields
  <2>3. Opened(asks[q].route, role) => q \in entitled
    BY <1>1, <1>3 DEF AccessInv
  <2> HIDE DEF r
  <2> QED BY <1>1, <2>1, <2>2, <2>3, OneMoves
<1> QED BY <1>1, <1>2, <1>3

LEMMA LimitStep ==
  ASSUME AccessInv, NEW q \in Ask, LimitPrincipal(q)
  PROVE  AccessInv'
<1>1. asks[q].at = "known" /\ UNCHANGED <<accounts, keys, tokens, entitled, hour>>
  BY DEF LimitPrincipal
<1>2. CASE Ends(q, "refused")
  BY <1>1, <1>2, EndsStep
<1>3. CASE Goes(q, "spared")
  <2> DEFINE r == [asks[q] EXCEPT !.at = "spared"]
  <2>1. asks' = [asks EXCEPT ![q] = r]
    BY <1>3 DEF Goes, AccessInv
  <2>2. /\ DOMAIN r = Fields /\ r.at = "spared" /\ r.route = asks[q].route
        /\ r.role = asks[q].role /\ r.cred = asks[q].cred /\ r.cred.until \in Nat
    BY DEF AccessInv, Fields
  <2>3. Opened(asks[q].route, asks[q].role) => q \in entitled
    BY <1>1 DEF AccessInv
  <2> HIDE DEF r
  <2> QED BY <1>1, <2>1, <2>2, <2>3, OneMoves
<1> QED BY <1>2, <1>3 DEF LimitPrincipal

LEMMA ForbidStep ==
  ASSUME AccessInv, NEW q \in Ask, Forbid(q)
  PROVE  AccessInv'
  BY EndsStep DEF Forbid

(* The handler may change every account and key: who is entitled after it  *)
(* counts as well.                                                         *)
LEMMA PerformStep ==
  ASSUME AccessInv, NEW q \in Ask, Perform(q)
  PROVE  AccessInv'
<1>1. /\ asks[q].at = "spared" /\ Opened(asks[q].route, asks[q].role)
      /\ Ends(q, "handled")
      /\ entitled' = StillEntitled(accounts', keys')
      /\ UNCHANGED <<tokens, hour>>
  BY DEF Perform
<1>2. q \in entitled
  BY <1>1 DEF AccessInv
<1>3. entitled \subseteq entitled'
  BY <1>1 DEF StillEntitled
<1> DEFINE r == [Unasked EXCEPT !.at = "handled"]
<1>4. DOMAIN r = Fields /\ r.at = "handled" /\ r.cred.until \in Nat
  BY DEF Unasked, Fields, NoCredential, Credential
<1>5. DOMAIN asks' = Ask /\ asks'[q] = r /\ \A p \in Ask \ {q} : asks'[p] = asks[p]
  BY <1>1 DEF AccessInv, Ends
<1> HIDE DEF r
<1>6. \A p \in Ask : DOMAIN asks'[p] = Fields /\ asks'[p].cred.until \in Nat
  BY <1>4, <1>5 DEF AccessInv
<1>7. ASSUME NEW p \in Ask, asks'[p].at = "limited",
             NEW role \in Worth(asks[p].cred, accounts, keys)', Opened(asks'[p].route, role)
      PROVE  p \in entitled'
  <2>1. p # q /\ asks'[p] = asks[p]
    BY <1>4, <1>5, <1>7
  <2>2. Worth(asks[p].cred, accounts, keys)' = Worth(asks[p].cred, accounts', keys')
    BY <1>1, <2>1 DEF Worth, Alive, IsToken
  <2> QED BY <1>1, <1>7, <2>1, <2>2 DEF StillEntitled
<1>8. ASSUME NEW p \in Ask, asks'[p].at \in {"known", "spared"},
             Opened(asks'[p].route, asks'[p].role)
      PROVE  p \in entitled'
  BY <1>3, <1>4, <1>5, <1>8 DEF AccessInv
<1>9. ASSUME NEW p \in Ask, asks'[p].at = "handled"
      PROVE  p \in entitled'
  BY <1>2, <1>3, <1>5, <1>9 DEF AccessInv, HandledWasEntitled
<1> QED BY <1>1, <1>5, <1>6, <1>7, <1>8, <1>9 DEF AccessInv, HandledWasEntitled, Opened

LEMMA InitAccess == AccessInit => AccessInv
  BY DEF AccessInit, AccessInv, HandledWasEntitled, Unasked, Fields, NoCredential, Credential

LEMMA NextAccess ==
  ASSUME AccessInv, [AccessNext]_accessVars
  PROVE  AccessInv'
<1>1. CASE \E u \in User : Login(u)
  <2>1. PICK u \in User :
          /\ tokens' = tokens \cup {Credential(u, accounts[u].role, hour + Lifetime)}
          /\ UNCHANGED <<accounts, keys, asks, entitled, hour>>
    BY <1>1 DEF Login
  <2>2. hour \in Nat /\ hour + Lifetime \in Nat
    BY AccessAssumption DEF AccessInv
  <2>3. \A token \in tokens' : token.until \in Nat
    BY <2>1, <2>2 DEF AccessInv, Credential
  <2> QED BY <2>1, <2>2, <2>3, NobodyMoves
<1>2. CASE \E q \in Ask, route \in Tried :
             \E cred \in tokens \cup {Credential(k, "none", 0) : k \in Key} : Come(q, route, cred)
  <2>1. PICK q \in Ask, route \in Tried,
             cred \in tokens \cup {Credential(k, "none", 0) : k \in Key} : Come(q, route, cred)
    BY <1>2
  <2>2. cred.until \in Nat
    BY DEF AccessInv, Credential
  <2> QED BY <2>1, <2>2, ComeStep
<1>3. CASE \E q \in Ask : Authenticate(q) \/ LimitPrincipal(q) \/ Forbid(q) \/ Perform(q)
  BY <1>3, AuthenticateStep, LimitStep, ForbidStep, PerformStep
<1>4. CASE AnHourPasses
  <2>1. hour \in Nat /\ hour' = hour + 1 /\ UNCHANGED <<accounts, keys, tokens, asks, entitled>>
    BY <1>4 DEF AnHourPasses, AccessInv
  <2>2. hour' \in Nat /\ hour <= hour' /\ \A token \in tokens' : token.until \in Nat
    BY <2>1 DEF AccessInv
  <2> QED BY <2>1, <2>2, NobodyMoves
<1>5. CASE UNCHANGED accessVars
  <2>1. UNCHANGED <<accounts, keys, tokens, asks, entitled, hour>>
    BY <1>5 DEF accessVars
  <2>2. hour' \in Nat /\ hour <= hour' /\ \A token \in tokens' : token.until \in Nat
    BY <2>1 DEF AccessInv
  <2> QED BY <2>1, <2>2, NobodyMoves
<1> QED BY <1>1, <1>2, <1>3, <1>4, <1>5 DEF AccessNext

(* The guards together (AuthGuard, RolesGuard): a request that reaches its *)
(* handler was, at some moment after it was asked, asked by an active      *)
(* account or key with a role of its route.                                *)
THEOREM HandledWasAlwaysEntitled == AccessSpec => []HandledWasEntitled
<1>1. AccessInit => AccessInv
  BY InitAccess
<1>2. AccessInv /\ [AccessNext]_accessVars => AccessInv'
  BY NextAccess
<1>3. AccessInv => HandledWasEntitled
  BY DEF AccessInv
<1> QED BY <1>1, <1>2, <1>3, PTL DEF AccessSpec
=============================================================================
