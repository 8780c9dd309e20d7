---------------------------- MODULE ConfigVersions ----------------------------
(***************************************************************************)
(* Configuration that keeps its past: the rows of point_price              *)
(* (loyalty/liability.service.ts), the versions and the audit of an        *)
(* earn_rule (loyalty/earn-rule.service.ts), and the sections of ai_config *)
(* with their audit (ai-config/ai-config.service.ts).                      *)
(*                                                                         *)
(* The first two take an advisory lock first and are one action; now() is  *)
(* the instant at which their transaction began, before it waited for the  *)
(* lock.  setConfig locks the row of its section, which is not there the   *)
(* first time, and is two steps.                                           *)
(***************************************************************************)
EXTENDS Integers, Sequences

CONSTANTS
    Issuer,         \* what a price is for: a company, or all of them
    RuleKey,        \* rule_key
    Section,        \* the sections of AiConfig
    Admin,          \* concurrent requests to setConfig
    Setting,        \* values of a section
    Unset,          \* no row yet: the default of the code holds
    Late, Waits,    \* bounds: the last instant; the longest wait for a lock
    Edits           \* bound: rows of an issuer, versions of a rule, changes of a section

VARIABLES
    clock,
    price,          \* point_price: per issuer, the rows in the order they were inserted
    rule,           \* earn_rule: per key, is_active of its versions
    ruleAudit,      \* earn_rule_audit: per key, <<old version, new version>>
    config,         \* ai_config
    editing,        \* setConfig in flight: section, old value read, new value
    configAudit     \* ai_config_audit: per section, <<old value, new value>>

configVars == <<clock, price, rule, ruleAudit, config, editing, configAudit>>

Open == Late + 1
Idle == [section |-> Unset]

ConfigInit ==
    /\ clock = 0
    /\ price = [i \in Issuer |-> <<>>]
    /\ rule = [k \in RuleKey |-> <<>>]
    /\ ruleAudit = [k \in RuleKey |-> <<>>]
    /\ config = [s \in Section |-> Unset]
    /\ editing = [a \in Admin |-> Idle]
    /\ configAudit = [s \in Section |-> <<>>]

-----------------------------------------------------------------------------
(* Mutant: the new row starts when its statement runs. *)
RowsFromCommit(rows, began) ==
    Append([n \in DOMAIN rows |-> IF rows[n].to = Open THEN [rows[n] EXCEPT !.to = began]
                                  ELSE rows[n]],
           [from |-> clock, to |-> Open])

(* The open row is closed at now(), and the next one starts there. *)
NextRows(rows, began) ==
    Append([n \in DOMAIN rows |-> IF rows[n].to = Open THEN [rows[n] EXCEPT !.to = began]
                                  ELSE rows[n]],
           [from |-> began, to |-> Open])

(* setPointPrice *)
SetPointPrice(i, began) ==
    /\ Len(price[i]) < Edits
    /\ began \in 0 .. clock /\ began >= clock - Waits
    /\ price' = [price EXCEPT ![i] = NextRows(@, began)]
    /\ UNCHANGED <<clock, rule, ruleAudit, config, editing, configAudit>>

(* The row that computeLiabilitySnapshot and recordSettlementForRedeemTx   *)
(* take at an instant: of those valid then, the one that starts last.      *)
ValidRows(i, t) == {n \in DOMAIN price[i] : price[i][n].from <= t /\ t < price[i][n].to}

-----------------------------------------------------------------------------
(* setEarnRule: the older versions are switched off, the new one is on. *)
SetEarnRule(k) ==
    LET n == Len(rule[k]) IN
    /\ n < Edits
    /\ rule' = [rule EXCEPT ![k] = Append([v \in 1 .. n |-> FALSE], TRUE)]
    /\ ruleAudit' = [ruleAudit EXCEPT ![k] = Append(@, <<n, n + 1>>)]
    /\ UNCHANGED <<clock, price, config, editing, configAudit>>

-----------------------------------------------------------------------------
Holds(a, s) == editing[a].section = s /\ editing[a].locked
Locked(s) == \E a \in Admin : Holds(a, s)

(* setConfig up to its SELECT .. FOR UPDATE: the old value, and the row lock  *)
(* when there is a row.                                                    *)
ReadConfig(a, s, v) ==
    /\ editing[a] = Idle
    /\ ~ Locked(s)
    /\ editing' = [editing EXCEPT ![a] = [section |-> s, old |-> config[s], new |-> v,
                                          locked |-> config[s] # Unset]]
    /\ UNCHANGED <<clock, price, rule, ruleAudit, config, configAudit>>

(* The upsert, which waits for a lock on the row, the audit and the commit. *)
WriteConfig(a) ==
    LET e == editing[a] IN
    /\ e # Idle
    /\ e.locked \/ ~ Locked(e.section)
    /\ Len(configAudit[e.section]) < Edits
    /\ config' = [config EXCEPT ![e.section] = e.new]
    /\ configAudit' = [configAudit EXCEPT ![e.section] = Append(@, <<e.old, e.new>>)]
    /\ editing' = [editing EXCEPT ![a] = Idle]
    /\ UNCHANGED <<clock, price, rule, ruleAudit>>

(* The request fails or the service dies: rolled back. *)
AbortConfig(a) ==
    /\ editing[a] # Idle
    /\ editing' = [editing EXCEPT ![a] = Idle]
    /\ UNCHANGED <<clock, price, rule, ruleAudit, config, configAudit>>

Pass ==
    /\ clock < Late
    /\ clock' = clock + 1
    /\ UNCHANGED <<price, rule, ruleAudit, config, editing, configAudit>>

ConfigNext ==
    \/ \E i \in Issuer, began \in 0 .. Late : SetPointPrice(i, began)
    \/ \E k \in RuleKey : SetEarnRule(k)
    \/ \E a \in Admin, s \in Section, v \in Setting : ReadConfig(a, s, v)
    \/ \E a \in Admin : WriteConfig(a) \/ AbortConfig(a)
    \/ Pass

ConfigSpec == ConfigInit /\ [][ConfigNext]_configVars

-----------------------------------------------------------------------------
(* Properties. *)

ConfigTypeOK ==
    /\ clock \in 0 .. Late
    /\ \A i \in Issuer : price[i] \in Seq([from : 0 .. Late, to : 0 .. Open])
    /\ \A k \in RuleKey : rule[k] \in Seq(BOOLEAN)
    /\ config \in [Section -> Setting \cup {Unset}]
    /\ \A a \in Admin : editing[a].section \in Section \cup {Unset}

(* Once points have a price, no instant is without one, although the rows  *)
(* carry the start of transactions that waited for each other: a redemption *)
(* does not fail again for lack of a price, and a snapshot prices no points *)
(* at 0.                                                                   *)
PriceNeverLapses ==
    \A i \in Issuer : \A n \in DOMAIN price[i] :
        \A t \in price[i][n].from .. clock : ValidRows(i, t) # {}

(* The audits explain what is in force: the last entry brought it in, and an *)
(* entry that names an old value follows the entry that set it, however the *)
(* changes of two admins interleave or fail.  The version of a rule that is *)
(* on is the last one.                                                     *)
AuditExplainsConfig ==
    /\ \A s \in Section :
         LET log == configAudit[s] IN
         /\ IF log = <<>> THEN config[s] = Unset ELSE log[Len(log)][2] = config[s]
         /\ \A n \in DOMAIN log : log[n][1] # Unset => n > 1 /\ log[n - 1][2] = log[n][1]
    /\ \A k \in RuleKey :
         /\ Len(ruleAudit[k]) = Len(rule[k])
         /\ \A n \in DOMAIN rule[k] : ruleAudit[k][n] = <<n - 1, n>>
         /\ \A n \in DOMAIN rule[k] : rule[k][n] <=> n = Len(rule[k])

(* Prices and settings survive their editing: both of the above.           *)
ConfigHolds == PriceNeverLapses /\ AuditExplainsConfig
=============================================================================
