------------------------------ MODULE MCStream ------------------------------
(***************************************************************************)
(* The detection side on small instances: the two stream workers, the      *)
(* rules and their configuration, the whitelist, the analysis of the       *)
(* network.  They share no state here, so each initial state picks one of  *)
(* them and the others rest: the state spaces add up instead of            *)
(* multiplying.                                                            *)
(***************************************************************************)
EXTENDS GraphSync, ScoringWorker, DetectionRules, RuleConfig, WhitelistCache,
        Betweenness, TLC

VARIABLE part

vars == <<part, syncVars, scoreVars, detectVars, rulesVars, whitelistVars, networkVars, rankVars>>

Init ==
  /\ part \in {"sync", "score", "detect", "rules", "whitelist", "circles", "ranking"}
  /\ SyncInit /\ ScoreInit /\ DetectInit /\ RulesInit /\ WhitelistInit
  /\ AnalysisInit /\ (part \notin {"circles", "ranking"} => flows = {})

Sync == part = "sync" /\ SyncNext /\ UNCHANGED <<part, scoreVars, detectVars, rulesVars, whitelistVars, networkVars, rankVars>>
Score == part = "score" /\ ScoreNext /\ UNCHANGED <<part, syncVars, detectVars, rulesVars, whitelistVars, networkVars, rankVars>>
Detect == part = "detect" /\ DetectNext /\ UNCHANGED <<part, syncVars, scoreVars, rulesVars, whitelistVars, networkVars, rankVars>>
Rules == part = "rules" /\ RulesNext /\ UNCHANGED <<part, syncVars, scoreVars, detectVars, whitelistVars, networkVars, rankVars>>
Whitelist == part = "whitelist" /\ WhitelistNext /\ UNCHANGED <<part, syncVars, scoreVars, detectVars, rulesVars, networkVars, rankVars>>
Circles == part = "circles" /\ NetworkNext /\ UNCHANGED <<part, syncVars, scoreVars, detectVars, rulesVars, whitelistVars, rankVars>>
Ranking ==
  /\ part = "ranking" /\ BetweennessNext
  /\ UNCHANGED <<part, syncVars, scoreVars, detectVars, rulesVars, whitelistVars, indices, lowlinks, stack, frames, sccs>>
Next == Circles \/ Ranking \/ Sync \/ Score \/ Detect \/ Rules \/ Whitelist

(* The fairness of GraphSync, for the states in which it is the part that  *)
(* runs.                                                                   *)
Fairness ==
  \A w \in Syncer :
    /\ WF_syncVars(part = "sync" /\ Probe(w))
    /\ WF_syncVars(part = "sync" /\ Revive(w))
    /\ WF_syncVars(part = "sync" /\ owner = Nobody /\ Assign(w))
    /\ WF_syncVars(part = "sync" /\ Consume(w))
    /\ WF_syncVars(part = "sync" /\ Poll(w))

Spec == Init /\ [][Next]_vars /\ Fairness

-----------------------------------------------------------------------------
(* "owner" owns two accounts, the account of "shop" is of the high tier.   *)
Owners == [a \in Account |-> IF a = "b" THEN "shop" ELSE "owner"]
P(from, to, n, lag) == [from |-> from, to |-> to, amount |-> n, lag |-> lag, held |-> FALSE]
Payments == {P("a1", "b", 3, 0), P("a2", "b", 5, 1), P("b", "a1", 3, 0)}

(* A disposition for a customer, which lapses, and one for everybody.      *)
Entries == {[name |-> "x", cust |-> "c", ends |-> 0],
            [name |-> "x", cust |-> "null", ends |-> 1]}
=============================================================================
