--------------------------- MODULE ScoringWorker ----------------------------
(***************************************************************************)
(* The scoring worker: workers/scoring_worker.py.  It iterates over the    *)
(* raw topic (one partition of it) with the client's automatic commits, so *)
(* the offset it vouches for follows the position of the iterator and not  *)
(* what has been persisted; every error of a message is logged and the     *)
(* message left behind.                                                    *)
(***************************************************************************)
EXTENDS Naturals, Sequences, FiniteSets

CONSTANTS
  Buffered,  \* transactions accepted by POST /transactions/ingest
  Complete,  \* transactions some other producer sends with account ids, and
             \* whose row exists (as the worker's own test sends them)
  Resends,   \* bound: publications of one event
  MaxKills,  \* bound: kills and restarts of the worker
  MaxErrors  \* bound: database errors while persisting

ASSUME ScoringAssumption ==
  /\ Buffered \cap Complete = {}
  /\ Resends \in Nat \ {0} /\ MaxKills \in Nat /\ MaxErrors \in Nat

VARIABLES
  accepted,   \* transactions answered 202
  resent,     \* resent[t]: publications so far
  raw,        \* the partition of aml.transactions.raw
  position,   \* offset of the next message of the iterator
  vouched,    \* the offset committed automatically
  hand,       \* the offset of the message being scored: a set of at most one
  txRow,      \* txRow[t]: status of the transactions row, NONE without one
  alertRows,  \* alertRows[t]: alerts inserted by the worker
  persisted,  \* offsets whose decision was persisted (history)
  dropped,    \* offsets left behind after an error (history)
  kills, errors

scoreVars == <<accepted, resent, raw, position, vouched, hand, txRow, alertRows,
               persisted, dropped, kills, errors>>
feedVars == <<accepted, resent, raw>>

Scored == Buffered \cup Complete

ScoreInit ==
  /\ accepted = {} /\ raw = <<>> /\ position = 0 /\ vouched = 0 /\ hand = {}
  /\ resent = [t \in Scored |-> 0] /\ alertRows = resent
  /\ txRow = [t \in Scored |-> IF t \in Complete THEN "PENDING" ELSE "NONE"]
  /\ persisted = {} /\ dropped = {} /\ kills = 0 /\ errors = 0

(* /ingest answers 202 and publishes from a background task and, through   *)
(* the outbox, from the relay; it inserts no transaction.                  *)
Accept(t) ==
  /\ t \in Buffered \ accepted
  /\ accepted' = accepted \cup {t}
  /\ UNCHANGED <<resent, raw, position, vouched, hand, txRow, alertRows,
                 persisted, dropped, kills, errors>>

Feed(t) ==
  /\ t \in accepted \cup Complete /\ resent[t] < Resends
  /\ resent' = [resent EXCEPT ![t] = @ + 1]
  /\ raw' = Append(raw, t)
  /\ UNCHANGED <<accepted, position, vouched, hand, txRow, alertRows, persisted,
                 dropped, kills, errors>>

Take ==
  /\ hand = {} /\ position < Len(raw)
  /\ hand' = {position} /\ position' = position + 1
  /\ UNCHANGED <<feedVars, vouched, txRow, alertRows, persisted, dropped, kills,
                 errors>>

(* Every five seconds, and when the consumer is stopped.                   *)
AutoCommit ==
  /\ vouched' = position /\ vouched # position
  /\ UNCHANGED <<feedVars, position, hand, txRow, alertRows, persisted, dropped,
                 kills, errors>>

(* The events of /ingest have account numbers and no account ids: the      *)
(* lookup of sender_id raises before anything is evaluated.                *)
Drop(o) ==
  /\ \/ raw[o + 1] \in Buffered /\ UNCHANGED errors
     \/ errors < MaxErrors /\ errors' = errors + 1
  /\ dropped' = dropped \cup {o} /\ hand' = {}
  /\ UNCHANGED <<feedVars, position, vouched, txRow, alertRows, persisted, kills>>

(* One transaction: the status, whatever it is by now, and an alert, which *)
(* no constraint keeps from being inserted again.  A hard hold is one of   *)
(* the triggered rules and so raises an alert.                             *)
Persist(o) ==
  /\ raw[o + 1] \in Complete
  /\ \E status \in {"HELD", "COMPLETED"}, alert \in {0, 1} :
       /\ status = "HELD" => alert = 1
       /\ txRow' = [txRow EXCEPT ![raw[o + 1]] = status]
       /\ alertRows' = [alertRows EXCEPT ![raw[o + 1]] = @ + alert]
  /\ persisted' = persisted \cup {o} /\ hand' = {}
  /\ UNCHANGED <<feedVars, position, vouched, dropped, kills, errors>>

(* The committed offset.  Variant: auto_offset_reset at every start.       *)
ResumedLatest == Len(raw)
Resumed == vouched

(* A restarted worker begins at the committed offset.                      *)
Kill ==
  /\ kills < MaxKills /\ kills' = kills + 1
  /\ hand' = {} /\ position' = Resumed
  /\ UNCHANGED <<feedVars, vouched, txRow, alertRows, persisted, dropped, errors>>

ScoreHand == \E o \in hand : Drop(o) \/ Persist(o)

ScoreNext ==
  \/ \E t \in Scored : Accept(t) \/ Feed(t)
  \/ Take \/ AutoCommit \/ ScoreHand \/ Kill

ScoreFairness ==
  /\ \A t \in Scored : WF_scoreVars(Feed(t))
  /\ WF_scoreVars(Take) /\ WF_scoreVars(AutoCommit) /\ WF_scoreVars(ScoreHand)

ScoreSpec == ScoreInit /\ [][ScoreNext]_scoreVars /\ ScoreFairness

ScoreTypeOK ==
  /\ accepted \subseteq Buffered /\ raw \in Seq(Scored)
  /\ vouched <= position /\ position <= Len(raw)
  /\ hand \subseteq 0..position /\ Cardinality(hand) <= 1
  /\ txRow \in [Scored -> {"NONE", "PENDING", "HELD", "COMPLETED"}]
  /\ persisted \cup dropped \subseteq 0..Len(raw)

(* The automatic commit can run ahead of the message being scored, so a    *)
(* kill may lose it: never more than one message for each kill, and none   *)
(* without (scoring_worker.py:242-256).                                    *)
AtMostOneLostPerKill ==
  Cardinality((0..vouched - 1) \ (persisted \cup dropped \cup hand)) <= kills

(* "Accepts transactions, ... buffers to Redpanda stream and durable       *)
(* transactional outbox ... for downstream asynchronous scoring workers"   *)
(* (routers/transactions.py, POST /ingest): what was accepted is scored.   *)
AcceptedIsScored ==
  \A t \in Buffered :
    (t \in accepted) ~> (\E o \in persisted : raw[o + 1] = t)
=============================================================================
