----------------------------- MODULE GraphSync ------------------------------
(***************************************************************************)
(* The graph synchronisation workers: scripts/sync_worker.py.  A worker    *)
(* that finds the broker at start-up consumes the scored topic (here: one  *)
(* partition of it) and commits offsets itself; a worker that does not     *)
(* polls the transactions table until it is restarted.  Both write edges   *)
(* into Neo4j with MERGE.  Workers of one consumer group take the          *)
(* partition from each other at any await.  A worker that gets no Neo4j    *)
(* driver when it starts returns and reports it to nobody: only where a    *)
(* supervisor restarts its container does it come back.                    *)
(***************************************************************************)
EXTENDS Naturals, Sequences

CONSTANTS
  Tx,          \* transactions of the partition's tenant
  Syncer,      \* worker processes (embedded in the API or on their own)
  Supervised,  \* those of a Kubernetes Deployment; neither compose nor the
               \* API that embeds a worker starts it again
  MaxAttempts, \* MAX_RETRY_ATTEMPTS
  PollLimit,   \* POSTGRES_POLL_LIMIT
  Copies,      \* bound: publications of one event (direct send and relay)
  MaxSyncFaults \* bound: failed writes, lost answers, crashes and rebalances

Nobody == "NULL"

ASSUME SyncAssumption ==
  /\ Nobody \notin Syncer /\ Supervised \subseteq Syncer
  /\ MaxAttempts \in Nat \ {0} /\ PollLimit \in Nat \ {0}
  /\ Copies \in Nat \ {0} /\ MaxSyncFaults \in Nat

VARIABLES
  ledger,    \* transactions committed to Postgres
  marked,    \* transactions whose neo4j_synced is TRUE
  sent,      \* sent[t]: publications of the event of t so far
  topic,     \* the partition: a sequence of transactions
  offset,    \* the committed offset of the group: messages settled
  owner,     \* the worker the partition is assigned to
  graph,     \* transactions with an edge in Neo4j (its status is not modelled)
  dead,      \* offsets in the dead letter topic
  unwritten, \* offsets whose dead letter could not be written (history)
  mode,      \* mode[w]: "starting", "stream", "poll" or "ended"
  fetch,     \* fetch[w]: offset of the next message to fetch
  batch,     \* batch[w]: <<next, end>> of the messages in hand
  tries,     \* tries[w]: failed attempts on the message in hand
  routed,    \* workers that are done with the message but for the commit
  rows,      \* rows[w]: rows of the poll still to be written
  written,   \* written[w]: rows of the poll written to the graph
  syncFaults

syncVars == <<ledger, marked, sent, topic, offset, owner, graph, dead,
              unwritten, mode, fetch, batch, tries, routed, rows, written,
              syncFaults>>
logVars    == <<ledger, sent, topic>>
streamVars == <<offset, owner, dead, unwritten, fetch, batch, tries, routed>>
pollVars   == <<rows, written>>

Empty == <<0, 0>>

SyncInit ==
  /\ ledger = {} /\ graph = {}
  /\ sent = [t \in Tx |-> 0]
  /\ topic = <<>> /\ offset = 0 /\ owner = Nobody
  /\ marked = {} /\ dead = {} /\ unwritten = {} /\ routed = {}
  /\ mode = [w \in Syncer |-> "starting"]
  /\ fetch = [w \in Syncer |-> 0] /\ tries = fetch
  /\ batch = [w \in Syncer |-> Empty]
  /\ rows = [w \in Syncer |-> <<>>]
  /\ written = [w \in Syncer |-> {}]
  /\ syncFaults = 0

Fault == syncFaults < MaxSyncFaults /\ syncFaults' = syncFaults + 1

(* Ingestion commits the row; its event follows, from the background task  *)
(* and from the outbox relay.                                              *)
Ledger(t) ==
  /\ t \notin ledger
  /\ ledger' = ledger \cup {t}
  /\ UNCHANGED <<marked, sent, topic, graph, mode, syncFaults, streamVars, pollVars>>

Send(t) ==
  /\ t \in ledger /\ sent[t] < Copies
  /\ sent' = [sent EXCEPT ![t] = @ + 1]
  /\ topic' = Append(topic, t)
  /\ UNCHANGED <<ledger, marked, graph, mode, syncFaults, streamVars, pollVars>>

(* MERGE: creates the edge or finds it.  A write reported as failed may    *)
(* have been applied.                                                      *)
WriteEdge(t, ok) ==
  /\ \/ graph' = graph \cup {t}
     \/ ~ok /\ UNCHANGED graph
  /\ IF ok THEN UNCHANGED syncFaults ELSE Fault

-----------------------------------------------------------------------------
(* The consumer.                                                           *)

(* Without a driver for Neo4j the worker returns; else a probe of the      *)
(* broker decides, once, where it reads from.                              *)
Probe(w) ==
  /\ mode[w] = "starting"
  /\ \E m \in {"stream", "poll", "ended"} :
       /\ mode' = [mode EXCEPT ![w] = m]
       /\ IF m = "stream" THEN UNCHANGED syncFaults ELSE Fault
  /\ UNCHANGED <<logVars, marked, graph, streamVars, pollVars>>

(* The committed offset.  Variant: auto_offset_reset at every assignment.  *)
ResumeAtEnd == Len(topic)
ResumeAt == offset

(* The group assigns the partition: the first time, or again at a          *)
(* rebalance, while some worker may still be working on a batch of it.     *)
Assign(w) ==
  /\ mode[w] = "stream"
  /\ IF owner = Nobody THEN UNCHANGED syncFaults ELSE Fault
  /\ owner' = w
  /\ fetch' = [fetch EXCEPT ![w] = ResumeAt]
  /\ UNCHANGED <<logVars, marked, graph, offset, dead, unwritten, mode, batch,
                 tries, routed, pollVars>>

InHand(w) == batch[w][1] < batch[w][2]

Fetch(w) ==
  /\ owner = w /\ ~InHand(w) /\ fetch[w] < Len(topic)
  /\ \E end \in fetch[w] + 1 .. Len(topic) :
       /\ batch' = [batch EXCEPT ![w] = <<fetch[w], end>>]
       /\ fetch' = [fetch EXCEPT ![w] = end]
  /\ UNCHANGED <<logVars, marked, graph, offset, owner, dead, unwritten, mode,
                 tries, routed, pollVars, syncFaults>>

Attempt(w) ==
  /\ InHand(w) /\ w \notin routed /\ tries[w] < MaxAttempts
  /\ \E ok \in BOOLEAN :
       /\ WriteEdge(topic[batch[w][1] + 1], ok)
       /\ IF ok THEN routed' = routed \cup {w} /\ UNCHANGED tries
          ELSE tries' = [tries EXCEPT ![w] = @ + 1] /\ UNCHANGED routed
  /\ UNCHANGED <<logVars, marked, offset, owner, dead, unwritten, mode, fetch,
                 batch, pollVars>>

(* Out of attempts.  An error of the producer is logged and nothing else.  *)
DeadLetter(w) ==
  /\ InHand(w) /\ w \notin routed /\ tries[w] = MaxAttempts
  /\ \/ dead' = dead \cup {batch[w][1]} /\ UNCHANGED <<unwritten, syncFaults>>
     \/ Fault /\ unwritten' = unwritten \cup {batch[w][1]} /\ UNCHANGED dead
  /\ routed' = routed \cup {w}
  /\ UNCHANGED <<logVars, marked, graph, offset, owner, mode, fetch, batch,
                 tries, pollVars>>

Restart(w, m) ==
  /\ mode' = [mode EXCEPT ![w] = m]
  /\ owner' = IF owner = w THEN Nobody ELSE owner
  /\ batch' = [batch EXCEPT ![w] = Empty]
  /\ tries' = [tries EXCEPT ![w] = 0]
  /\ routed' = routed \ {w}
  /\ rows' = [rows EXCEPT ![w] = <<>>]
  /\ written' = [written EXCEPT ![w] = {}]
  /\ UNCHANGED <<logVars, marked, graph, offset, dead, unwritten, fetch>>

(* What a commit vouches for.  Variant: the whole batch in hand.           *)
SettledBatch(w) == batch[w][2]
Settled(w) == batch[w][1] + 1

(* The offset after the message in hand, whatever the group's offset is by *)
(* now; without the partition the commit raises, the consumer is closed    *)
(* and started again.                                                      *)
CommitOffset(w) ==
  /\ w \in routed /\ owner = w
  /\ offset' = Settled(w)
  /\ batch' = [batch EXCEPT ![w] = <<@[1] + 1, @[2]>>]
  /\ tries' = [tries EXCEPT ![w] = 0]
  /\ routed' = routed \ {w}
  /\ UNCHANGED <<logVars, marked, graph, owner, dead, unwritten, mode, fetch,
                 pollVars, syncFaults>>

CommitRefused(w) ==
  /\ w \in routed
  /\ IF owner # w THEN UNCHANGED syncFaults ELSE Fault
  /\ Restart(w, "stream")

-----------------------------------------------------------------------------
(* The fallback.                                                           *)

Unsynced == ledger \ marked

(* The oldest unsynced rows, in an order of their timestamps.  The worker  *)
(* sets no tenant: here its role is one that row level security exempts.   *)
PollRead(w) ==
  /\ mode[w] = "poll" /\ rows[w] = <<>> /\ written[w] = {} /\ Unsynced # {}
  /\ \E r \in UNION {[1..n -> Unsynced] : n \in 1..PollLimit} :
       /\ \A i, j \in DOMAIN r : r[i] = r[j] => i = j
       /\ Len(r) = PollLimit \/ \A t \in Unsynced : \E i \in DOMAIN r : r[i] = t
       /\ rows' = [rows EXCEPT ![w] = r]
  /\ UNCHANGED <<logVars, marked, graph, mode, streamVars, written, syncFaults>>

(* The rows the UPDATE will name.  Variant: those that failed as well.     *)
DeliveredAlways(w, ok) == written[w] \cup {Head(rows[w])}
Delivered(w, ok) == IF ok THEN written[w] \cup {Head(rows[w])} ELSE written[w]

PollWrite(w) ==
  /\ rows[w] # <<>>
  /\ \E ok \in BOOLEAN :
       /\ WriteEdge(Head(rows[w]), ok)
       /\ written' = [written EXCEPT ![w] = Delivered(w, ok)]
  /\ rows' = [rows EXCEPT ![w] = Tail(@)]
  /\ UNCHANGED <<logVars, marked, mode, streamVars>>

(* One UPDATE for the rows written; its failure leaves them for later.     *)
PollMark(w) ==
  /\ mode[w] = "poll" /\ rows[w] = <<>> /\ written[w] # {}
  /\ \/ marked' = marked \cup written[w] /\ UNCHANGED syncFaults
     \/ Fault /\ UNCHANGED marked
  /\ written' = [written EXCEPT ![w] = {}]
  /\ UNCHANGED <<logVars, graph, mode, streamVars, rows>>

-----------------------------------------------------------------------------
Die(w) == mode[w] \in {"stream", "poll"} /\ Fault /\ Restart(w, "ended")

Revive(w) ==
  /\ w \in Supervised /\ mode[w] = "ended"
  /\ mode' = [mode EXCEPT ![w] = "starting"]
  /\ UNCHANGED <<logVars, marked, graph, streamVars, pollVars, syncFaults>>

Consume(w) == Fetch(w) \/ Attempt(w) \/ DeadLetter(w) \/ CommitOffset(w)
              \/ CommitRefused(w)
Poll(w)    == PollRead(w) \/ PollWrite(w) \/ PollMark(w)

SyncNext ==
  \/ \E t \in Tx : Ledger(t) \/ Send(t)
  \/ \E w \in Syncer :
       Probe(w) \/ Assign(w) \/ Consume(w) \/ Poll(w) \/ Die(w) \/ Revive(w)

(* A started worker gets as far as its loop or returns, a supervisor       *)
(* restarts what has ended, the group assigns a free partition and the     *)
(* loops of a live worker go on.  Nothing is assumed of the publication:   *)
(* the outbox gives up on some events and never sees others.  Faults are   *)
(* bounded, never required.                                                *)
SyncFairness ==
  \A w \in Syncer :
    /\ WF_syncVars(Probe(w)) /\ WF_syncVars(Revive(w))
    /\ WF_syncVars(owner = Nobody /\ Assign(w))
    /\ WF_syncVars(Consume(w)) /\ WF_syncVars(Poll(w))

SyncSpec == SyncInit /\ [][SyncNext]_syncVars /\ SyncFairness

SyncTypeOK ==
  /\ ledger \subseteq Tx /\ graph \subseteq ledger /\ marked \subseteq ledger
  /\ topic \in Seq(Tx) /\ offset \in 0..Len(topic)
  /\ owner \in Syncer \cup {Nobody} /\ routed \subseteq Syncer
  /\ dead \cup unwritten \subseteq 0..Len(topic)
  /\ mode \in [Syncer -> {"starting", "stream", "poll", "ended"}]
  /\ \A w \in Syncer : tries[w] \in 0..MaxAttempts /\ batch[w][2] <= Len(topic)

(* Committing an offset vouches for every message before it: its edge is   *)
(* in the graph, it is in the dead letter topic, or the dead letter was    *)
(* one of those the producer failed to write; also when the partition      *)
(* changed hands in the middle of a batch and an older offset is committed *)
(* (sync_worker.py:219-234).                                               *)
CommittedIsSettled ==
  \A o \in 0..offset - 1 :
    topic[o + 1] \in graph \/ o \in dead \cup unwritten

(* A row is marked as synced only when its edge is in the graph, although  *)
(* writes and the UPDATE that marks them fail independently                *)
(* (sync_worker.py:394-417).                                               *)
MarkedIsInGraph == marked \subseteq graph

(* The two together: neither source forgets a transaction that is not in   *)
(* the graph (sync_worker.py:219-234 and 394-417).                         *)
SyncSettled == CommittedIsSettled /\ MarkedIsInGraph

(* A transaction that is published, or that some worker polls the table    *)
(* for, is not left out of both the graph and the dead letter handling for *)
(* ever, through crashes, rebalances and failed writes, unless every       *)
(* worker has ended for good; provided the database role of a worker that  *)
(* polls sees the rows (sync_worker.py:431-486).  Nothing is promised for  *)
(* a transaction whose event the outbox withholds while nobody polls.      *)
Handled(t) ==
  \/ t \in graph
  \/ \E o \in dead \cup unwritten : topic[o + 1] = t
Offered(t) == sent[t] > 0 \/ (t \in ledger /\ \E w \in Syncer : mode[w] = "poll")
Deserted == \A w \in Syncer : mode[w] = "ended" /\ w \notin Supervised
EventuallyInGraph ==
  \A t \in Tx : []<>(Offered(t) => Handled(t) \/ Deserted)
=============================================================================
