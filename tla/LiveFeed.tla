------------------------------ MODULE LiveFeed ------------------------------
(***************************************************************************)
(* The live stream of events to dashboards (routers/metrics.py): every     *)
(* process sends a message to its own clients one by one, awaiting each,   *)
(* while clients come and go; then it publishes it for the other processes,*)
(* whose listeners do the same.  Here the messages are for one tenant, and *)
(* Client are those that may see them.                                     *)
(***************************************************************************)
EXTENDS Naturals, Sequences, FiniteSets

CONSTANTS
  Message,    \* messages, each broadcast by a request of its own
  Process,    \* API processes
  PidNumber,  \* what os.getpid() may return
  Client,     \* dashboards with a live socket
  MaxMoves    \* bound: connections opened and closed

New == "new"
Gone == "gone"
Quiet == "idle"

ASSUME FeedAssumption ==
  /\ MaxMoves \in Nat
  /\ Process \cap {New, Gone} = {} /\ Quiet \notin Message

VARIABLES
  pid,       \* pid[p]: what os.getpid() returns in p, a number of its container
  at,        \* at[c]: the process a socket is connected to, New or Gone
  telling,   \* telling[m]: how far the broadcast of m is, and in what process
  listener,  \* listener[p]: the message the listener of p is sending
  mail,      \* mail[p]: envelopes [message, pid] on their way to p
  loop,      \* loop[m][p]: the iteration that sends m to the clients of p
  got,       \* got[c][m]: how often c received m
  audience,  \* audience[m]: clients that should hear of m (history)
  moves,     \* connections opened and closed so far
  churned,   \* messages during whose sending others came or went (history)
  unheard    \* messages that Redis did not pass on (history)

feedVars == <<pid, at, telling, listener, mail, loop, got, audience, moves, churned, unheard>>

(* One entry of a table of two indices.                                   *)
Put(table, i, j, value) == [table EXCEPT ![i] = [table[i] EXCEPT ![j] = value]]

Here(p) == {c \in Client : at[c] = p}
Loop(on, first, done, failed) ==
  [on |-> on, first |-> first, done |-> done, failed |-> failed]
NoLoop == Loop(FALSE, {}, {}, {})
Said(step, p) == [at |-> step, in |-> p]
NoCall == Said("no", Gone)

FeedInit ==
  /\ pid \in [Process -> PidNumber]
  /\ at \in [Client -> Process \cup {New}] /\ telling = [m \in Message |-> NoCall]
  /\ listener = [p \in Process |-> Quiet] /\ mail = [p \in Process |-> <<>>]
  /\ loop = [m \in Message |-> [p \in Process |-> NoLoop]]
  /\ got = [c \in Client |-> [m \in Message |-> 0]]
  /\ audience = [m \in Message |-> {}] /\ moves = 0 /\ churned = {} /\ unheard = {}

-----------------------------------------------------------------------------
(* _send_local.                                                            *)
Sending(m, p) == loop[m][p].on
Started(m, p) == Put(loop, m, p, Loop(Here(p) # {}, Here(p), {}, {}))

(* The iterator notices that the dictionary has another size.              *)
Changed(m, p) == Cardinality(Here(p)) # Cardinality(loop[m][p].first)

(* Variant of AfterFailure: it is taken out of the dictionary at once.     *)
AfterFailureDropped(c) == [at EXCEPT ![c] = Gone]

(* A client that cannot be sent to is only remembered.                     *)
AfterFailure(c) == at

(* One that joined meanwhile may be met or not.                            *)
SendOne(m, p) ==
  /\ Sending(m, p) /\ ~Changed(m, p)
  /\ \E c \in Here(p) \ loop[m][p].done, ok \in BOOLEAN :
       /\ got' = IF ok THEN Put(got, c, m, got[c][m] + 1) ELSE got
       /\ at' = IF ok THEN at ELSE AfterFailure(c)
       /\ loop' = Put(loop, m, p, Loop(TRUE, loop[m][p].first, loop[m][p].done \cup {c},
                       IF ok THEN loop[m][p].failed ELSE loop[m][p].failed \cup {c}))
       /\ audience' = IF ok THEN audience ELSE [audience EXCEPT ![m] = @ \ {c}]
  /\ UNCHANGED <<pid, telling, listener, mail, moves, churned, unheard>>

(* Other messages that are being sent to the clients of p.                 *)
Disturbed(p, m) == {n \in Message \ {m} : Sending(n, p)}

SendEnd(m, p) ==
  /\ Sending(m, p) /\ ~Changed(m, p)
  /\ Here(p) \cap loop[m][p].first \subseteq loop[m][p].done
  /\ at' = [c \in Client |-> IF c \in loop[m][p].failed THEN Gone ELSE at[c]]
  /\ loop' = Put(loop, m, p, NoLoop)
  /\ churned' = IF at' = at THEN churned ELSE churned \cup Disturbed(p, m)
  /\ audience' = [n \in Message |-> audience[n] \ loop[m][p].failed]
  /\ UNCHANGED <<pid, telling, listener, mail, got, moves, unheard>>

(* RuntimeError: nobody else hears m in this process, and the caller of    *)
(* broadcast gets the error; the listener logs it.                         *)
SendBreaks(m, p) ==
  /\ Sending(m, p) /\ Changed(m, p)
  /\ loop' = Put(loop, m, p, NoLoop)
  /\ telling' = IF telling[m] = Said("local", p)
                THEN [telling EXCEPT ![m] = Said("raised", p)] ELSE telling
  /\ UNCHANGED <<pid, at, listener, mail, got, audience, moves, churned, unheard>>

-----------------------------------------------------------------------------
(* broadcast, called by some request in process p.                         *)
BroadcastStart(m, p) ==
  /\ telling[m] = NoCall
  /\ telling' = [telling EXCEPT ![m] = Said("local", p)]
  /\ loop' = Started(m, p)
  /\ audience' = [audience EXCEPT ![m] = {c \in Client : at[c] \in Process}]
  /\ UNCHANGED <<pid, at, listener, mail, got, moves, churned, unheard>>

(* Without Redis, or a listener subscribed, others do not hear of it.      *)
PassOn(m) ==
  /\ telling[m].at = "local" /\ ~Sending(m, telling[m].in)
  /\ telling' = [telling EXCEPT ![m] = Said("returned", @.in)]
  /\ \/ /\ mail' = [p \in Process |->
                     Append(mail[p], [message |-> m, pid |-> pid[telling[m].in]])]
        /\ UNCHANGED unheard
     \/ unheard' = unheard \cup {m} /\ UNCHANGED mail
  /\ UNCHANGED <<pid, at, listener, loop, got, audience, moves, churned>>

(* Variant of Own: what comes back is sent again.                          *)
OwnNever(p, envelope) == FALSE

(* What this process sent itself it has already delivered; what another of *)
(* the same number sent is taken for it.                                   *)
Own(p, envelope) == envelope.pid = pid[p]

(* start_redis_ws_listener: one message after another.                     *)
Listen(p) ==
  /\ mail[p] # <<>>
  /\ listener[p] # Quiet => ~Sending(listener[p], p)
  /\ mail' = [mail EXCEPT ![p] = Tail(@)]
  /\ LET envelope == Head(mail[p]) IN
       IF Own(p, envelope) THEN UNCHANGED <<loop, listener>>
       ELSE /\ loop' = Started(envelope.message, p)
            /\ listener' = [listener EXCEPT ![p] = envelope.message]
  /\ UNCHANGED <<pid, at, telling, got, audience, moves, churned, unheard>>

-----------------------------------------------------------------------------
(* websocket_live_stream: a client connects, to any process, and leaves.   *)
Connect(c) ==
  /\ moves < MaxMoves /\ moves' = moves + 1
  /\ at[c] = New
  /\ \E p \in Process :
       /\ at' = [at EXCEPT ![c] = p]
       /\ churned' = churned \cup Disturbed(p, Quiet)
  /\ UNCHANGED <<pid, telling, listener, mail, loop, got, audience, unheard>>

Disconnect(c) ==
  /\ moves < MaxMoves /\ moves' = moves + 1
  /\ at[c] \in Process /\ at' = [at EXCEPT ![c] = Gone]
  /\ churned' = churned \cup Disturbed(at[c], Quiet)
  /\ audience' = [m \in Message |-> audience[m] \ {c}]
  /\ UNCHANGED <<pid, telling, listener, mail, loop, got, unheard>>

(* Everything but the calls of broadcast, which requests make.             *)
FeedStep ==
  \/ \E m \in Message, p \in Process : SendOne(m, p) \/ SendEnd(m, p) \/ SendBreaks(m, p)
  \/ \E m \in Message : PassOn(m)
  \/ \E p \in Process : Listen(p)
  \/ \E c \in Client : Connect(c) \/ Disconnect(c)

FeedTypeOK ==
  /\ at \in [Client -> Process \cup {New, Gone}]
  /\ \A m \in Message : telling[m].at \in {"no", "local", "returned", "raised"}
  /\ churned \cup unheard \subseteq Message

(* A message has run its course: no process has it in hand or on the way.  *)
Over(m) ==
  /\ telling[m].at \in {"returned", "raised"}
  /\ \A p \in Process :
       /\ ~Sending(m, p)
       /\ \A i \in DOMAIN mail[p] : mail[p][i].message # m

(* Another process that the operating system numbers like the sender, as   *)
(* every replica of an image may: its clients never hear of m.             *)
Namesake(m, p) == p # telling[m].in /\ pid[p] = pid[telling[m].in]

(* While nobody came or went during its sending and Redis passed it on,    *)
(* every client that stayed has received a message once, except those in a *)
(* namesake of the sender, who never do; none ever receives it twice; and  *)
(* only comings and goings make the caller of broadcast fail, a client     *)
(* that breaks off does not (routers/metrics.py:62-97, 109, 118-146).      *)
FeedReachesAll ==
  \A m \in Message :
    /\ \A c \in Client : got[c][m] <= 1
    /\ telling[m].at = "raised" => m \in churned
    /\ Over(m) /\ m \notin churned \cup unheard =>
         \A c \in audience[m] : got[c][m] = IF Namesake(m, at[c]) THEN 0 ELSE 1
=============================================================================
