---------------------------- MODULE FeedbackLoop ----------------------------
(***************************************************************************)
(* The model of the anomaly score and what analysts teach it               *)
(* (services/feedback_loop.py, services/isolation_forest.py,               *)
(* routers/ml_feedback.py).  Every server has a model of its own in        *)
(* memory; the samples are in Postgres.  A model is the number of samples  *)
(* it was fitted on, the newest thousand of them.                          *)
(***************************************************************************)
EXTENDS Integers, FiniteSets

CONSTANTS
  Recorder,    \* background tasks of resolve_alert that record a sample
  Server,      \* processes
  Trainer,     \* bound: trainings under way at once
  Every,       \* a training is due at each multiple of this (5)
  MaxSamples   \* bound: samples

NoModel == -1       \* startup could not read the database
History == 0        \* fitted on transactions, or on made-up ones
NoServer == "none"

(* A training may miss the sample that is being recorded: of two at least  *)
(* it has one to learn from.                                               *)
ASSUME FeedbackAssumption ==
  /\ Every \in Nat \ {0, 1} /\ MaxSamples \in Nat
  /\ IsFiniteSet(Recorder) /\ NoServer \notin Server

VARIABLES
  samples,   \* committed rows of ml_feedback_samples
  recording, \* recording[r]: where a sample is inserted and not committed
  training,  \* training[t]: a task, and what it has read
  model,     \* model[s]: _iforest_model of a server
  excuses    \* why samples may be left out (history)

feedbackVars == <<samples, recording, training, model, excuses>>

NoTask == [at |-> "none", on |-> NoServer, read |-> History]
Task(step, s, n) == [at |-> step, on |-> s, read |-> n]

FeedbackInit ==
  /\ samples = 0 /\ recording = [r \in Recorder |-> NoServer]
  /\ training = [t \in Trainer |-> NoTask]
  /\ model \in [Server -> {History, NoModel}]
  /\ excuses = {}

Open == {r \in Recorder : recording[r] # NoServer}

(* record_feedback inserts and counts: its own row and those committed.    *)
(* Variant: it counts first.                                               *)
CountFirst == samples
Count == samples + 1

(* ... and dispatches the training, which is due, before its own row is    *)
(* committed.  A tenant's alert is not seen without naming the tenant where *)
(* row level security is in force: then nothing is recorded.               *)
Record(r, s) ==
  /\ recording[r] = NoServer /\ samples + Cardinality(Open) < MaxSamples
  /\ recording' = [recording EXCEPT ![r] = s]
  /\ IF Count > 0 /\ Count % Every = 0
     THEN \E t \in Trainer : /\ training[t] = NoTask
                             /\ training' = [training EXCEPT ![t] = Task("due", s, History)]
     ELSE UNCHANGED training
  /\ excuses' = IF Open = {} THEN excuses ELSE excuses \cup {"overlap"}
  /\ UNCHANGED <<samples, model>>

Commit(r) ==
  /\ recording[r] # NoServer /\ recording' = [recording EXCEPT ![r] = NoServer]
  /\ \/ samples' = samples + 1 /\ UNCHANGED excuses
     \/ samples' = samples /\ excuses' = excuses \cup {"failure"}
  /\ UNCHANGED <<training, model>>

(* POST /retrain                                                           *)
RetrainNow(s) ==
  /\ \E t \in Trainer : /\ training[t] = NoTask
                        /\ training' = [training EXCEPT ![t] = Task("due", s, History)]
  /\ UNCHANGED <<samples, recording, model, excuses>>

(* get_iforest_score where no model is: the request trains one.            *)
ScoreUntrained(s) ==
  /\ model[s] = NoModel
  /\ \E t \in Trainer : /\ training[t] = NoTask
                        /\ training' = [training EXCEPT ![t] = Task("fit", s, History)]
  /\ UNCHANGED <<samples, recording, model, excuses>>

(* retrain_model_with_feedback reads; without samples there is no more.    *)
TrainRead(t) ==
  /\ training[t].at = "due"
  /\ training' = [training EXCEPT ![t] =
       IF samples = 0 THEN NoTask ELSE Task("fit", training[t].on, samples)]
  /\ UNCHANGED <<samples, recording, model, excuses>>

(* Whatever is there by now is replaced, a newer model too.                *)
TrainInstall(t) ==
  /\ training[t].at = "fit"
  /\ model' = [model EXCEPT ![training[t].on] = training[t].read]
  /\ excuses' = IF training[t].read < model[training[t].on]
                THEN excuses \cup {"overtaken"} ELSE excuses
  /\ training' = [training EXCEPT ![t] = NoTask]
  /\ UNCHANGED <<samples, recording>>

(* "Online retraining failed": the model stays.                            *)
TrainFails(t) ==
  /\ training[t].at # "none"
  /\ training' = [training EXCEPT ![t] = NoTask]
  /\ excuses' = excuses \cup {"failure"}
  /\ UNCHANGED <<samples, recording, model>>

(* A server is restarted, and trains on transactions before it serves.     *)
RestartServer(s) ==
  /\ model' \in {[model EXCEPT ![s] = m] : m \in {History, NoModel}}
  /\ recording' = [r \in Recorder |-> IF recording[r] = s THEN NoServer ELSE recording[r]]
  /\ training' = [t \in Trainer |-> IF training[t].on = s THEN NoTask ELSE training[t]]
  /\ excuses' = excuses \cup {"failure"}
  /\ UNCHANGED samples

FeedbackNext ==
  \/ \E s \in Server : \/ \E r \in Recorder : Record(r, s)
                       \/ RetrainNow(s) \/ ScoreUntrained(s) \/ RestartServer(s)
  \/ \E r \in Recorder : Commit(r)
  \/ \E t \in Trainer : TrainRead(t) \/ TrainInstall(t) \/ TrainFails(t)

FeedbackSpec == FeedbackInit /\ [][FeedbackNext]_feedbackVars

(* When nothing is under way, some server has learned from every sample up *)
(* to the last multiple of Every, but for one that was not committed when  *)
(* its training read; unless two samples were recorded at the same time    *)
(* (their counts may step over the multiple), an older training ended      *)
(* last, or a recording, a training or a server failed                     *)
(* (feedback_loop.py:91-96, "automatic online model retraining").          *)
FeedbackLearned ==
  Open = {} /\ (\A t \in Trainer : training[t] = NoTask) /\ excuses = {} =>
    LET due == (samples \div Every) * Every
    IN due > 0 => \E s \in Server : model[s] >= due - 1
=============================================================================
