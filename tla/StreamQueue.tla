---------------------------- MODULE StreamQueue ----------------------------
(***************************************************************************)
(* A Redis stream with its consumer group: enqueue_task of                 *)
(* backend/app/queue/producer.py and start_worker of queue/worker.py.  The *)
(* workers of the group read only new messages (">"), a batch at a time,   *)
(* and acknowledge each one when its handler has returned.  Every Redis    *)
(* command may fail, a read also after Redis has handed out its messages;  *)
(* a handler may raise; a worker is cancelled or killed at any await and   *)
(* may be started again.                                                   *)
(*                                                                         *)
(* A message is known by its place in the stream.  Redis is external.      *)
(***************************************************************************)
EXTENDS Naturals, Sequences, FiniteSets

CONSTANTS
  Consumers,    \* the workers, each with a consumer name of its own
  LastMessage,  \* bound: the messages are 1 .. LastMessage
  BatchSize     \* batch_size

ASSUME StreamAssumption == LastMessage \in Nat /\ BatchSize \in Nat \ {0}

Messages == 1 .. LastMessage

VARIABLES
  added,        \* messages in the stream
  delivered,    \* the last one handed out to the group
  pendingOf,    \* the pending list of each consumer
  ackedMessages, \* the messages acknowledged
  consumerPc,   \* where each worker is
  batchOf,      \* the messages it has read and not gone through
  finished      \* history: the messages whose handler has returned

streamVars == <<added, delivered, pendingOf, ackedMessages>>
consumerVars == <<consumerPc, batchOf>>
queueVars == <<streamVars, consumerVars, finished>>

StreamTypeOK ==
  /\ added \in 0 .. LastMessage
  /\ delivered \in 0 .. added
  /\ pendingOf \in [Consumers -> SUBSET (1 .. delivered)]
  /\ ackedMessages \subseteq 1 .. delivered
  /\ consumerPc \in [Consumers -> {"stopped", "read", "entry", "handle", "ack"}]
  /\ batchOf \in [Consumers -> Seq(1 .. delivered)]
  /\ finished \subseteq Messages

StreamInit ==
  /\ added = 0
  /\ delivered = 0
  /\ pendingOf = [c \in Consumers |-> {}]
  /\ ackedMessages = {}
  /\ consumerPc = [c \in Consumers |-> "stopped"]
  /\ batchOf = [c \in Consumers |-> <<>>]
  /\ finished = {}

-----------------------------------------------------------------------------

Enqueue ==
  /\ added < LastMessage
  /\ added' = added + 1
  /\ UNCHANGED <<delivered, pendingOf, ackedMessages, consumerVars, finished>>

(* A worker starts, and makes the group if it is not there.                  *)
StartWorker(c) ==
  /\ consumerPc[c] = "stopped"
  /\ consumerPc' = [consumerPc EXCEPT ![c] = "read"]
  /\ UNCHANGED <<streamVars, batchOf, finished>>

(* XREADGROUP hands out the messages nobody has been given, at most a batch; while
   there are none it answers nothing, and the worker asks again.             *)
Fresh == {m \in delivered + 1 .. added : m <= delivered + BatchSize}

HandOut(c) ==
  /\ Fresh # {}
  /\ delivered' = delivered + Cardinality(Fresh)
  /\ pendingOf' = [pendingOf EXCEPT ![c] = @ \cup Fresh]

(* XREADGROUP with ">".                                                      *)
ReadNew(c) ==
  /\ consumerPc[c] = "read"
  /\ HandOut(c)
  /\ batchOf' = [batchOf EXCEPT ![c] = [i \in 1 .. Cardinality(Fresh) |-> delivered + i]]
  /\ consumerPc' = [consumerPc EXCEPT ![c] = "entry"]
  /\ UNCHANGED <<added, ackedMessages, finished>>

(* The reply is lost; the worker sleeps and reads again.                     *)
ReadLost(c) ==
  /\ consumerPc[c] = "read"
  /\ HandOut(c)
  /\ UNCHANGED <<added, ackedMessages, consumerVars, finished>>

Entry(c) == Head(batchOf[c])

(* The handler is called with the next entry, or the batch is done.          *)
Process(c) ==
  /\ consumerPc[c] = "entry"
  /\ consumerPc' = [consumerPc EXCEPT ![c] = IF batchOf[c] = <<>> THEN "read" ELSE "handle"]
  /\ UNCHANGED <<streamVars, batchOf, finished>>

HandlerReturns(c) ==
  /\ consumerPc[c] = "handle"
  /\ finished' = finished \cup {Entry(c)}
  /\ consumerPc' = [consumerPc EXCEPT ![c] = "ack"]
  /\ UNCHANGED <<streamVars, batchOf>>

NextEntry(c) ==
  /\ consumerPc' = [consumerPc EXCEPT ![c] = "entry"]
  /\ batchOf' = [batchOf EXCEPT ![c] = Tail(@)]

(* XACK, whose answer may be lost.                                           *)
Acknowledge(c) ==
  /\ consumerPc[c] = "ack"
  /\ pendingOf' = [pendingOf EXCEPT ![c] = @ \ {Entry(c)}]
  /\ ackedMessages' = ackedMessages \cup {Entry(c)}
  /\ NextEntry(c)
  /\ UNCHANGED <<added, delivered, finished>>

(* Mutant: a handler that raises is acknowledged like one that returns.      *)
EntryFailsAcknowledged(c) ==
  /\ consumerPc[c] \in {"handle", "ack"}
  /\ pendingOf' = [pendingOf EXCEPT ![c] = @ \ {Entry(c)}]
  /\ ackedMessages' = ackedMessages \cup {Entry(c)}
  /\ NextEntry(c)
  /\ UNCHANGED <<added, delivered, finished>>

(* The handler or the XACK raises: the message stays in the pending list.    *)
EntryFails(c) ==
  /\ consumerPc[c] \in {"handle", "ack"}
  /\ NextEntry(c)
  /\ UNCHANGED <<streamVars, finished>>

StopWorker(c) ==
  /\ consumerPc[c] # "stopped"
  /\ consumerPc' = [consumerPc EXCEPT ![c] = "stopped"]
  /\ batchOf' = [batchOf EXCEPT ![c] = <<>>]
  /\ UNCHANGED <<streamVars, finished>>

StreamNext ==
  \/ Enqueue
  \/ \E c \in Consumers :
       \/ StartWorker(c) \/ ReadNew(c) \/ ReadLost(c) \/ Process(c) \/ HandlerReturns(c)
       \/ Acknowledge(c) \/ EntryFails(c) \/ StopWorker(c)

StreamSpec == StreamInit /\ [][StreamNext]_queueVars

-----------------------------------------------------------------------------

(* What was handed out is acknowledged, after its handler has returned, or is on
   the pending list of one worker, never both.                               *)
OneOwnerOrAcknowledged ==
  /\ ackedMessages \subseteq finished
  /\ \A m \in 1 .. delivered : m \in ackedMessages \/ \E c \in Consumers : m \in pendingOf[c]
  /\ \A c \in Consumers : pendingOf[c] \cap ackedMessages = {}
  /\ \A c, d \in Consumers : c # d => pendingOf[c] \cap pendingOf[d] = {}

(* A worker goes through messages of its own pending list only.              *)
WorkIsPending ==
  \A c \in Consumers : \A i \in DOMAIN batchOf[c] : batchOf[c][i] \in pendingOf[c]

(* However workers overlap, fail, lose an answer and restart, a message whose
   handler has not returned stays on the pending list of exactly one worker, and
   no worker has one in hand that another owns or that is acknowledged.  That is
   all worker.py:70 keeps of its "stays in PEL for retry / dead-letter handling":
   no code reads a pending list again, so nothing here says it is ever handled. *)
UnhandledStaysPending == OneOwnerOrAcknowledged /\ WorkIsPending
=============================================================================
