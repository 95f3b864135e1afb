-------------------------- MODULE WriteBehindQueue --------------------------
(***************************************************************************)
(* The write-behind queue of crates/core/src/services/write_behind_queue.rs *)
(* together with the shutdown handler of crates/api/src/main.rs.            *)
(*                                                                         *)
(* Request handlers enqueue background tasks on an unbounded channel.  One  *)
(* batcher task moves them from the channel to a batch and flushes the      *)
(* batch to the database when it is full, on a 100 ms tick, or when the     *)
(* channel is closed.  On SIGTERM the handler calls flush(), which raises   *)
(* the shutdown flag and polls until the batcher has finished.              *)
(*                                                                         *)
(* A task is the number of the enqueue call that sent it; its payload is    *)
(* abstracted to its kind.  "applied" means that the writer of the task's   *)
(* kind has run over it, whether or not the database accepted the row.      *)
(***************************************************************************)
EXTENDS Integers, Sequences

CONSTANTS
    Kinds,       \* the kinds of BackgroundTask of this instance
    BatchSize,   \* tasks that make a batch full (10 in the code)
    MaxAttempts, \* flush() calls the shutdown handler makes (3 in the code)
    MaxTasks     \* bound: enqueue calls in a behaviour

LeadCreation == "LeadCreation"

\* The variants of the BackgroundTask enum.
BackgroundTask == {LeadCreation, "BuyerResponse", "LeadUpdate", "PayloadUpdate", "PulsarLog"}

ASSUME KindsAssumption == Kinds \subseteq BackgroundTask
ASSUME BoundsAssumption ==
    /\ BatchSize \in Nat \ {0}
    /\ MaxAttempts \in Nat \ {0}
    /\ MaxTasks \in Nat

VARIABLES
    kindOf,   \* kindOf[t] is the kind of the t-th enqueued task
    channel,  \* the mpsc channel: tasks sent and not yet received
    batch,    \* the batcher's local batch
    writing,  \* the tasks flush_batch has drained and is writing
    pending,  \* kinds whose writer has not yet returned in the join of flush_batch
    applied,  \* tasks a writer has run over
    lost,     \* tasks no writer will ever see
    pc,       \* the batcher: "select", "create", "join" or "finished"
    cause,    \* the branch of the select that called flush_batch
    flag,     \* shutdown_flag
    open,     \* some sender of the channel exists
    handler,  \* the shutdown handler: "idle", "polling", "sleeping" or "complete"
    attempt,  \* the flush() call the handler is in
    flushOk   \* a flush() call returned Ok

batcherVars == <<batch, writing, pending, applied, pc, cause>>
handlerVars == <<handler, attempt, flushOk>>
vars == <<kindOf, channel, batcherVars, lost, flag, open, handlerVars>>

Elems(s) == {s[i] : i \in DOMAIN s}

sent == Len(kindOf)

\* The drained tasks of one kind: the vectors flush_batch groups the batch into.
Group(k) == {t \in Elems(writing) : kindOf[t] = k}

-----------------------------------------------------------------------------
(* WriteBehindQueue::new and the handler waiting for a signal.              *)

Init ==
    /\ kindOf = <<>> /\ channel = <<>> /\ batch = <<>> /\ writing = <<>>
    /\ pending = {} /\ applied = {} /\ lost = {}
    /\ pc = "select" /\ cause = "none"
    /\ flag = FALSE /\ open = TRUE
    /\ handler = "idle" /\ attempt = 0 /\ flushOk = FALSE

\* enqueue: a send to a batcher that has finished fails, and only warns.
Enqueue(k) ==
    /\ open
    /\ sent < MaxTasks
    /\ kindOf' = Append(kindOf, k)
    /\ \/ /\ pc # "finished"
          /\ channel' = Append(channel, sent + 1)
          /\ UNCHANGED lost
       \/ /\ pc = "finished"
          /\ lost' = lost \cup {sent + 1}
          /\ UNCHANGED channel
    /\ UNCHANGED <<batcherVars, flag, open, handlerVars>>

-----------------------------------------------------------------------------
(* The batcher task.                                                        *)

\* flush_batch drains the batch b, for the select branch c.
BeginFlush(b, c) ==
    /\ writing' = b
    /\ batch' = <<>>
    /\ pc' = "create"
    /\ cause' = c

\* The loop breaks: the receiver is dropped with what the channel still holds.
Exit ==
    /\ pc' = "finished"
    /\ lost' = lost \cup Elems(channel)
    /\ channel' = <<>>

\* One task leaves the channel and the batch becomes b.
ReceiveInto(b, full) ==
    /\ pc = "select"
    /\ channel # <<>>
    /\ channel' = Tail(channel)
    /\ \/ /\ full
          /\ BeginFlush(b, "recv")
       \/ /\ ~full
          /\ batch' = b
          /\ UNCHANGED <<writing, pc, cause>>
    /\ UNCHANGED <<kindOf, pending, applied, lost, flag, open, handlerVars>>

\* Mutant: the task is put in front.
RecvFront == ReceiveInto(<<Head(channel)>> \o batch, Len(batch) + 1 >= BatchSize)

\* receiver.recv() returns Some(task): push it, flush when the batch is full.
Recv == ReceiveInto(Append(batch, Head(channel)), Len(batch) + 1 >= BatchSize)

\* receiver.recv() returns None: flush the remaining batch and leave the loop.
RecvClosed ==
    /\ pc = "select"
    /\ channel = <<>>
    /\ ~open
    /\ \/ /\ batch # <<>>
          /\ BeginFlush(batch, "closed")
          /\ UNCHANGED <<channel, lost>>
       \/ /\ batch = <<>>
          /\ Exit
          /\ UNCHANGED <<batch, writing, cause>>
    /\ UNCHANGED <<kindOf, pending, applied, flag, open, handlerVars>>

\* The tick flushes the batch before it looks at the flag.
TickFlush(c) ==
    /\ pc = "select"
    /\ batch # <<>>
    /\ BeginFlush(batch, c)
    /\ UNCHANGED <<kindOf, channel, pending, applied, lost, flag, open, handlerVars>>

\* The tick finds the flag raised and no batch to write.
TickExit ==
    /\ pc = "select"
    /\ batch = <<>>
    /\ flag
    /\ Exit
    /\ UNCHANGED <<kindOf, batch, writing, pending, applied, cause, flag, open, handlerVars>>

\* Mutants: the tick never looks at the flag; it never flushes; it leaves the
\* loop with the batch unwritten.
TickIgnoresFlag == TickFlush("recv")
TickNeverFlushes == TickExit
TickExitsFirst ==
    \/ ~flag /\ TickFlush("tick")
    \/ /\ pc = "select" /\ flag
       /\ pc' = "finished"
       /\ lost' = lost \cup Elems(channel) \cup Elems(batch)
       /\ channel' = <<>> /\ batch' = <<>>
       /\ UNCHANGED <<kindOf, writing, pending, applied, cause, flag, open, handlerVars>>

\* interval.tick().  One that finds neither a batch nor the flag changes nothing.
Tick == TickFlush("tick") \/ TickExit

\* Mutant: the creations are one more member of the join.
CreateLeadsInJoin ==
    /\ pc = "create"
    /\ pc' = "join"
    /\ pending' = Kinds
    /\ UNCHANGED <<kindOf, channel, batch, writing, applied, cause, lost, flag, open, handlerVars>>

\* flush_batch awaits batch_create_leads before it starts the other writers.
CreateLeads ==
    /\ pc = "create"
    /\ applied' = applied \cup Group(LeadCreation)
    /\ pc' = "join"
    /\ pending' = Kinds \ {LeadCreation}
    /\ UNCHANGED <<kindOf, channel, batch, writing, cause, lost, flag, open, handlerVars>>

\* One of the four writers of tokio::join! runs over its group and returns.
WriteGroup(k) ==
    /\ pc = "join"
    /\ k \in pending
    /\ applied' = applied \cup Group(k)
    /\ pending' = pending \ {k}
    /\ UNCHANGED <<kindOf, channel, batch, writing, pc, cause, lost, flag, open, handlerVars>>

\* flush_batch returns to the select branch that called it.
ReturnFromFlush ==
    /\ pc = "join"
    /\ writing' = <<>>
    /\ pending' = {}
    /\ \/ /\ cause = "closed" \/ (cause = "tick" /\ flag)
          /\ Exit
       \/ /\ cause = "recv" \/ (cause = "tick" /\ ~flag)
          /\ pc' = "select"
          /\ UNCHANGED <<lost, channel>>
    /\ UNCHANGED <<kindOf, batch, applied, cause, flag, open, handlerVars>>

\* Mutant: flush_batch goes on once some writer of the join has returned.
FlushDoneEarly == pending # Kinds \ {LeadCreation} /\ ReturnFromFlush

\* All four writers of the join have returned.
FlushDone == pending = {} /\ ReturnFromFlush

-----------------------------------------------------------------------------
(* flush() and the shutdown handler.                                        *)

\* SIGTERM or Ctrl-C: the first call of flush() raises the flag.  The sender
\* it drops is a clone of its own, so the channel stays open.
Signal ==
    /\ handler = "idle"
    /\ handler' = "polling"
    /\ attempt' = 1
    /\ flag' = TRUE
    /\ UNCHANGED <<kindOf, channel, batcherVars, lost, open, flushOk>>

\* flush() sees is_finished() and returns Ok; the handler sends shutdown_tx.
FlushReturns ==
    /\ handler = "polling"
    /\ pc = "finished"
    /\ handler' = "complete"
    /\ flushOk' = TRUE
    /\ UNCHANGED <<kindOf, channel, batcherVars, lost, flag, open, attempt>>

\* flush() gives up after WRITE_BEHIND_FLUSH_TIMEOUT_SECS.  The handler waits a
\* second before the next attempt, and goes on after the last one.
FlushTimesOut ==
    /\ handler = "polling"
    /\ pc # "finished"
    /\ handler' = IF attempt < MaxAttempts THEN "sleeping" ELSE "complete"
    /\ UNCHANGED <<kindOf, channel, batcherVars, lost, flag, open, attempt, flushOk>>

\* The next attempt calls flush() again.
RetryFlush ==
    /\ handler = "sleeping"
    /\ handler' = "polling"
    /\ attempt' = attempt + 1
    /\ flag' = TRUE
    /\ UNCHANGED <<kindOf, channel, batcherVars, lost, open, flushOk>>

\* Graceful shutdown has ended and the last owner of the queue is gone: Drop
\* raises the flag, and the channel's only sender goes with the queue.
DropQueue ==
    /\ handler = "complete"
    /\ open
    /\ open' = FALSE
    /\ flag' = TRUE
    /\ UNCHANGED <<kindOf, channel, batcherVars, lost, handlerVars>>

\* main returned and the runtime is torn down: a batcher that is still running
\* is cancelled with everything it holds.
RuntimeShutdown ==
    /\ handler = "complete"
    /\ ~open
    /\ pc # "finished"
    /\ pc' = "finished"
    /\ lost' = lost \cup Elems(channel) \cup Elems(batch) \cup (Elems(writing) \ applied)
    /\ channel' = <<>> /\ batch' = <<>> /\ writing' = <<>> /\ pending' = {}
    /\ UNCHANGED <<kindOf, applied, cause, flag, open, handlerVars>>

-----------------------------------------------------------------------------
Batcher == Recv \/ RecvClosed \/ Tick \/ CreateLeads \/ (\E k \in Kinds : WriteGroup(k)) \/ FlushDone

Handler == Signal \/ FlushReturns \/ FlushTimesOut \/ RetryFlush

Next ==
    \/ \E k \in Kinds : Enqueue(k)
    \/ Batcher
    \/ Handler
    \/ DropQueue
    \/ RuntimeShutdown

Spec == Init /\ [][Next]_vars

\* The database answers every writer; select! polls its ready branches in random
\* order, so neither recv nor the tick is passed over for ever; timers fire.
Fairness ==
    /\ SF_vars(Recv) /\ SF_vars(Tick) /\ WF_vars(RecvClosed)
    /\ WF_vars(CreateLeads) /\ WF_vars(FlushDone)
    /\ \A k \in Kinds : WF_vars(WriteGroup(k))
    /\ WF_vars(FlushReturns) /\ WF_vars(FlushTimesOut) /\ WF_vars(RetryFlush)

FairSpec == Spec /\ Fairness

-----------------------------------------------------------------------------
(* Properties.                                                              *)

Tasks == 1..MaxTasks

\* Types of the state that enqueue, the batcher and the shutdown handler share.
TypeOK ==
    /\ kindOf \in Seq(Kinds) /\ Len(kindOf) <= MaxTasks
    /\ channel \in Seq(Nat) /\ batch \in Seq(Nat) /\ writing \in Seq(Nat)
    /\ pending \subseteq Kinds
    /\ applied \subseteq 1..sent /\ lost \subseteq 1..sent
    /\ pc \in {"select", "create", "join", "finished"}
    /\ cause \in {"none", "recv", "tick", "closed"}
    /\ flag \in BOOLEAN /\ open \in BOOLEAN
    /\ handler \in {"idle", "polling", "sleeping", "complete"}
    /\ attempt \in 0..MaxAttempts /\ flushOk \in BOOLEAN

\* The batch of batcher_task never grows beyond the size at which it is flushed,
\* and nothing is received while flush_batch is awaited.
BatchBound ==
    /\ Len(batch) < BatchSize
    /\ Len(writing) <= BatchSize
    /\ writing # <<>> => batch = <<>>

\* How many tasks have left the pipeline by being written.
Flushed == sent - Len(channel) - Len(batch) - Len(writing)

\* While the batcher runs, drained batch, batch and channel hold consecutive
\* tasks in the order of the enqueue calls: none is dropped, repeated or overtaken
\* on its way from enqueue to flush_batch.
PipelineOrder ==
    pc # "finished" =>
        /\ Flushed >= 0
        /\ \A i \in DOMAIN writing : writing[i] = Flushed + i
        /\ \A i \in DOMAIN batch   : batch[i] = Flushed + Len(writing) + i
        /\ \A i \in DOMAIN channel : channel[i] = Flushed + Len(writing) + Len(batch) + i

\* While the batcher runs, nothing is lost: every task that has left the pipeline
\* was seen by its writer, and none that a writer has not reached counts as applied.
NothingLostWhileRunning ==
    pc # "finished" =>
        /\ lost = {}
        /\ \A t \in 1..sent : t <= Flushed => t \in applied
        /\ \A t \in applied : t <= Flushed + Len(writing)

\* A task is applied or lost, never both, and once the batcher has finished every
\* task that was ever enqueued is one or the other.
Accounted ==
    /\ applied \cap lost = {}
    /\ pc = "finished" => applied \cup lost = 1..sent

\* Rows that reference a lead are never written before the LeadCreation tasks
\* enqueued ahead of them (the foreign key buyer_responses_lead_id_fkey).
CreationsFirst ==
    \A t \in applied : \A s \in 1..sent :
        kindOf[s] = LeadCreation /\ s < t => s \in applied

\* The tasks of one kind reach their writer in the order of the enqueue calls, so
\* a later LeadUpdate of a lead never runs in an earlier flush than an earlier one.
KindOrder ==
    \A t \in applied : \A s \in 1..sent :
        kindOf[s] = kindOf[t] /\ s < t => s \in applied

\* What a flush() that returned Ok does promise: the tasks written are the ones
\* enqueued first, with no gap between them.
FlushOkWroteAPrefix == flushOk => \E n \in 0..sent : applied = 1..n

\* The batcher leaves its loop only when everything it has received is written
\* (unless the runtime is torn down under it): the tasks that a graceful exit
\* loses are the ones it never received.
ReceivedIsWritten ==
    [][handler # "complete" /\ pc' = "finished"
         => Elems(batch) \cup Elems(writing) \subseteq applied]_vars

\* The comment on the handler's retry loop: flush() is retried "to ensure no data
\* loss on shutdown", so after a flush() that returned Ok nothing is lost.
NoDataLossOnShutdown == flushOk => lost = {}

\* The queue implements the delivery its callers rely on: a running batcher is an
\* open queue, and batch and channel are its outstanding tasks.
Delivery == INSTANCE TaskDelivery WITH closing <- flag, closed <- (pc = "finished")

\* The batcher, through channel, batches, grouped writers and shutdown, delivers
\* tasks as TaskDelivery says: in order within a kind, creations ahead of the rows
\* that reference them, and none lost before a shutdown.
Delivers == Delivery!Spec

\* Until a shutdown begins, every enqueued task is eventually written: a partial
\* batch is not left to wait for enough tasks to fill it.
EventuallyApplied ==
    \A t \in Tasks : (t <= sent) ~> (t \in applied \/ flag)

\* Once shutdown is signalled the batcher finishes, even while tasks keep coming.
ShutdownStopsBatcher == flag ~> (pc = "finished")
=============================================================================
