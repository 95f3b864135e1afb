----------------------- MODULE WriteBehindQueue_proofs -----------------------
(***************************************************************************)
(* The safety properties of WriteBehindQueue, proved for every set of       *)
(* kinds, every batch size, every number of attempts and any number of      *)
(* tasks, and the proof that the queue implements TaskDelivery.             *)
(*                                                                         *)
(* The pipeline is described by positions: while the batcher runs, tasks    *)
(* 1..Flushed have been written and the drained batch, the batch and the    *)
(* channel hold the tasks after them in order.  What PipelineOrder leaves   *)
(* open is which tasks of the drained batch are written; InFlight says so.  *)
(***************************************************************************)
EXTENDS WriteBehindQueue, TLAPS

\* Which parts of the pipeline may be non-empty at each point of the batcher.
Shape ==
    /\ pc \in {"select", "finished"} => writing = <<>>
    /\ pc \in {"create", "join", "finished"} => batch = <<>>
    /\ pc = "finished" => channel = <<>>
    /\ pc # "join" => pending = {}
    /\ LeadCreation \notin pending

\* What the shutdown handler has done.
Shutdown ==
    /\ ~open => flag
    /\ cause = "closed" => flag
    /\ handler = "sleeping" => attempt < MaxAttempts
    /\ handler # "idle" => flag
    /\ flushOk => pc = "finished" /\ handler = "complete"

\* Of the drained batch exactly the groups whose writer has returned are written,
\* and nothing behind it.
InFlight ==
    /\ pc \in {"select", "create"} => \A t \in applied : t <= Flushed
    /\ pc = "join" =>
         \A i \in DOMAIN writing : writing[i] \in applied <=> kindOf[writing[i]] \notin pending

\* A batcher that left its loop by itself had written a prefix of the tasks.
PrefixOnExit ==
    (pc = "finished" /\ handler # "complete") \/ flushOk => \E n \in 0..sent : applied = 1..n

IInv ==
    /\ TypeOK
    /\ Shape
    /\ Shutdown
    /\ BatchBound
    /\ PipelineOrder
    /\ NothingLostWhileRunning
    /\ InFlight
    /\ Accounted
    /\ CreationsFirst
    /\ KindOrder
    /\ PrefixOnExit

-----------------------------------------------------------------------------
(* Lemmas on sequences of consecutive tasks.                                *)

\* The elements of a sequence that counts on from n.
LEMMA ElemsRange ==
    ASSUME NEW s \in Seq(Nat), NEW n \in Nat, \A i \in DOMAIN s : s[i] = n + i
    PROVE  Elems(s) = (n + 1)..(n + Len(s))
<1>1. Elems(s) \subseteq (n + 1)..(n + Len(s))
  BY DEF Elems
<1>2. ASSUME NEW x \in (n + 1)..(n + Len(s)) PROVE x \in Elems(s)
  <2>1. x - n \in DOMAIN s /\ s[x - n] = x
    OBVIOUS
  <2> QED BY <2>1 DEF Elems
<1> QED BY <1>1, <1>2

\* What PipelineOrder says of the sets of tasks in the pipeline, while the batcher
\* runs: they are consecutive intervals that end with the last task sent.
LEMMA PipelineSets ==
    ASSUME TypeOK, PipelineOrder, pc # "finished"
    PROVE  /\ Flushed \in Nat
           /\ sent = Flushed + Len(writing) + Len(batch) + Len(channel)
           /\ Elems(writing) = (Flushed + 1)..(Flushed + Len(writing))
           /\ Elems(batch) = (Flushed + Len(writing) + 1)..(Flushed + Len(writing) + Len(batch))
           /\ Elems(channel) = (Flushed + Len(writing) + Len(batch) + 1)..sent
<1>1. /\ sent \in Nat /\ Len(writing) \in Nat /\ Len(batch) \in Nat /\ Len(channel) \in Nat
      /\ Flushed \in Nat
      /\ sent = Flushed + Len(writing) + Len(batch) + Len(channel)
  BY DEF TypeOK, PipelineOrder, Flushed, sent
<1>2. /\ writing \in Seq(Nat) /\ batch \in Seq(Nat) /\ channel \in Seq(Nat)
      /\ \A i \in DOMAIN writing : writing[i] = Flushed + i
      /\ \A i \in DOMAIN batch   : batch[i] = Flushed + Len(writing) + i
      /\ \A i \in DOMAIN channel : channel[i] = Flushed + Len(writing) + Len(batch) + i
  BY DEF TypeOK, PipelineOrder
<1> HIDE DEF Flushed, sent
<1>3. Elems(writing) = (Flushed + 1)..(Flushed + Len(writing))
  BY <1>1, <1>2, ElemsRange
<1>4. Elems(batch) = (Flushed + Len(writing) + 1)..(Flushed + Len(writing) + Len(batch))
  BY <1>1, <1>2, ElemsRange
<1>5. Elems(channel) = (Flushed + Len(writing) + Len(batch) + 1)..sent
  BY <1>1, <1>2, ElemsRange
<1> QED BY <1>1, <1>3, <1>4, <1>5

-----------------------------------------------------------------------------
(* The inductive invariant: one lemma per action.                           *)

\* The parts of the invariant that do not mention the shutdown handler.
Pipeline ==
    /\ Shape
    /\ BatchBound
    /\ PipelineOrder
    /\ NothingLostWhileRunning
    /\ InFlight
    /\ Accounted
    /\ CreationsFirst
    /\ KindOrder

\* The queue starts empty.
LEMMA InitIInv == Init => IInv
<1> SUFFICES ASSUME Init PROVE IInv
  OBVIOUS
<1> USE KindsAssumption, BoundsAssumption DEF Init
<1>1. TypeOK
  <2>1. kindOf \in Seq(Kinds) /\ Len(kindOf) <= MaxTasks /\ attempt \in 0..MaxAttempts
    OBVIOUS
  <2>2. channel \in Seq(Nat) /\ batch \in Seq(Nat) /\ writing \in Seq(Nat)
    OBVIOUS
  <2>3. flag \in BOOLEAN /\ open \in BOOLEAN /\ flushOk \in BOOLEAN
    OBVIOUS
  <2> QED BY <2>1, <2>2, <2>3 DEF TypeOK
<1>2. Shape /\ Shutdown /\ BatchBound /\ InFlight /\ CreationsFirst /\ KindOrder /\ PrefixOnExit
  BY DEF Shape, Shutdown, BatchBound, InFlight, CreationsFirst, KindOrder, PrefixOnExit
<1>3. PipelineOrder /\ NothingLostWhileRunning
  BY DEF PipelineOrder, NothingLostWhileRunning, Flushed, sent
<1>4. Accounted
  BY DEF Accounted
<1> QED BY <1>1, <1>2, <1>3, <1>4 DEF IInv

\* A step of the handler leaves the pipeline alone.
LEMMA PipelineUnchanged ==
    ASSUME IInv, UNCHANGED <<kindOf, channel, batcherVars, lost>>
    PROVE  Pipeline'
BY DEF IInv, Pipeline, batcherVars, Shape, BatchBound, PipelineOrder, NothingLostWhileRunning,
       InFlight, Accounted, CreationsFirst, KindOrder, Flushed, sent

\* Signal, FlushReturns, FlushTimesOut, RetryFlush, DropQueue: the invariant follows
\* from what they do to the handler's own variables.
LEMMA HandlerStep ==
    ASSUME IInv, Handler \/ DropQueue
    PROVE  IInv'
<1> USE BoundsAssumption
<1>1. UNCHANGED <<kindOf, channel, batcherVars, lost>>
  BY DEF Handler, Signal, FlushReturns, FlushTimesOut, RetryFlush, DropQueue
<1>2. TypeOK'
  <2>1. /\ handler' \in {"idle", "polling", "sleeping", "complete"}
        /\ attempt' \in 0..MaxAttempts
    BY DEF IInv, TypeOK, Shutdown, Handler, Signal, FlushReturns, FlushTimesOut, RetryFlush,
           DropQueue, handlerVars
  <2>2. flag' \in BOOLEAN /\ open' \in BOOLEAN /\ flushOk' \in BOOLEAN
    BY DEF IInv, TypeOK, Handler, Signal, FlushReturns, FlushTimesOut, RetryFlush,
           DropQueue, handlerVars
  <2> QED BY <1>1, <2>1, <2>2 DEF IInv, TypeOK, batcherVars, sent
<1>3. Shutdown'
  BY <1>1 DEF IInv, TypeOK, Shutdown, batcherVars, Handler, Signal, FlushReturns,
     FlushTimesOut, RetryFlush, DropQueue, handlerVars
<1>4. PrefixOnExit'
  BY <1>1 DEF IInv, Shutdown, PrefixOnExit, batcherVars, sent, Handler, Signal, FlushReturns,
     FlushTimesOut, RetryFlush, DropQueue, handlerVars
<1> QED BY <1>1, <1>2, <1>3, <1>4, PipelineUnchanged DEF IInv, Pipeline

\* enqueue: the new task goes to the end of the channel, or is lost at once when
\* the batcher has finished.
LEMMA EnqueueStep ==
    ASSUME IInv, NEW k \in Kinds, Enqueue(k)
    PROVE  IInv'
<1>1. /\ sent \in Nat /\ sent' \in Nat /\ sent' = sent + 1
      /\ \A s \in 1..sent : kindOf'[s] = kindOf[s]
  BY DEF IInv, TypeOK, sent, Enqueue
<1>2. UNCHANGED <<batch, writing, pending, applied, pc, cause, flag, open, handler, attempt, flushOk>>
  BY DEF batcherVars, handlerVars, Enqueue
<1>3. /\ pc # "finished" => channel' = Append(channel, sent + 1) /\ lost' = lost
      /\ pc = "finished" => channel' = channel /\ lost' = lost \cup {sent + 1}
  BY DEF Enqueue
<1>4. /\ channel \in Seq(Nat) /\ Len(batch) \in Nat /\ Len(writing) \in Nat
      /\ applied \subseteq 1..sent /\ lost \subseteq 1..sent
  BY DEF IInv, TypeOK
<1>5. TypeOK'
  <2>1. kindOf' \in Seq(Kinds) /\ Len(kindOf') <= MaxTasks
    BY BoundsAssumption DEF IInv, TypeOK, Enqueue, sent
  <2>2. channel' \in Seq(Nat)
    <3>1. CASE pc # "finished" BY <1>1, <1>3, <1>4, <3>1
    <3>2. CASE pc = "finished" BY <1>3, <1>4, <3>2
    <3> QED BY <3>1, <3>2
  <2>3. applied' \subseteq 1..sent' /\ lost' \subseteq 1..sent'
    <3>1. lost' \subseteq lost \cup {sent + 1}
      BY <1>3
    <3> QED BY <1>1, <1>2, <1>4, <3>1
  <2> QED BY <1>2, <2>1, <2>2, <2>3 DEF IInv, TypeOK
<1>6. Shape' /\ Shutdown' /\ BatchBound'
  BY <1>2, <1>3 DEF IInv, Shape, Shutdown, BatchBound
<1>7. CreationsFirst' /\ KindOrder'
  <2>1. ASSUME NEW t \in applied', NEW s \in 1..sent', s < t
        PROVE  t \in applied /\ s \in 1..sent /\ kindOf'[s] = kindOf[s] /\ kindOf'[t] = kindOf[t]
    <3>1. t \in applied /\ t \in 1..sent
      BY <1>2, <1>4
    <3> QED BY <1>1, <2>1, <3>1
  <2>2. CreationsFirst'
    BY <1>2, <2>1 DEF IInv, CreationsFirst
  <2>3. KindOrder'
    BY <1>2, <2>1 DEF IInv, KindOrder
  <2> QED BY <2>2, <2>3
<1>8. CASE pc # "finished"
  <2>1. Flushed \in Nat /\ sent = Flushed + Len(writing) + Len(batch) + Len(channel)
    BY <1>8, PipelineSets DEF IInv
  <2>2. channel' = Append(channel, sent + 1) /\ lost' = lost /\ Flushed' = Flushed
    BY <1>1, <1>2, <1>3, <1>4, <1>8 DEF Flushed
  <2>3. PipelineOrder'
    <3>1. \A i \in DOMAIN channel : channel[i] = Flushed + Len(writing) + Len(batch) + i
      BY <1>8 DEF IInv, PipelineOrder
    <3>2. \A i \in DOMAIN channel' : channel'[i] = Flushed + Len(writing) + Len(batch) + i
      BY <1>1, <1>4, <2>1, <2>2, <3>1
    <3> QED BY <1>2, <1>8, <2>1, <2>2, <3>2 DEF IInv, PipelineOrder
  <2>4. NothingLostWhileRunning'
    BY <1>1, <1>2, <1>4, <1>8, <2>1, <2>2 DEF IInv, NothingLostWhileRunning
  <2>5. InFlight'
    <3>1. ASSUME NEW i \in DOMAIN writing PROVE writing[i] \in 1..sent
      BY <1>4, <1>8, <2>1 DEF IInv, TypeOK, PipelineOrder
    <3> QED BY <1>1, <1>2, <2>2, <3>1 DEF IInv, InFlight
  <2>6. Accounted'
    BY <1>2, <1>8, <2>2 DEF IInv, Accounted
  <2>7. PrefixOnExit'
    BY <1>2, <1>8 DEF IInv, Shutdown, PrefixOnExit
  <2> QED BY <1>5, <1>6, <1>7, <2>3, <2>4, <2>5, <2>6, <2>7 DEF IInv
<1>9. CASE pc = "finished"
  <2>1. PipelineOrder' /\ NothingLostWhileRunning' /\ InFlight'
    BY <1>2, <1>9 DEF PipelineOrder, NothingLostWhileRunning, InFlight
  <2>2. Accounted'
    BY <1>1, <1>2, <1>3, <1>4, <1>9 DEF IInv, Accounted
  <2>3. PrefixOnExit'
    BY <1>1, <1>2 DEF IInv, PrefixOnExit
  <2> QED BY <1>5, <1>6, <1>7, <2>1, <2>2, <2>3 DEF IInv
<1> QED BY <1>8, <1>9

\* A step of a running batcher that moves tasks without writing any.
LEMMA MovingStep ==
    ASSUME IInv, pc # "finished", pc' # "finished", cause' = "closed" => flag,
           UNCHANGED <<kindOf, applied, lost, flag, open, handlerVars>>
    PROVE  Shutdown' /\ Accounted' /\ CreationsFirst' /\ KindOrder' /\ PrefixOnExit'
<1>1. Shutdown'
  BY DEF IInv, Shutdown, handlerVars
<1>2. Accounted' /\ CreationsFirst' /\ KindOrder'
  BY DEF IInv, Accounted, CreationsFirst, KindOrder, sent
<1>3. PrefixOnExit'
  BY DEF IInv, Shutdown, PrefixOnExit, handlerVars
<1> QED BY <1>1, <1>2, <1>3

\* flush_batch is called with the batch b, which holds the oldest unwritten tasks;
\* what the channel keeps follows on.
LEMMA FlushBegins ==
    ASSUME IInv, pc = "select", NEW STATE b, NEW c \in {"recv", "tick", "closed"},
           b \in Seq(Nat), Len(b) \in 1..BatchSize, BeginFlush(b, c), c = "closed" => flag,
           channel' \in Seq(Nat),
           Len(b) + Len(channel') = Len(batch) + Len(channel),
           \A i \in DOMAIN b : b[i] = Flushed + i,
           \A i \in DOMAIN channel' : channel'[i] = Flushed + Len(b) + i,
           UNCHANGED <<kindOf, pending, applied, lost, flag, open, handlerVars>>
    PROVE  IInv'
<1>1. /\ writing' = b /\ batch' = <<>> /\ pc' = "create" /\ cause' = c
  BY DEF BeginFlush
<1>2. /\ sent \in Nat /\ sent' = sent /\ kindOf' = kindOf /\ Len(batch) \in Nat /\ Len(channel) \in Nat
      /\ Len(b) \in Nat /\ Len(channel') \in Nat /\ Len(batch') = 0 /\ Len(writing) = 0
  BY <1>1 DEF IInv, TypeOK, Shape, sent
<1>3. Flushed \in Nat /\ Flushed' = Flushed
  <2>1. Flushed \in Nat /\ sent = Flushed + Len(writing) + Len(batch) + Len(channel)
    BY PipelineSets DEF IInv
  <2>2. Flushed' = sent' - Len(channel') - Len(batch') - Len(b)
    BY <1>1 DEF Flushed
  <2>3. Len(b) + Len(channel') = Len(batch) + Len(channel)
    OBVIOUS
  <2>4. sent = Flushed + Len(b) + Len(channel')
    <3> DEFINE x == Len(b)  y == Len(channel')  u == Len(batch)  v == Len(channel)  w == Len(writing)
    <3>1. x \in Nat /\ y \in Nat /\ u \in Nat /\ v \in Nat /\ w = 0 /\ x + y = u + v
      BY <1>2, <2>3
    <3>2. Flushed \in Nat /\ sent = Flushed + w + u + v
      BY <2>1
    <3> HIDE DEF x, y, u, v, w
    <3>3. sent = Flushed + x + y
      BY <3>1, <3>2
    <3> QED BY <3>3 DEF x, y
  <2>5. sent - Len(channel') - 0 - Len(b) = Flushed
    BY <1>2, <2>1, <2>4
  <2> QED BY <1>2, <2>1, <2>2, <2>5
<1>4. TypeOK'
  BY <1>1 DEF IInv, TypeOK, sent, handlerVars
<1>5. Shape'
  BY <1>1 DEF IInv, Shape
<1>6. BatchBound'
  BY <1>1, <1>2, BoundsAssumption DEF BatchBound
<1>7. PipelineOrder'
  BY <1>1, <1>2, <1>3 DEF PipelineOrder
<1>8. NothingLostWhileRunning'
  <2>1. \A t \in applied : t <= Flushed /\ t \in Nat
    BY DEF IInv, InFlight, TypeOK, sent
  <2>2. lost = {} /\ \A t \in 1..sent : t <= Flushed => t \in applied
    BY DEF IInv, NothingLostWhileRunning
  <2> QED BY <1>1, <1>2, <1>3, <2>1, <2>2 DEF NothingLostWhileRunning
<1>9. InFlight'
  BY <1>1, <1>3 DEF IInv, InFlight
<1>10. Shutdown' /\ Accounted' /\ CreationsFirst' /\ KindOrder' /\ PrefixOnExit'
  BY <1>1, MovingStep
<1> QED BY <1>4, <1>5, <1>6, <1>7, <1>8, <1>9, <1>10 DEF IInv

\* recv: the first task of the channel becomes the last of the batch.
LEMMA RecvStep ==
    ASSUME IInv, Recv
    PROVE  IInv'
<1> DEFINE b == Append(batch, Head(channel))
<1>1. /\ pc = "select" /\ channel # <<>> /\ channel' = Tail(channel)
      /\ UNCHANGED <<kindOf, pending, applied, lost, flag, open, handlerVars>>
  BY DEF Recv, ReceiveInto
<1>2. /\ channel \in Seq(Nat) /\ batch \in Seq(Nat) /\ writing = <<>> /\ Len(writing) = 0
      /\ sent \in Nat /\ BatchSize \in Nat \ {0}
  BY <1>1, BoundsAssumption DEF IInv, TypeOK, Shape, sent
<1>3. Flushed \in Nat /\ sent = Flushed + Len(batch) + Len(channel)
  BY <1>1, <1>2, PipelineSets DEF IInv
<1>4. /\ \A i \in DOMAIN batch   : batch[i] = Flushed + i
      /\ \A i \in DOMAIN channel : channel[i] = Flushed + Len(batch) + i
  BY <1>1, <1>2, <1>3 DEF IInv, PipelineOrder
<1>5. /\ channel' \in Seq(Nat) /\ Len(channel') = Len(channel) - 1
      /\ \A i \in DOMAIN channel' : channel'[i] = channel[i + 1]
  BY <1>1, <1>2
<1>6. /\ b \in Seq(Nat) /\ Len(b) = Len(batch) + 1
      /\ \A i \in DOMAIN b : b[i] = Flushed + i
  BY <1>1, <1>2, <1>3, <1>4
<1>7. \A i \in DOMAIN channel' : channel'[i] = Flushed + Len(b) + i
  <2>1. Len(b) \in Nat /\ Len(channel) \in Nat /\ Len(batch) \in Nat
    BY <1>2, <1>6
  <2>2. ASSUME NEW i \in DOMAIN channel' PROVE i \in Nat /\ i + 1 \in DOMAIN channel
    BY <1>2, <1>5
  <2>3. ASSUME NEW i \in DOMAIN channel' PROVE channel'[i] = Flushed + Len(batch) + (i + 1)
    BY <1>4, <1>5, <2>2
  <2> HIDE DEF b
  <2> QED BY <1>3, <1>6, <2>1, <2>2, <2>3
<1>8. Len(batch) < BatchSize
  BY DEF IInv, BatchBound
<1>9. \/ Len(batch) + 1 >= BatchSize /\ BeginFlush(b, "recv")
      \/ Len(batch) + 1 < BatchSize /\ batch' = b /\ UNCHANGED <<writing, pc, cause>>
  BY <1>2 DEF Recv, ReceiveInto
<1> HIDE DEF b
<1>10. CASE Len(batch) + 1 >= BatchSize /\ BeginFlush(b, "recv")
  <2>1. Len(b) \in 1..BatchSize /\ Len(b) + Len(channel') = Len(batch) + Len(channel)
    BY <1>2, <1>5, <1>6, <1>8
  <2> QED BY <1>1, <1>5, <1>6, <1>7, <1>10, <2>1, FlushBegins
<1>11. CASE Len(batch) + 1 < BatchSize /\ batch' = b /\ UNCHANGED <<writing, pc, cause>>
  <2>1. Flushed' = Flushed /\ sent' = sent
    <3>1. sent' = sent
      BY <1>1 DEF sent
    <3>2. Flushed' = sent' - Len(channel') - Len(b) - Len(writing)
      BY <1>11 DEF Flushed
    <3> QED BY <1>2, <1>3, <1>5, <1>6, <3>1, <3>2
  <2>2. TypeOK'
    BY <1>1, <1>5, <1>6, <1>11 DEF IInv, TypeOK, sent, handlerVars
  <2>3. Shape' /\ BatchBound'
    BY <1>1, <1>2, <1>6, <1>11 DEF IInv, Shape, BatchBound
  <2>4. PipelineOrder'
    <3>1. \A i \in DOMAIN writing' : FALSE
      BY <1>2, <1>11
    <3>2. writing' = writing /\ batch' = b /\ Len(b) \in Nat
      BY <1>6, <1>11
    <3>3. \A i \in DOMAIN b : b[i] = Flushed + 0 + i
      BY <1>3, <1>6
    <3>4. \A i \in DOMAIN channel' : channel'[i] = Flushed + 0 + Len(b) + i
      BY <1>3, <1>5, <1>7, <3>2
    <3> QED BY <1>2, <1>3, <2>1, <3>1, <3>2, <3>3, <3>4 DEF PipelineOrder
  <2>5. NothingLostWhileRunning' /\ InFlight'
    BY <1>1, <1>2, <1>11, <2>1 DEF IInv, NothingLostWhileRunning, InFlight
  <2>6. Shutdown' /\ Accounted' /\ CreationsFirst' /\ KindOrder' /\ PrefixOnExit'
    BY <1>1, <1>11, MovingStep DEF IInv, Shutdown
  <2> QED BY <2>2, <2>3, <2>4, <2>5, <2>6 DEF IInv
<1> QED BY <1>9, <1>10, <1>11

\* The batch of the select loop is handed to flush_batch by the tick, or because
\* the channel is closed.
LEMMA FlushOfBatch ==
    ASSUME IInv, pc = "select", batch # <<>>, NEW c \in {"recv", "tick", "closed"},
           c = "closed" => flag, BeginFlush(batch, c), channel' = channel,
           UNCHANGED <<kindOf, pending, applied, lost, flag, open, handlerVars>>
    PROVE  IInv'
<1>1. /\ batch \in Seq(Nat) /\ channel \in Seq(Nat) /\ Len(writing) = 0 /\ BatchSize \in Nat
      /\ Len(batch) < BatchSize
  BY BoundsAssumption DEF IInv, TypeOK, Shape, BatchBound
<1>2. Len(batch) \in 1..BatchSize
  BY <1>1
<1>3. Flushed \in Nat
  BY PipelineSets DEF IInv
<1>4. /\ \A i \in DOMAIN batch   : batch[i] = Flushed + i
      /\ \A i \in DOMAIN channel' : channel'[i] = Flushed + Len(batch) + i
  BY <1>1, <1>3 DEF IInv, PipelineOrder
<1> QED BY <1>1, <1>2, <1>4, FlushBegins

\* While nothing of the drained batch is written, the written tasks are 1..Flushed.
LEMMA WrittenBeforeJoin ==
    ASSUME IInv, pc \in {"select", "create"}
    PROVE  applied = 1..Flushed
<1>1. Flushed \in Nat /\ sent \in Nat /\ Flushed <= sent
  BY PipelineSets DEF IInv, TypeOK, sent
<1>2. applied \subseteq 1..sent /\ \A t \in applied : t <= Flushed
  BY DEF IInv, TypeOK, InFlight
<1>3. \A t \in 1..sent : t <= Flushed => t \in applied
  BY DEF IInv, NothingLostWhileRunning
<1>4. ASSUME NEW t \in applied PROVE t \in 1..Flushed
  BY <1>1, <1>2
<1>5. ASSUME NEW t \in 1..Flushed PROVE t \in applied
  BY <1>1, <1>3
<1> QED BY <1>4, <1>5

\* When all writers have returned, the drained batch is written.
LEMMA WrittenAfterJoin ==
    ASSUME IInv, pc = "join", pending = {}
    PROVE  applied = 1..(Flushed + Len(writing))
<1>1. /\ Flushed \in Nat /\ sent \in Nat /\ Len(writing) \in Nat
      /\ Flushed + Len(writing) <= sent
      /\ Elems(writing) = (Flushed + 1)..(Flushed + Len(writing))
  BY PipelineSets DEF IInv, TypeOK, sent
<1>2. /\ applied \subseteq 1..sent
      /\ \A t \in applied : t <= Flushed + Len(writing)
      /\ \A t \in 1..sent : t <= Flushed => t \in applied
  BY DEF IInv, TypeOK, NothingLostWhileRunning
<1>3. \A t \in Elems(writing) : t \in applied
  BY DEF IInv, InFlight, Elems
<1>4. ASSUME NEW t \in applied PROVE t \in 1..(Flushed + Len(writing))
  BY <1>1, <1>2
<1>5. ASSUME NEW t \in 1..(Flushed + Len(writing)) PROVE t \in applied
  <2>1. CASE t <= Flushed BY <1>1, <1>2, <2>1
  <2>2. CASE t > Flushed BY <1>1, <1>3, <2>2
  <2> QED BY <1>1, <2>1, <2>2
<1> QED BY <1>4, <1>5

\* The loop is left with all received tasks written: what the channel still holds
\* is lost, and nothing else.
LEMMA ExitStep ==
    ASSUME IInv, pc # "finished", batch = <<>>, applied = 1..(Flushed + Len(writing)), Exit,
           batch' = <<>>, writing' = <<>>, pending' = {},
           UNCHANGED <<kindOf, applied, cause, flag, open, handlerVars>>
    PROVE  IInv'
<1>1. pc' = "finished" /\ channel' = <<>> /\ lost' = lost \cup Elems(channel) /\ sent' = sent
  BY DEF Exit, sent
<1>2. /\ Flushed \in Nat /\ sent \in Nat /\ Len(writing) \in Nat /\ Len(batch) = 0 /\ Len(channel) \in Nat
      /\ Flushed + Len(writing) + Len(batch) + Len(channel) = sent
      /\ Elems(channel) = (Flushed + Len(writing) + Len(batch) + 1)..sent
  BY PipelineSets DEF IInv, TypeOK, sent
<1>3. lost = {}
  BY DEF IInv, NothingLostWhileRunning
<1>4. /\ applied \cap lost' = {} /\ applied \cup lost' = 1..sent /\ lost' \subseteq 1..sent
      /\ Flushed + Len(writing) \in 0..sent
  BY <1>1, <1>2, <1>3
<1>5. TypeOK'
  <2>1. channel' \in Seq(Nat) /\ batch' \in Seq(Nat) /\ writing' \in Seq(Nat)
    BY <1>1
  <2> QED BY <1>1, <1>4, <2>1 DEF IInv, TypeOK, sent, handlerVars
<1>6. Shape' /\ Shutdown'
  BY <1>1 DEF IInv, Shape, Shutdown, handlerVars
<1>7. BatchBound'
  BY <1>1, BoundsAssumption DEF BatchBound
<1>8. PipelineOrder' /\ NothingLostWhileRunning' /\ InFlight'
  BY <1>1 DEF PipelineOrder, NothingLostWhileRunning, InFlight
<1>9. Accounted' /\ CreationsFirst' /\ KindOrder' /\ PrefixOnExit'
  BY <1>1, <1>4 DEF IInv, Accounted, CreationsFirst, KindOrder, PrefixOnExit
<1> QED BY <1>5, <1>6, <1>7, <1>8, <1>9 DEF IInv

\* The channel is closed and empty.
LEMMA RecvClosedStep ==
    ASSUME IInv, RecvClosed
    PROVE  IInv'
<1>1. pc = "select" /\ ~open /\ writing = <<>> /\ Len(writing) = 0 /\ pending = {} /\ flag
  BY DEF IInv, Shape, Shutdown, RecvClosed
<1>2. CASE batch # <<>> /\ BeginFlush(batch, "closed") /\ UNCHANGED <<channel, lost>>
  BY <1>1, <1>2, FlushOfBatch DEF RecvClosed
<1>3. CASE batch = <<>> /\ Exit /\ UNCHANGED <<batch, writing, cause>>
  <2>1. applied = 1..(Flushed + Len(writing))
    BY <1>1, WrittenBeforeJoin, PipelineSets DEF IInv
  <2> QED BY <1>1, <1>3, <2>1, ExitStep DEF RecvClosed
<1> QED BY <1>2, <1>3 DEF RecvClosed

\* The tick writes the batch, or finds the flag raised and no batch.
LEMMA TickStep ==
    ASSUME IInv, Tick
    PROVE  IInv'
<1>1. CASE TickFlush("tick")
  BY <1>1, FlushOfBatch DEF TickFlush
<1>2. CASE TickExit
  <2>1. pc = "select" /\ writing = <<>> /\ Len(writing) = 0 /\ pending = {}
    BY <1>2 DEF IInv, Shape, TickExit
  <2>2. applied = 1..(Flushed + Len(writing))
    BY <2>1, WrittenBeforeJoin, PipelineSets DEF IInv
  <2> QED BY <1>2, <2>1, <2>2, ExitStep DEF TickExit
<1> QED BY <1>1, <1>2 DEF Tick

RunningPositions ==
    TypeOK /\ Shape /\ PipelineOrder /\ NothingLostWhileRunning /\ InFlight /\ pc # "finished"

\* The two orderings follow from the positions of the tasks while the batcher runs.
LEMMA OrderWhileRunning == RunningPositions => CreationsFirst /\ KindOrder
<1> SUFFICES ASSUME TypeOK, Shape, PipelineOrder, NothingLostWhileRunning, InFlight,
                    pc # "finished", NEW t \in applied, NEW s \in 1..sent, s < t
             PROVE  /\ kindOf[s] = LeadCreation => s \in applied
                    /\ kindOf[s] = kindOf[t] => s \in applied
  BY DEF RunningPositions, CreationsFirst, KindOrder
<1>1. /\ Flushed \in Nat /\ sent \in Nat /\ Len(writing) \in Nat /\ t \in 1..sent /\ s \in 1..sent
      /\ Elems(writing) = (Flushed + 1)..(Flushed + Len(writing))
      /\ t <= Flushed + Len(writing)
  BY PipelineSets DEF TypeOK, NothingLostWhileRunning, sent
<1>2. CASE s <= Flushed
  BY <1>2 DEF NothingLostWhileRunning
<1>3. CASE s > Flushed
  <2>1. s \in Elems(writing) /\ t \in Elems(writing)
    BY <1>1, <1>3
  <2>2. pc = "join"
    BY <1>1, <1>3 DEF TypeOK, InFlight
  <2>3. (s \in applied <=> kindOf[s] \notin pending) /\ (t \in applied <=> kindOf[t] \notin pending)
    BY <2>1, <2>2 DEF InFlight, Elems
  <2> QED BY <2>3 DEF Shape
<1> QED BY <1>1, <1>2, <1>3

\* batch_create_leads returns: the creations of the drained batch are written.
LEMMA CreateLeadsStep ==
    ASSUME IInv, CreateLeads
    PROVE  IInv'
<1>1. /\ pc = "create" /\ pc' = "join" /\ applied' = applied \cup Group(LeadCreation)
      /\ pending' = Kinds \ {LeadCreation}
      /\ UNCHANGED <<kindOf, channel, batch, writing, cause, lost, flag, open, handlerVars>>
  BY DEF CreateLeads
<1>2. /\ Flushed \in Nat /\ sent \in Nat /\ Len(writing) \in Nat /\ Flushed + Len(writing) <= sent
      /\ Elems(writing) = (Flushed + 1)..(Flushed + Len(writing))
  BY <1>1, PipelineSets DEF IInv, TypeOK, sent
<1>3. sent' = sent /\ Flushed' = Flushed
  BY <1>1 DEF sent, Flushed
<1>4. /\ applied \subseteq 1..sent /\ lost = {}
      /\ \A t \in applied : t <= Flushed
      /\ \A t \in 1..sent : t <= Flushed => t \in applied
  BY <1>1 DEF IInv, TypeOK, InFlight, NothingLostWhileRunning
<1>5. Group(LeadCreation) \subseteq Elems(writing)
  BY DEF Group
<1>6. TypeOK'
  <2>1. applied' \subseteq 1..sent
    <3>1. Elems(writing) \subseteq 1..sent
      BY <1>2
    <3> QED BY <1>1, <1>4, <1>5, <3>1
  <2> QED BY <1>1, <1>3, <2>1 DEF IInv, TypeOK, sent, handlerVars
<1>7. Shape' /\ Shutdown' /\ BatchBound'
  BY <1>1 DEF IInv, Shape, Shutdown, BatchBound, handlerVars
<1>8. PipelineOrder'
  BY <1>1, <1>3 DEF IInv, PipelineOrder
<1>9. NothingLostWhileRunning'
  <2>1. \A t \in applied' : t <= Flushed + Len(writing)
    BY <1>1, <1>2, <1>4, <1>5
  <2> QED BY <1>1, <1>3, <1>4, <2>1 DEF NothingLostWhileRunning
<1>10. InFlight'
  <2> SUFFICES ASSUME NEW i \in DOMAIN writing
               PROVE  writing[i] \in applied' <=> kindOf[writing[i]] \notin pending'
    BY <1>1 DEF InFlight
  <2>1. writing[i] \in Elems(writing)
    BY DEF Elems
  <2>2. writing[i] \notin applied /\ writing[i] \in 1..sent
    BY <1>2, <1>4, <2>1
  <2>3. kindOf[writing[i]] \in Kinds
    BY <2>2 DEF IInv, TypeOK, sent
  <2>4. writing[i] \in Group(LeadCreation) <=> kindOf[writing[i]] = LeadCreation
    BY <2>1 DEF Group
  <2> QED BY <1>1, <2>2, <2>3, <2>4
<1>11. CreationsFirst' /\ KindOrder'
  <2>1. (RunningPositions => CreationsFirst /\ KindOrder)'
    BY OrderWhileRunning, PTL
  <2> QED BY <1>1, <1>6, <1>7, <1>8, <1>9, <1>10, <2>1 DEF RunningPositions
<1>12. Accounted' /\ PrefixOnExit'
  BY <1>1, <1>4 DEF IInv, Shutdown, Accounted, PrefixOnExit, handlerVars
<1> QED BY <1>6, <1>7, <1>8, <1>9, <1>10, <1>11, <1>12 DEF IInv

\* A writer of the join returns: its group is written.
LEMMA WriteGroupStep ==
    ASSUME IInv, NEW k \in Kinds, WriteGroup(k)
    PROVE  IInv'
<1>1. /\ pc = "join" /\ pc' = "join" /\ k \in pending /\ applied' = applied \cup Group(k)
      /\ pending' = pending \ {k}
      /\ UNCHANGED <<kindOf, channel, batch, writing, cause, lost, flag, open, handlerVars>>
  BY DEF WriteGroup
<1>2. /\ Flushed \in Nat /\ sent \in Nat /\ Len(writing) \in Nat /\ Flushed + Len(writing) <= sent
      /\ Elems(writing) = (Flushed + 1)..(Flushed + Len(writing))
  BY <1>1, PipelineSets DEF IInv, TypeOK, sent
<1>3. sent' = sent /\ Flushed' = Flushed
  BY <1>1 DEF sent, Flushed
<1>4. /\ applied \subseteq 1..sent /\ lost = {}
      /\ \A t \in applied : t <= Flushed + Len(writing)
      /\ \A t \in 1..sent : t <= Flushed => t \in applied
  BY <1>1 DEF IInv, TypeOK, NothingLostWhileRunning
<1>5. Group(k) \subseteq Elems(writing)
  BY DEF Group
<1>6. TypeOK'
  <2>1. applied' \subseteq 1..sent
    <3>1. Elems(writing) \subseteq 1..sent
      BY <1>2
    <3> QED BY <1>1, <1>4, <1>5, <3>1
  <2> QED BY <1>1, <1>3, <2>1 DEF IInv, TypeOK, sent, handlerVars
<1>7. Shape' /\ Shutdown' /\ BatchBound'
  BY <1>1 DEF IInv, Shape, Shutdown, BatchBound, handlerVars
<1>8. PipelineOrder'
  BY <1>1, <1>3 DEF IInv, PipelineOrder
<1>9. NothingLostWhileRunning'
  <2>1. \A t \in applied' : t <= Flushed + Len(writing)
    BY <1>1, <1>2, <1>4, <1>5
  <2> QED BY <1>1, <1>3, <1>4, <2>1 DEF NothingLostWhileRunning
<1>10. InFlight'
  <2> SUFFICES ASSUME NEW i \in DOMAIN writing
               PROVE  writing[i] \in applied' <=> kindOf[writing[i]] \notin pending'
    BY <1>1 DEF InFlight
  <2>1. writing[i] \in Group(k) <=> kindOf[writing[i]] = k
    BY DEF Group, Elems
  <2>2. writing[i] \in applied <=> kindOf[writing[i]] \notin pending
    BY <1>1 DEF IInv, InFlight
  <2> QED BY <1>1, <2>1, <2>2
<1>11. CreationsFirst' /\ KindOrder'
  <2>1. (RunningPositions => CreationsFirst /\ KindOrder)'
    BY OrderWhileRunning, PTL
  <2> QED BY <1>1, <1>6, <1>7, <1>8, <1>9, <1>10, <2>1 DEF RunningPositions
<1>12. Accounted' /\ PrefixOnExit'
  BY <1>1, <1>4 DEF IInv, Shutdown, Accounted, PrefixOnExit, handlerVars
<1> QED BY <1>6, <1>7, <1>8, <1>9, <1>10, <1>11, <1>12 DEF IInv

\* flush_batch returns; the batcher leaves the loop or goes back to select.
LEMMA FlushDoneStep ==
    ASSUME IInv, FlushDone
    PROVE  IInv'
<1>1. /\ pc = "join" /\ pending = {} /\ writing' = <<>> /\ pending' = {} /\ batch = <<>>
      /\ UNCHANGED <<kindOf, batch, applied, cause, flag, open, handlerVars>>
  BY DEF IInv, Shape, FlushDone, ReturnFromFlush
<1>2. applied = 1..(Flushed + Len(writing))
  BY <1>1, WrittenAfterJoin
<1>3. CASE Exit
  BY <1>1, <1>2, <1>3, ExitStep
<1>4. CASE pc' = "select" /\ UNCHANGED <<lost, channel>>
  <2>1. /\ Flushed \in Nat /\ sent \in Nat /\ Len(writing) \in Nat /\ Len(batch) = 0
        /\ Len(channel) \in Nat /\ sent = Flushed + Len(writing) + Len(batch) + Len(channel)
    BY <1>1, PipelineSets DEF IInv, TypeOK, sent
  <2>2. sent' = sent /\ Flushed' = Flushed + Len(writing)
    <3>1. sent' = sent
      BY <1>1 DEF sent
    <3>2. Flushed' = sent' - Len(channel) - Len(batch) - 0
      BY <1>1, <1>4 DEF Flushed
    <3> QED BY <2>1, <3>1, <3>2
  <2>3. TypeOK'
    <3>1. writing' \in Seq(Nat)
      BY <1>1
    <3> QED BY <1>1, <1>4, <3>1 DEF IInv, TypeOK, sent, handlerVars
  <2>4. Shape'
    BY <1>1, <1>4 DEF IInv, Shape
  <2>5. BatchBound'
    BY <1>1, <1>4, BoundsAssumption DEF BatchBound
  <2>6. PipelineOrder'
    <3>1. \A i \in DOMAIN channel' : channel'[i] = Flushed + Len(writing) + Len(batch) + i
      BY <1>1, <1>4 DEF IInv, PipelineOrder
    <3>2. \A i \in DOMAIN channel' : i \in Nat
      BY <1>4 DEF IInv, TypeOK
    <3>3. \A i \in DOMAIN channel' : channel'[i] = Flushed' + 0 + 0 + i
      BY <2>1, <2>2, <3>1, <3>2
    <3> QED BY <1>1, <2>1, <2>2, <3>3 DEF PipelineOrder
  <2>7. NothingLostWhileRunning' /\ InFlight'
    <3>1. lost = {}
      BY <1>1 DEF IInv, NothingLostWhileRunning
    <3> QED BY <1>1, <1>2, <1>4, <2>1, <2>2, <3>1 DEF NothingLostWhileRunning, InFlight
  <2>8. Shutdown' /\ Accounted' /\ CreationsFirst' /\ KindOrder' /\ PrefixOnExit'
    BY <1>1, <1>4, MovingStep DEF IInv, Shutdown
  <2> QED BY <2>3, <2>4, <2>5, <2>6, <2>7, <2>8 DEF IInv
<1> QED BY <1>3, <1>4 DEF FlushDone, ReturnFromFlush

\* The runtime cancels the batcher: all that is not written is lost.
LEMMA RuntimeShutdownStep ==
    ASSUME IInv, RuntimeShutdown
    PROVE  IInv'
<1>1. /\ handler = "complete" /\ pc # "finished" /\ pc' = "finished"
      /\ lost' = lost \cup Elems(channel) \cup Elems(batch) \cup (Elems(writing) \ applied)
      /\ channel' = <<>> /\ batch' = <<>> /\ writing' = <<>> /\ pending' = {}
      /\ UNCHANGED <<kindOf, applied, cause, flag, open, handlerVars>>
  BY DEF RuntimeShutdown
<1>2. /\ Flushed \in Nat /\ sent \in Nat /\ sent' = sent
      /\ Len(writing) \in Nat /\ Len(batch) \in Nat /\ Len(channel) \in Nat
      /\ sent = Flushed + Len(writing) + Len(batch) + Len(channel)
      /\ Elems(writing) = (Flushed + 1)..(Flushed + Len(writing))
      /\ Elems(batch) = (Flushed + Len(writing) + 1)..(Flushed + Len(writing) + Len(batch))
      /\ Elems(channel) = (Flushed + Len(writing) + Len(batch) + 1)..sent
  BY <1>1, PipelineSets DEF IInv, TypeOK, sent
<1>3. /\ applied \subseteq 1..sent /\ lost = {}
      /\ \A t \in applied : t <= Flushed + Len(writing)
      /\ \A t \in 1..sent : t <= Flushed => t \in applied
  BY <1>1 DEF IInv, TypeOK, NothingLostWhileRunning
<1>4. applied \cap lost' = {} /\ applied \cup lost' = 1..sent /\ lost' \subseteq 1..sent
  <2>1. applied \cap Elems(channel) = {} /\ applied \cap Elems(batch) = {}
    BY <1>2, <1>3
  <2>2. ASSUME NEW t \in 1..sent, t \notin applied PROVE t \in lost'
    BY <1>1, <1>2, <1>3, <2>2
  <2>3. lost' \subseteq 1..sent
    BY <1>1, <1>2, <1>3
  <2> QED BY <1>1, <1>3, <2>1, <2>2, <2>3
<1>5. TypeOK'
  <2>1. channel' \in Seq(Nat) /\ batch' \in Seq(Nat) /\ writing' \in Seq(Nat)
    BY <1>1
  <2> QED BY <1>1, <1>2, <1>4, <2>1 DEF IInv, TypeOK, sent, handlerVars
<1>6. Shape' /\ Shutdown'
  BY <1>1 DEF IInv, Shape, Shutdown, handlerVars
<1>7. BatchBound'
  BY <1>1, BoundsAssumption DEF BatchBound
<1>8. PipelineOrder' /\ NothingLostWhileRunning' /\ InFlight'
  BY <1>1 DEF PipelineOrder, NothingLostWhileRunning, InFlight
<1>9. Accounted' /\ CreationsFirst' /\ KindOrder'
  BY <1>1, <1>2, <1>4 DEF IInv, Accounted, CreationsFirst, KindOrder
<1>10. PrefixOnExit'
  BY <1>1 DEF IInv, Shutdown, PrefixOnExit, handlerVars
<1> QED BY <1>5, <1>6, <1>7, <1>8, <1>9, <1>10 DEF IInv

-----------------------------------------------------------------------------
(* Theorems.                                                                *)

\* The inductive invariant holds in every reachable state of queue and handler.
THEOREM Invariant == Spec => []IInv
<1>1. IInv /\ [Next]_vars => IInv'
  <2> SUFFICES ASSUME IInv, [Next]_vars PROVE IInv'
    OBVIOUS
  <2>1. ASSUME NEW k \in Kinds, Enqueue(k) PROVE IInv'
    BY <2>1, EnqueueStep
  <2>2. CASE Batcher
    BY <2>2, RecvStep, RecvClosedStep, TickStep, CreateLeadsStep, WriteGroupStep, FlushDoneStep
       DEF Batcher
  <2>3. CASE Handler \/ DropQueue
    BY <2>3, HandlerStep
  <2>4. CASE RuntimeShutdown
    BY <2>4, RuntimeShutdownStep
  <2>5. CASE UNCHANGED vars
    <3>1. /\ UNCHANGED <<kindOf, channel, batcherVars, lost>>
          /\ UNCHANGED <<flag, open, handler, attempt, flushOk>>
      BY <2>5 DEF vars, handlerVars
    <3>2. TypeOK' /\ Shutdown' /\ PrefixOnExit'
      BY <3>1 DEF IInv, TypeOK, Shutdown, PrefixOnExit, batcherVars, sent
    <3> QED BY <3>1, <3>2, PipelineUnchanged DEF IInv, Pipeline
  <2> QED BY <2>1, <2>2, <2>3, <2>4, <2>5 DEF Next
<1> QED BY <1>1, InitIInv, PTL DEF Spec

\* The variables of enqueue, batcher and shutdown handler keep their types.
THEOREM TypeCorrect == Spec => []TypeOK
BY Invariant, PTL DEF IInv

\* batcher_task never holds more tasks than a batch.
THEOREM BatchIsBounded == Spec => []BatchBound
BY Invariant, PTL DEF IInv

\* While batcher_task runs, no task is dropped, repeated or overtaken between enqueue
\* and flush_batch, and all that has left the pipeline was seen by its writer.
THEOREM NothingIsLost == Spec => [](PipelineOrder /\ NothingLostWhileRunning)
BY Invariant, PTL DEF IInv

\* Every enqueued task is finally applied or lost, never both.
THEOREM EveryTaskIsAccountedFor == Spec => []Accounted
BY Invariant, PTL DEF IInv

\* flush_batch writes no row before the lead creations that were enqueued ahead of it.
THEOREM CreationsGoFirst == Spec => []CreationsFirst
BY Invariant, PTL DEF IInv

\* Each writer of flush_batch sees the tasks of its kind in the order of enqueue.
THEOREM KindsInOrder == Spec => []KindOrder
BY Invariant, PTL DEF IInv

\* After a flush() that returned Ok, what is written is a prefix of what was enqueued.
THEOREM FlushWritesAPrefix == Spec => []FlushOkWroteAPrefix
<1>1. IInv => FlushOkWroteAPrefix
  BY DEF IInv, PrefixOnExit, FlushOkWroteAPrefix
<1> QED BY <1>1, Invariant, PTL

\* batcher_task never leaves its loop with a received task unwritten.
THEOREM ReceivedTasksAreWritten == Spec => ReceivedIsWritten
<1>1. IInv /\ [Next]_vars
        => [handler # "complete" /\ pc' = "finished"
              => Elems(batch) \cup Elems(writing) \subseteq applied]_vars
  <2> SUFFICES ASSUME IInv, Next, handler # "complete", pc' = "finished"
               PROVE  Elems(batch) \cup Elems(writing) \subseteq applied
    OBVIOUS
  <2>1. CASE pc = "finished" \/ (pc = "select" /\ batch = <<>>)
    BY <2>1 DEF IInv, Shape, Elems
  <2>2. CASE FlushDone
    <3>1. pc = "join" /\ pending = {} /\ batch = <<>>
      BY <2>2 DEF IInv, Shape, FlushDone, ReturnFromFlush
    <3>2. applied = 1..(Flushed + Len(writing))
      BY <3>1, WrittenAfterJoin
    <3>3. /\ Flushed \in Nat /\ Len(writing) \in Nat
          /\ Elems(writing) = (Flushed + 1)..(Flushed + Len(writing))
      BY <3>1, PipelineSets DEF IInv, TypeOK
    <3>4. Elems(batch) = {}
      BY <3>1 DEF Elems
    <3> QED BY <3>2, <3>3, <3>4
  <2>3. pc = "finished" \/ (pc = "select" /\ batch = <<>>) \/ FlushDone
    BY DEF Next, Enqueue, Batcher, Recv, ReceiveInto, BeginFlush, RecvClosed, Tick, TickFlush,
           TickExit, CreateLeads, WriteGroup, Handler, Signal, FlushReturns, FlushTimesOut,
           RetryFlush, DropQueue, RuntimeShutdown, batcherVars
  <2> QED BY <2>1, <2>2, <2>3
<1> QED BY <1>1, Invariant, PTL DEF Spec, ReceivedIsWritten

-----------------------------------------------------------------------------
(* The queue implements TaskDelivery.                                       *)

\* A writer's step is an Apply of the tasks it adds: the invariant after the step
\* says that they are the oldest ones of their kind and behind no creation.
LEMMA WriterRefines ==
    ASSUME IInv, IInv', NEW k \in Kinds, pc # "finished", pc' # "finished",
           applied' = applied \cup Group(k), UNCHANGED <<kindOf, lost, flag>>
    PROVE  \E S \in SUBSET Delivery!Outstanding : Delivery!Apply(k, S)
<1> DEFINE S == applied' \ applied
<1>1. /\ sent = Len(kindOf) /\ sent' = sent
      /\ applied' \subseteq 1..sent /\ lost = {} /\ applied \subseteq applied'
  BY DEF IInv, TypeOK, NothingLostWhileRunning, sent
<1>2. S \subseteq Delivery!Outstanding
  BY <1>1 DEF Delivery!Outstanding
<1>3. \A t \in S : kindOf[t] = k
  BY DEF Group
<1>4. ASSUME NEW t \in S, NEW s \in Delivery!Outstanding \ S, s < t
      PROVE  kindOf[s] \notin {k, "LeadCreation"}
  <2>1. s \in 1..sent' /\ s \notin applied' /\ t \in applied'
    BY <1>1 DEF Delivery!Outstanding
  <2>2. kindOf[s] # kindOf[t] /\ kindOf[s] # LeadCreation
    BY <1>4, <2>1 DEF IInv, KindOrder, CreationsFirst
  <2> QED BY <1>3, <2>2 DEF LeadCreation
<1>5. applied' = applied \cup S
  BY <1>1
<1> HIDE DEF S
<1>6. Delivery!NextGroup(k, S)
  BY <1>2, <1>3, <1>4 DEF Delivery!NextGroup
<1>7. Delivery!Apply(k, S)
  BY <1>5, <1>6 DEF Delivery!Apply
<1> QED BY <1>2, <1>7

\* A step that ends the batcher is a Close: all that is unwritten is lost, because
\* after it every task is applied or lost.
LEMMA ExitRefines ==
    ASSUME IInv, IInv', pc # "finished", pc' = "finished", flag,
           UNCHANGED <<kindOf, applied, flag>>
    PROVE  Delivery!Close
<1>1. lost = {} /\ sent' = sent /\ sent = Len(kindOf)
  BY DEF IInv, NothingLostWhileRunning, sent
<1>2. applied \cap lost' = {} /\ applied \cup lost' = 1..sent
  BY <1>1 DEF IInv, Accounted
<1>3. lost' = lost \cup Delivery!Outstanding
  BY <1>1, <1>2 DEF Delivery!Outstanding
<1> QED BY <1>3 DEF Delivery!Close

\* The write-behind queue, with its channel, batches, grouped writers and shutdown,
\* delivers tasks as TaskDelivery specifies.
THEOREM QueueDelivers == Spec => Delivers
<1>1. Init => Delivery!Init
  BY DEF Init, Delivery!Init
<1>2. IInv /\ IInv' /\ [Next]_vars => [Delivery!Next]_(Delivery!vars)
  <2> SUFFICES ASSUME IInv, IInv', [Next]_vars
               PROVE  Delivery!Next \/ UNCHANGED Delivery!vars
    OBVIOUS
  <2>1. ASSUME NEW k \in Kinds, Enqueue(k) PROVE Delivery!Submit(k)
    BY <2>1 DEF Enqueue, Delivery!Submit, sent, batcherVars
  <2>2. CASE Recv \/ TickFlush("tick")
    <3>1. UNCHANGED <<kindOf, applied, lost, flag>> /\ pc = "select" /\ pc' # "finished"
      BY <2>2 DEF Recv, ReceiveInto, TickFlush, BeginFlush
    <3> QED BY <3>1 DEF Delivery!vars
  <2>3. CASE (RecvClosed \/ FlushDone) /\ pc' # "finished"
    <3>1. UNCHANGED <<kindOf, applied, lost, flag>> /\ pc # "finished"
      BY <2>3 DEF RecvClosed, BeginFlush, FlushDone, ReturnFromFlush, Exit
    <3> QED BY <2>3, <3>1 DEF Delivery!vars
  <2>4. CASE (RecvClosed \/ TickExit \/ FlushDone \/ RuntimeShutdown) /\ pc' = "finished"
    <3>1. UNCHANGED <<kindOf, applied, flag>> /\ pc # "finished"
      BY <2>4 DEF RecvClosed, TickExit, FlushDone, ReturnFromFlush, RuntimeShutdown
    <3>2. flag
      BY <2>4 DEF IInv, Shutdown, RecvClosed, TickExit, FlushDone, ReturnFromFlush, RuntimeShutdown
    <3> QED BY <2>4, <3>1, <3>2, ExitRefines DEF Delivery!Next
  <2>5. CASE CreateLeads
    <3>1. /\ pc = "create" /\ pc' = "join" /\ applied' = applied \cup Group(LeadCreation)
          /\ UNCHANGED <<kindOf, lost, flag>>
      BY <2>5 DEF CreateLeads
    <3>2. CASE LeadCreation \in Kinds
      BY <3>1, <3>2, WriterRefines DEF Delivery!Next
    <3>3. CASE LeadCreation \notin Kinds
      <4>1. Elems(writing) \subseteq 1..sent
        <5>1. /\ Flushed \in Nat /\ sent = Flushed + Len(writing) + Len(batch) + Len(channel)
              /\ Elems(writing) = (Flushed + 1)..(Flushed + Len(writing))
          BY <3>1, PipelineSets DEF IInv
        <5>2. Len(writing) \in Nat /\ Len(batch) \in Nat /\ Len(channel) \in Nat
          BY DEF IInv, TypeOK
        <5> QED BY <5>1, <5>2
      <4>2. \A t \in 1..sent : kindOf[t] \in Kinds
        BY DEF IInv, TypeOK, sent
      <4>3. Group(LeadCreation) = {}
        BY <3>3, <4>1, <4>2 DEF Group
      <4> QED BY <3>1, <4>3 DEF Delivery!vars
    <3> QED BY <3>2, <3>3
  <2>6. ASSUME NEW k \in Kinds, WriteGroup(k) PROVE Delivery!Next
    <3>1. /\ pc = "join" /\ pc' = "join" /\ applied' = applied \cup Group(k)
          /\ UNCHANGED <<kindOf, lost, flag>>
      BY <2>6 DEF WriteGroup
    <3> QED BY <3>1, WriterRefines DEF Delivery!Next
  <2>7. CASE Signal \/ RetryFlush \/ DropQueue
    BY <2>7 DEF Signal, RetryFlush, DropQueue, batcherVars, Delivery!Next, Delivery!RequestShutdown
  <2>8. CASE FlushReturns \/ FlushTimesOut \/ UNCHANGED vars
    <3>1. UNCHANGED <<kindOf, applied, lost, flag, pc>>
      BY <2>8 DEF FlushReturns, FlushTimesOut, vars, batcherVars
    <3> QED BY <3>1 DEF Delivery!vars
  <2>9. RuntimeShutdown \/ TickExit => pc' = "finished"
    BY DEF RuntimeShutdown, TickExit, Exit
  <2> QED BY <2>1, <2>2, <2>3, <2>4, <2>5, <2>6, <2>7, <2>8, <2>9
             DEF Next, Batcher, Handler, Tick, Delivery!Next
<1> QED BY <1>1, <1>2, Invariant, PTL DEF Spec, Delivers, Delivery!Spec
=============================================================================
