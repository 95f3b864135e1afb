---------------------------- MODULE TaskDelivery ----------------------------
(***************************************************************************)
(* What the write-behind queue promises its callers, without channel,       *)
(* batch or batcher: a submitted task is outstanding until a writer has run *)
(* over it, tasks of one kind are applied in the order of submission, no    *)
(* row is written ahead of a lead creation submitted before it, and tasks   *)
(* are lost only when the queue closes, which takes a shutdown.             *)
(***************************************************************************)
EXTENDS Integers, Sequences

CONSTANTS Kinds, MaxTasks

VARIABLES
    kindOf,   \* kindOf[t] is the kind of the t-th submitted task
    applied,  \* tasks a writer has run over
    lost,     \* tasks no writer will see
    closing,  \* a shutdown was requested
    closed    \* the queue accepts no more work

vars == <<kindOf, applied, lost, closing, closed>>

Outstanding == (1..Len(kindOf)) \ (applied \cup lost)

\* A group that may be written next: the oldest outstanding tasks of one kind,
\* none of them younger than an outstanding creation.
NextGroup(k, S) ==
    /\ S \subseteq Outstanding
    /\ \A t \in S : kindOf[t] = k
    /\ \A t \in S : \A s \in Outstanding \ S : s < t => kindOf[s] \notin {k, "LeadCreation"}

Init ==
    /\ kindOf = <<>> /\ applied = {} /\ lost = {}
    /\ closing = FALSE /\ closed = FALSE

Submit(k) ==
    /\ Len(kindOf) < MaxTasks
    /\ kindOf' = Append(kindOf, k)
    /\ lost' = IF closed THEN lost \cup {Len(kindOf) + 1} ELSE lost
    /\ UNCHANGED <<applied, closing, closed>>

Apply(k, S) ==
    /\ ~closed
    /\ NextGroup(k, S)
    /\ applied' = applied \cup S
    /\ UNCHANGED <<kindOf, lost, closing, closed>>

RequestShutdown ==
    /\ closing' = TRUE
    /\ UNCHANGED <<kindOf, applied, lost, closed>>

Close ==
    /\ closing
    /\ ~closed
    /\ closed' = TRUE
    /\ lost' = lost \cup Outstanding
    /\ UNCHANGED <<kindOf, applied, closing>>

Next ==
    \/ \E k \in Kinds : Submit(k)
    \/ \E k \in Kinds, S \in SUBSET Outstanding : Apply(k, S)
    \/ RequestShutdown
    \/ Close

Spec == Init /\ [][Next]_vars
=============================================================================
