-------------------------- MODULE UploadScheduler ---------------------------
(***************************************************************************)
(* Admission of large cloud uploads (server/upload-inspection-scheduler.    *)
(* mjs).  An upload holds one of a few slots and a share of a byte budget   *)
(* from its admission until its mutation has ended, whichever way it ends;  *)
(* others wait in a bounded queue.  The handlers run to completion on one   *)
(* thread, so each action is one of them.                                   *)
(***************************************************************************)
EXTENDS Naturals, Sequences, FiniteSets, SequencesExt

CONSTANTS
    Uploads,
    Bytes(_),       \* what each upload reserves: its declared size, or for a compressed
                    \* one the limit its expansion is allowed
    Concurrency, QueueLimit, MaxBytes

ASSUME SchedulerAssumption == /\ Concurrency \in Nat \ {0}
                              /\ QueueLimit \in Nat /\ QueueLimit >= Concurrency
                              /\ MaxBytes \in Nat
                              /\ \A u \in Uploads : Bytes(u) \in 0..MaxBytes

VARIABLES
    queue,      \* uploads that wait for a slot, in the order of their arrival
    running,    \* uploads whose task runs
    active,     \* how many slots are taken
    reserved,   \* activeExpandedBytes
    closed

schedVars == <<queue, running, active, reserved, closed>>
State     == [queue |-> queue, running |-> running, active |-> active, reserved |-> reserved]

SchedInit ==
    /\ queue = <<>> /\ running = {}
    /\ active = 0 /\ reserved = 0
    /\ closed = FALSE

\* Well typed, and within the limits: the queue, the slots, the byte budget.
SchedTypeOK ==
    /\ queue \in Seq(Uploads) /\ Len(queue) <= QueueLimit
    /\ running \subseteq Uploads
    /\ active \in 0..Concurrency /\ reserved \in 0..MaxBytes
    /\ closed \in BOOLEAN

-----------------------------------------------------------------------------
(* Admission *)

\* Mutant: only the slots are counted.
FitsAnySize(s, u) == s.active < Concurrency

Fits(s, u) == s.active < Concurrency /\ s.reserved + Bytes(u) <= MaxBytes

Admitted(s, u) ==
    [s EXCEPT !.running = @ \union {u}, !.active = @ + 1, !.reserved = @ + Bytes(u)]

\* Mutant: dispatch stops at the first upload that does not fit.
DispatchInOrder(s) ==
    IF s.queue # <<>> /\ Fits(s, Head(s.queue))
    THEN [Admitted(s, Head(s.queue)) EXCEPT !.queue = Tail(s.queue)]
    ELSE s

\* Mutant: a waiting upload is never looked at again.
DispatchNone(s) == s

\* dispatch: admits the first upload that fits, again and again.  What did not fit does
\* not fit later either, so one pass over the queue does it.
Dispatch(s) ==
    FoldLeft(LAMBDA t, u : IF Fits(t, u) THEN Admitted(t, u)
                                         ELSE [t EXCEPT !.queue = Append(@, u)],
             [s EXCEPT !.queue = <<>>], s.queue)

Becomes(s) ==
    /\ queue' = s.queue /\ running' = s.running
    /\ active' = s.active /\ reserved' = s.reserved

Idle(u) == u \notin running /\ ~Contains(queue, u)

\* run, acquire: an upload arrives, once more perhaps; it is admitted, or turned away
\* because the queue is full, or it waits.
Arrive(u) ==
    /\ ~closed /\ Idle(u)
    /\ IF queue = <<>> /\ Fits(State, u) THEN Becomes(Admitted(State, u))
       ELSE /\ Len(queue) < QueueLimit
            /\ Becomes(Dispatch([State EXCEPT !.queue = Append(queue, u)]))
    /\ UNCHANGED closed

\* onAbort: the connection of a waiting upload closes.
Abort(u) ==
    /\ \E i \in 1..Len(queue) : queue[i] = u /\ queue' = RemoveAt(queue, i)
    /\ UNCHANGED <<running, active, reserved, closed>>

\* Mutant: the bytes are not given back.
ReleasedSlot(s, u) == [s EXCEPT !.running = @ \ {u}, !.active = @ - 1]

\* Mutant: the slot is given back when the upload is aborted and when its task ends.
ReleasedTwice(s, u) ==
    [s EXCEPT !.running = @ \ {u}, !.active = @ - 2, !.reserved = @ - Bytes(u)]

\* releaseFactory
Released(s, u) == [s EXCEPT !.running = @ \ {u}, !.active = @ - 1, !.reserved = @ - Bytes(u)]

\* The task ends, with an answer, an error or a cancellation.
Finish(u) ==
    /\ u \in running
    /\ Becomes(IF closed THEN Released(State, u) ELSE Dispatch(Released(State, u)))
    /\ UNCHANGED closed

\* Mutant: waiting uploads are left to wait.
LeavesQueue == queue

\* close: the waiting uploads are turned away; the running ones are told to abort.
EmptiesQueue == <<>>

Close ==
    /\ ~closed
    /\ closed' = TRUE
    /\ queue' = EmptiesQueue
    /\ UNCHANGED <<running, active, reserved>>

SchedNext == Close \/ \E u \in Uploads : Arrive(u) \/ Abort(u) \/ Finish(u)

SchedSpec == SchedInit /\ [][SchedNext]_schedVars

\* Every task ends: reading a body is bounded by the server's request timeout, the worker
\* by its process, the mutation by its queue.  Nothing is assumed of arrivals.
FairSchedSpec == SchedSpec /\ \A u \in Uploads : WF_schedVars(Finish(u))

-----------------------------------------------------------------------------
(* Properties *)

\* Slots and bytes are given back exactly once, whatever ends an upload: the counters
\* say what runs.
SlotsExact ==
    /\ active = Cardinality(running)
    /\ reserved = MapThenSumSet(Bytes, running)

\* No upload waits while a slot and the bytes for it are free.
WorkConserving == \A i \in 1..Len(queue) : ~Fits(State, queue[i])

\* With the service's defaults, and uploads as the game sends them, none starves: it is
\* admitted, or gives up, or the server shuts down.
Served == \A u \in Uploads : Contains(queue, u) ~> ~Contains(queue, u)

\* A server that shuts down is left with nothing that waits or runs.
ShutdownDrains == closed ~> (queue = <<>> /\ running = {})

\* The waiting uploads are admitted in the order of their arrival.
FirstInFirstOut ==
    [][\A i, j \in 1..Len(queue) :
          i < j /\ queue[j] \in running' => ~Contains(queue', queue[i])]_schedVars
=============================================================================
