----------------------------- MODULE DurableSlot -----------------------------
(***************************************************************************)
(* What a save slot promises its clients: a checkpoint that is replaced    *)
(* atomically, and a log of operations that continue it.  Generations,     *)
(* pointers, chunks, caches and partial writes do not exist here.          *)
(***************************************************************************)
EXTENDS Integers, Sequences

CONSTANTS
  Contents,    \* what a checkpoint may hold
  Empty,       \* contents of a slot never saved
  Ops,         \* operations, with the revisions they start from and lead to
  MaxRevision

VARIABLES
  revision,    \* revision of the checkpoint
  contents,    \* contents of the checkpoint
  log          \* operations to replay on top of it

vars == <<revision, contents, log>>

\* The revision a client reaches by loading the checkpoint and replaying.
Reached == IF log = <<>> THEN revision ELSE log[Len(log)].rev

Init == revision = 0 /\ contents = Empty /\ log = <<>>

\* A checkpoint never goes back, and absorbs the operations it covers whole.
Checkpoint ==
  \E rev \in revision..MaxRevision, n \in 0..Len(log) :
    /\ \A i \in 1..n : log[i].rev <= rev
    /\ n < Len(log) => log[n + 1].base = rev
    /\ revision' = rev
    /\ contents' \in Contents
    /\ log' = SubSeq(log, n + 1, Len(log))

\* An operation continues the state it was computed from.
Operate ==
  \E op \in Ops :
    /\ op.base = Reached /\ op.rev > op.base
    /\ log' = Append(log, op)
    /\ UNCHANGED <<revision, contents>>

Next == Checkpoint \/ Operate

Spec == Init /\ [][Next]_vars

=============================================================================
