----------------------- MODULE PlayerAuthorityProofs -----------------------
(***************************************************************************)
(* Theorems about PlayerAuthority, for every set of commands and every      *)
(* value of the bounds.  The inductive invariant says, for each point of    *)
(* the settling of an operation, what is on disk and what the session       *)
(* holds; only the host's variables appear in it (IInv).  What the desktop  *)
(* holds and was told is added to it in the second part (AInv).             *)
(***************************************************************************)
EXTENDS PlayerAuthority, SequenceTheorems, TLAPS

-----------------------------------------------------------------------------
(* The inductive invariant *)

Live == lease.phase \in {"active", "paused"}

Base == [gen |-> Ack.gen, state |-> Ack.state]
Computed == [gen |-> Ack.gen, state |-> Apply(Pending, Ack.state)]
After == [gen |-> Ack.gen + 1, state |-> Apply(Pending, Ack.state)]

Checkpoint(c) ==
    /\ c = [gen |-> c.gen, state |-> c.state]
    /\ c.gen \in Nat /\ c.state.rev \in Nat /\ c.state.paused \in BOOLEAN

Shape ==
    /\ Checkpoint(published) /\ Checkpoint(session)
    /\ \A d \in draft : Checkpoint(d)
    /\ lease = [phase |-> lease.phase, pending |-> lease.pending, ack |-> lease.ack]
    /\ lease.phase \in {"none", "prepared", "active", "paused"}
    /\ Ack.gen \in Nat /\ Ack.state.rev \in Nat /\ Ack.state.paused \in BOOLEAN
    /\ job = [pc |-> job.pc, req |-> job.req, op |-> job.op]
    /\ hostUp \in BOOLEAN

\* An operation that may be pending, or become so.
Stageable(op) ==
    /\ op.kind \in Kinds /\ op.base = Ack.state.rev
    /\ op.kind = "resume" <=> lease.phase = "paused"

Quiet == Pending = NoOp => (wal = NoOp /\ (lease.phase # "none" => published = Base))

Staged ==
    Pending # NoOp =>
        /\ Live /\ Stageable(Pending)
        /\ wal \in {NoOp, Pending}
        /\ published = Base \/ (published = After /\ wal = NoOp)

Acked ==
    lease.phase # "none" =>
        /\ Ack.state.paused = (lease.phase = "paused")
        /\ Ack.last.kind # "tick"
        /\ (Pending = NoOp /\ Ack.op # NoOp /\ Ack.op = Ack.last) => changes = Ack.op

Memory ==
    (hostUp /\ lease.phase # "none") =>
        /\ Pending = NoOp => session = Base
        /\ (Pending # NoOp /\ published = Base) => (session = Base \/ (session = Computed /\ wal = Pending))
        /\ (Pending # NoOp /\ published = After) => session \in {Computed, After}

Late == {"append", "install", "publish", "settle", "receipt", "ack"}

Progress ==
    /\ job.pc \in {"idle", "rebind", "stage", "reply"} \union Late
    /\ job.pc # "idle" => hostUp /\ Live
    /\ job.pc = "rebind" => job.op = Pending
    /\ job.pc = "stage" => /\ Stageable(job.op)
                           /\ Pending = NoOp \/ job.op = Pending
    /\ job.pc \in Late => job.op = Pending /\ Pending # NoOp
    /\ job.pc = "install" => session = Base /\ wal = Pending /\ published = Base
    /\ job.pc = "publish" => session.state = Apply(Pending, Ack.state)
    /\ job.pc = "settle" => published = After
    /\ job.pc \in {"receipt", "ack"} => published = After /\ session = After
    /\ job.pc = "ack" => (job.op.kind # "tick" => changes = job.op)

IInv == Shape /\ Quiet /\ Staged /\ Acked /\ Memory /\ Progress

core == <<published, wal, lease, changes, draft, hostUp, session, unproved, job>>

-----------------------------------------------------------------------------
(* Lemmas about the operations *)

\* An operation moves the revision by one, so the acknowledged state and the result of
\* the pending operation never look alike.
LEMMA ApplyMoves ==
    ASSUME NEW op, NEW s, s.rev \in Nat, s.paused \in BOOLEAN
    PROVE  /\ Apply(op, s).rev = s.rev + 1 /\ Apply(op, s).rev \in Nat
           /\ Apply(op, s).rev # s.rev
           /\ Apply(op, s).paused = IF IsLifecycle(op.kind) THEN op.kind = "pause" ELSE s.paused
           /\ Apply(op, s).paused \in BOOLEAN
<1>1. Apply(op, s).rev = s.rev + 1
  BY DEF Apply
<1>2. Apply(op, s).paused = IF IsLifecycle(op.kind) THEN op.kind = "pause" ELSE s.paused
  BY DEF Apply
<1>3. Apply(op, s).paused \in BOOLEAN
  BY <1>2
<1> QED BY <1>1, <1>2, <1>3

LEMMA MadeCheckpoint ==
    ASSUME NEW g \in Nat, NEW s, s.rev \in Nat, s.paused \in BOOLEAN
    PROVE  Checkpoint([gen |-> g, state |-> s])
  BY DEF Checkpoint

LEMMA StageableIsSomething == ASSUME NEW op, Stageable(op) PROVE op # NoOp
  BY DEF Stageable, Kinds, NoOp

\* What a request becomes may be staged.
LEMMA OpForStageable ==
    ASSUME NEW r, r.kind \in Kinds, lease.phase = Source(r.kind)
    PROVE  Stageable(OpFor(r))
  BY DEF Stageable, OpFor, Source, Kinds

LEMMA CoreUnchanged == IInv /\ UNCHANGED core => IInv'
  BY DEF IInv, Shape, Checkpoint, Quiet, Staged, Acked, Memory, Progress, core, Live, Base,
         Computed, After, Stageable, Ack, Pending, Late

LEMMA InitIInv == Init => IInv
<1> SUFFICES ASSUME Init PROVE IInv
  OBVIOUS
<1>1. /\ lease.phase = "none" /\ Pending = NoOp /\ wal = NoOp /\ hostUp = TRUE
      /\ job.pc = "idle" /\ draft = {}
  BY DEF Init, HostInit, NoLease, Idle, Pending
<1>2. Checkpoint(published) /\ Checkpoint(session)
  BY DEF Init, HostInit, Checkpoint, Blank
<1>3. Shape
  BY <1>1, <1>2 DEF Init, HostInit, Shape, NoLease, Ack, Blank, Idle
<1>4. Quiet /\ Staged /\ Acked /\ Memory /\ Progress
  BY <1>1 DEF Quiet, Staged, Acked, Memory, Progress, Late
<1> QED BY <1>3, <1>4 DEF IInv

-----------------------------------------------------------------------------
(* The steps of an operation *)

LEMMA AcceptKeeps == ASSUME NEW r, IInv, Accept(r) PROVE IInv'
<1> USE DEF Ack, Pending
<1>1. /\ UNCHANGED <<published, wal, lease, changes, draft, hostUp>>
      /\ session' = Proved /\ unproved' = FALSE /\ hostUp
      /\ job' = [pc |-> "stage", req |-> r, op |-> IF Pending = NoOp THEN OpFor(r) ELSE Pending]
      /\ r.kind \in Kinds /\ lease.phase = Source(r.kind)
  BY DEF Accept, Admitted, diskVars
<1>2. Live
  BY <1>1 DEF Live, Source
<1>3. session' = session \/ (Pending # NoOp /\ published = After /\ session' = After)
  <2>1. CASE Pending = NoOp
    BY <2>1, <1>1, <1>2 DEF IInv, Quiet, Memory, Proved, Live, Base, Shape, Checkpoint
  <2>2. CASE Pending # NoOp /\ published = Base
    BY <2>2, <1>1, <1>2, ApplyMoves DEF IInv, Memory, Proved, Live, Base, Computed, Shape, Checkpoint
  <2>3. CASE Pending # NoOp /\ published = After
    BY <2>3, <1>1, <1>2 DEF IInv, Memory, Proved, Live, After, Computed
  <2> QED BY <2>1, <2>2, <2>3 DEF IInv, Staged
<1>4. Shape'
  BY <1>1, <1>3, ApplyMoves DEF IInv, Shape, Checkpoint, After
<1>5. Memory'
  BY <1>1, <1>3, ApplyMoves DEF IInv, Memory, Base, After, Computed, Shape
<1>6. Progress'
  <2>1. Pending = NoOp => Stageable(OpFor(r))
    BY <1>1, OpForStageable
  <2>2. Pending # NoOp => Stageable(Pending)
    BY DEF IInv, Staged
  <2> QED BY <2>1, <2>2, <1>1, <1>2 DEF Progress, Stageable, Live, Late
<1>7. Quiet' /\ Staged' /\ Acked'
  BY <1>1 DEF IInv, Quiet, Staged, Acked, Live, Stageable, Base, After
<1> QED BY <1>4, <1>5, <1>6, <1>7 DEF IInv

LEMMA StageKeeps == ASSUME IInv, Stage PROVE IInv'
<1> USE DEF Ack, Pending
<1>1. /\ UNCHANGED <<published, wal, changes, draft, hostUp, session, unproved>>
      /\ lease' = [lease EXCEPT !.pending = job.op]
      /\ job' = [job EXCEPT !.pc = "append"] /\ job.pc = "stage" /\ hostUp
  BY DEF Stage, At, Goto
<1>2. /\ Live /\ Stageable(job.op) /\ job.op # NoOp
      /\ Pending = NoOp \/ job.op = Pending
  BY <1>1, StageableIsSomething DEF IInv, Progress
<1>3. /\ lease'.phase = lease.phase /\ lease'.ack = lease.ack /\ lease'.pending = job.op
      /\ job'.op = job.op /\ job'.pc = "append"
  BY <1>1 DEF IInv, Shape
<1>4. Shape'
  BY <1>1, <1>3 DEF IInv, Shape, Checkpoint
<1>5. CASE job.op = Pending
  <2>1. lease' = lease
    BY <1>1, <1>3, <1>5 DEF IInv, Shape
  <2>2. Quiet' /\ Staged' /\ Acked' /\ Memory'
    BY <1>1, <2>1 DEF IInv, Quiet, Staged, Acked, Memory, Live, Stageable, Base, After, Computed
  <2>3. Progress'
    BY <1>1, <1>2, <1>3, <2>1 DEF Progress, Live, Late
  <2> QED BY <1>4, <2>2, <2>3 DEF IInv
<1>6. CASE Pending = NoOp
  <2>1. published = Base /\ session = Base /\ wal = NoOp
    BY <1>1, <1>2, <1>6 DEF IInv, Quiet, Memory, Live
  <2>2. Quiet' /\ Staged' /\ Acked'
    BY <1>1, <1>2, <1>3, <2>1 DEF IInv, Quiet, Staged, Acked, Live, Stageable, Base
  <2>3. Memory'
    BY <1>1, <1>3, <2>1 DEF IInv, Shape, Memory, Base, After
  <2>4. Progress'
    BY <1>1, <1>2, <1>3 DEF Progress, Live, Late
  <2> QED BY <1>4, <2>2, <2>3, <2>4 DEF IInv
<1> QED BY <1>2, <1>5, <1>6

\* At "append" the session tells the three cases of commit_operation_internal apart.
LEMMA AppendKeeps == ASSUME IInv, AppendWal PROVE IInv'
<1> USE DEF Ack, Pending
<1>1. /\ UNCHANGED <<published, lease, changes, draft, hostUp, unproved>>
      /\ job.pc = "append" /\ hostUp /\ CanAppend
  BY DEF AppendWal, At
<1>2. /\ Live /\ job.op = Pending /\ Pending # NoOp /\ Stageable(Pending)
      /\ Result(job.op) = Ack.state.rev + 1 /\ job.op.base = Ack.state.rev
  BY <1>1 DEF IInv, Progress, Staged, Stageable, Late, Result
<1>3. /\ Ack.state.rev \in Nat /\ Base.state.rev = Ack.state.rev
      /\ After.state.rev = Ack.state.rev + 1 /\ Computed.state.rev = Ack.state.rev + 1
      /\ Base.gen = Ack.gen /\ Computed.gen = Ack.gen /\ After.gen = Ack.gen + 1 /\ Ack.gen \in Nat
  BY ApplyMoves DEF IInv, Shape, Base, After, Computed
<1>4. \/ published = Base /\ session = Base /\ wal \in {NoOp, Pending}
      \/ published = Base /\ session = Computed /\ wal = Pending
      \/ published = After /\ session \in {Computed, After} /\ wal = NoOp
  BY <1>1, <1>2 DEF IInv, Staged, Memory, Live
<1>5. CASE AlreadyPublished
  <2>1. UNCHANGED <<wal, session>> /\ job' = [job EXCEPT !.pc = "publish"]
    BY <1>5 DEF AppendWal, Goto
  <2>2. published = After /\ session = After
    BY <1>2, <1>3, <1>4, <1>5 DEF AlreadyPublished
  <2>3. job'.pc = "publish" /\ job'.op = job.op /\ Shape'
    BY <1>1, <2>1 DEF IInv, Shape, Checkpoint
  <2>4. Quiet' /\ Staged' /\ Acked' /\ Memory'
    BY <1>1, <2>1 DEF IInv, Quiet, Staged, Acked, Memory, Live, Stageable, Base, After, Computed
  <2>5. Progress'
    BY <1>1, <1>2, <2>1, <2>2, <2>3 DEF Progress, Live, Late, After
  <2> QED BY <2>3, <2>4, <2>5 DEF IInv
<1>6. CASE ~AlreadyPublished /\ FoundInWal
  <2>1. /\ UNCHANGED wal /\ job' = [job EXCEPT !.pc = "publish"]
        /\ session' = IF session.state.rev = job.op.base
                      THEN [session EXCEPT !.state = Apply(job.op, @)] ELSE session
    BY <1>6 DEF AppendWal, Goto
  <2>2. wal = Pending /\ published = Base
    BY <1>2, <1>4, <1>6 DEF FoundInWal
  <2>3. session' = Computed
    <3>1. CASE session = Base
      BY <3>1, <2>1, <1>2, <1>3 DEF Base, Computed
    <3>2. CASE session = Computed
      BY <3>2, <2>1, <1>2, <1>3
    <3> QED BY <3>1, <3>2, <1>2, <1>4, <2>2
  <2>4. job'.pc = "publish" /\ job'.op = job.op /\ Shape'
    BY <1>1, <2>1, <2>3, ApplyMoves DEF IInv, Shape, Checkpoint, Computed
  <2>5. Quiet' /\ Staged' /\ Acked'
    BY <1>1, <2>1 DEF IInv, Quiet, Staged, Acked, Live, Stageable, Base, After
  <2>6. Memory'
    BY <1>1, <1>2, <1>3, <2>1, <2>2, <2>3 DEF Memory, Base, Computed, After
  <2>7. Progress'
    BY <1>1, <1>2, <2>1, <2>3, <2>4 DEF Progress, Live, Late, Computed
  <2> QED BY <2>4, <2>5, <2>6, <2>7 DEF IInv
<1>7. CASE ~AlreadyPublished /\ ~FoundInWal
  <2>1. wal' = job.op /\ job' = [job EXCEPT !.pc = "install"] /\ UNCHANGED session
    BY <1>7 DEF AppendWal, Goto
  <2>2. session.state.rev = job.op.base
    BY <1>1, <1>7 DEF CanAppend
  <2>3. session = Base /\ published = Base
    BY <1>2, <1>3, <1>4, <2>2
  <2>4. job'.pc = "install" /\ job'.op = job.op /\ Shape'
    BY <1>1, <2>1 DEF IInv, Shape, Checkpoint
  <2>5. Quiet' /\ Staged' /\ Acked'
    BY <1>1, <1>2, <2>1, <2>3 DEF IInv, Quiet, Staged, Acked, Live, Stageable, Base
  <2>6. Memory'
    BY <1>1, <1>2, <1>3, <2>1, <2>3 DEF Memory, Base, After
  <2>7. Progress'
    BY <1>1, <1>2, <2>1, <2>3, <2>4 DEF Progress, Live, Late, Base
  <2> QED BY <2>4, <2>5, <2>6, <2>7 DEF IInv
<1> QED BY <1>5, <1>6, <1>7

LEMMA InstallKeeps == ASSUME IInv, Install PROVE IInv'
<1> USE DEF Ack, Pending
<1>1. /\ UNCHANGED <<published, wal, lease, changes, draft, hostUp, unproved>>
      /\ session' = [session EXCEPT !.state = Apply(job.op, @)]
      /\ job' = [job EXCEPT !.pc = "publish"] /\ job.pc = "install" /\ hostUp
  BY DEF Install, At, Goto, diskVars
<1>2. /\ Live /\ job.op = Pending /\ Pending # NoOp
      /\ session = Base /\ wal = Pending /\ published = Base
  BY <1>1 DEF IInv, Progress, Late
<1>3. session' = Computed
  BY <1>1, <1>2 DEF Base, Computed
<1>4. job'.pc = "publish" /\ job'.op = job.op /\ Shape'
  BY <1>1, <1>3, ApplyMoves DEF IInv, Shape, Checkpoint, Computed
<1>5. Quiet' /\ Staged' /\ Acked'
  BY <1>1 DEF IInv, Quiet, Staged, Acked, Live, Stageable, Base, After
<1>6. Base # After
  BY DEF IInv, Shape, Base, After
<1>7. Memory'
  BY <1>1, <1>2, <1>3, <1>6 DEF Memory, Base, Computed, After
<1>8. Progress'
  BY <1>1, <1>2, <1>3, <1>4 DEF Progress, Live, Late, Computed
<1> QED BY <1>4, <1>5, <1>7, <1>8 DEF IInv

LEMMA PublishKeeps == ASSUME IInv, Publish PROVE IInv'
<1> USE DEF Ack, Pending
<1>1. /\ UNCHANGED <<lease, changes, draft, hostUp, session, unproved>>
      /\ job.pc = "publish" /\ hostUp /\ CanPublish
  BY DEF Publish, At, coreVars
<1>2. /\ Live /\ job.op = Pending /\ Pending # NoOp /\ Stageable(Pending)
      /\ Result(job.op) = Ack.state.rev + 1
      /\ session.state = Apply(Pending, Ack.state)
  BY <1>1 DEF IInv, Progress, Staged, Stageable, Late, Result
<1>3. /\ Ack.state.rev \in Nat /\ Base.state.rev = Ack.state.rev /\ Ack.gen \in Nat
      /\ After.state.rev = Ack.state.rev + 1 /\ Base # After
      /\ Base.gen = Ack.gen /\ After.gen = Ack.gen + 1
  BY ApplyMoves DEF IInv, Shape, Base, After
<1>4. \/ published = Base /\ session = Computed
      \/ published = After /\ session \in {Computed, After} /\ wal = NoOp
  <2>1. published = Base => session # Base
    BY <1>2, <1>3, ApplyMoves DEF Base, IInv, Shape
  <2> QED BY <1>1, <1>2, <2>1 DEF IInv, Staged, Memory, Live
<1>5. CASE published.state.rev = Result(job.op)
  <2>1. UNCHANGED <<published, wal>> /\ job' = [job EXCEPT !.pc = "receipt"]
    BY <1>5 DEF Publish, Goto
  <2>2. published = After
    BY <1>2, <1>3, <1>4, <1>5
  <2>3. session = After
    BY <1>1, <1>2, <1>3, <1>4, <2>2 DEF CanPublish, Computed
  <2>4. job'.pc = "receipt" /\ job'.op = job.op /\ Shape'
    BY <1>1, <2>1 DEF IInv, Shape, Checkpoint
  <2>5. Quiet' /\ Staged' /\ Acked' /\ Memory'
    BY <1>1, <2>1 DEF IInv, Quiet, Staged, Acked, Memory, Live, Stageable, Base, After, Computed
  <2>6. Progress'
    BY <1>1, <1>2, <2>1, <2>2, <2>3, <2>4 DEF Progress, Live, Late, After
  <2> QED BY <2>4, <2>5, <2>6 DEF IInv
<1>6. CASE published.state.rev # Result(job.op)
  <2>1. /\ published' = [gen |-> published.gen + 1, state |-> session.state]
        /\ wal' = NoOp /\ job' = [job EXCEPT !.pc = "settle"]
    BY <1>6 DEF Publish, Goto
  <2>2. published = Base /\ session = Computed
    BY <1>2, <1>3, <1>4, <1>6
  <2>3. published' = After
    BY <1>2, <1>3, <2>1, <2>2 DEF After
  <2>4. job'.pc = "settle" /\ job'.op = job.op /\ Shape'
    BY <1>1, <1>3, <2>1, <2>3, ApplyMoves DEF IInv, Shape, Checkpoint, After
  <2>5. Quiet' /\ Staged' /\ Acked'
    BY <1>1, <1>2, <2>1, <2>3 DEF IInv, Quiet, Staged, Acked, Live, Stageable, After
  <2>6. Memory'
    BY <1>1, <1>2, <1>3, <2>2, <2>3 DEF Memory, Base, Computed, After
  <2>7. Progress'
    BY <1>1, <1>2, <2>3, <2>4 DEF Progress, Live, Late, After
  <2> QED BY <2>4, <2>5, <2>6, <2>7 DEF IInv
<1> QED BY <1>5, <1>6

\* Once the publication is the operation's result, taking over its generation makes the
\* session equal to it.
LEMMA AdoptKeeps ==
    ASSUME IInv, UNCHANGED <<published, wal, lease, changes, draft, hostUp>>,
           session' = [session EXCEPT !.gen = published.gen],
           hostUp, Live, Pending # NoOp, published = After,
           job' = [job EXCEPT !.pc = "receipt"] \/ job' = Idle,
           job.op = Pending
    PROVE  IInv'
<1> USE DEF Ack, Pending
<1>1. session' = After
  <2>1. session \in {Computed, After}
    BY DEF IInv, Memory, Live
  <2> QED BY <2>1 DEF Computed, After
<1>2. Shape' /\ job'.pc \in {"receipt", "idle"} /\ (job'.pc = "receipt" => job'.op = job.op)
  BY <1>1, ApplyMoves DEF IInv, Shape, Checkpoint, After, Idle
<1>3. Quiet' /\ Staged' /\ Acked'
  BY DEF IInv, Quiet, Staged, Acked, Live, Stageable, Base, After
<1>4. Base # After
  BY DEF IInv, Shape, Base, After
<1>5. Memory'
  BY <1>1, <1>4 DEF Memory, Base, Computed, After
<1>6. Progress'
  BY <1>1, <1>2 DEF Progress, Live, Late, After
<1> QED BY <1>2, <1>3, <1>5, <1>6 DEF IInv

LEMMA SettleKeeps == ASSUME IInv, Settle PROVE IInv'
<1>1. /\ UNCHANGED <<published, wal, lease, changes, draft, hostUp>>
      /\ session' = [session EXCEPT !.gen = published.gen]
      /\ job' = [job EXCEPT !.pc = "receipt"] /\ job.pc = "settle" /\ hostUp
  BY DEF Settle, At, Goto, diskVars
<1>2. Live /\ job.op = Pending /\ Pending # NoOp /\ published = After
  BY <1>1 DEF IInv, Progress, Late
<1> QED BY <1>1, <1>2, AdoptKeeps

LEMMA ReceiptKeeps == ASSUME IInv, WriteReceipt PROVE IInv'
<1> USE DEF Ack, Pending
<1>1. /\ UNCHANGED <<published, wal, lease, draft, hostUp, session, unproved>>
      /\ changes' = IF job.op.kind = "tick" THEN changes ELSE job.op
      /\ job' = [job EXCEPT !.pc = "ack"] /\ job.pc = "receipt" /\ hostUp
  BY DEF WriteReceipt, At, Goto, coreVars
<1>2. /\ Live /\ job.op = Pending /\ Pending # NoOp /\ published = After /\ session = After
  BY <1>1 DEF IInv, Progress, Late
<1>3. job'.pc = "ack" /\ job'.op = job.op /\ Shape'
  BY <1>1 DEF IInv, Shape, Checkpoint
<1>4. Quiet' /\ Staged' /\ Acked' /\ Memory'
  BY <1>1, <1>2 DEF IInv, Quiet, Staged, Acked, Memory, Live, Stageable, Base, After, Computed
<1>5. Progress'
  BY <1>1, <1>2, <1>3 DEF Progress, Live, Late, After
<1> QED BY <1>3, <1>4, <1>5 DEF IInv

\* The acknowledgement moves the base to the publication.
LEMMA AcknowledgeKeeps == ASSUME IInv, Acknowledge PROVE IInv'
<1> USE DEF Ack, Pending
<1>1. /\ UNCHANGED <<published, wal, changes, draft, hostUp, session, unproved>>
      /\ job' = [job EXCEPT !.pc = "reply"] /\ job.pc = "ack" /\ hostUp
      /\ published = session
      /\ lease' = [lease EXCEPT
                    !.phase = IF IsLifecycle(Pending.kind) THEN Target(Pending.kind) ELSE @,
                    !.pending = NoOp,
                    !.ack = [seq |-> Pending.seq, gen |-> session.gen, state |-> session.state,
                             clock |-> Pending.clock, op |-> Pending,
                             last |-> IF Pending.kind = "tick" THEN @.last ELSE Pending]]
  BY DEF Acknowledge, At, Goto, coreVars
<1>2. /\ Live /\ job.op = Pending /\ Pending # NoOp /\ Stageable(Pending)
      /\ published = After /\ session = After
      /\ Pending.kind # "tick" => changes = Pending
  BY <1>1 DEF IInv, Progress, Late, Staged
<1>3. wal = NoOp
  <2>1. published # Base
    BY <1>2 DEF IInv, Shape, Base, After
  <2> QED BY <1>2, <2>1 DEF IInv, Staged
<1>4. /\ lease'.phase = IF IsLifecycle(Pending.kind) THEN Target(Pending.kind) ELSE lease.phase
      /\ lease'.pending = NoOp
      /\ lease'.ack = [seq |-> Pending.seq, gen |-> session.gen, state |-> session.state,
                       clock |-> Pending.clock, op |-> Pending,
                       last |-> IF Pending.kind = "tick" THEN lease.ack.last ELSE Pending]
      /\ lease' = [phase |-> lease'.phase, pending |-> lease'.pending, ack |-> lease'.ack]
  BY <1>1 DEF IInv, Shape
<1>5. /\ lease'.ack.state = After.state /\ lease'.ack.gen = After.gen /\ lease'.ack.op = Pending
      /\ lease'.ack.last = IF Pending.kind = "tick" THEN lease.ack.last ELSE Pending
      /\ After.state = Apply(Pending, lease.ack.state) /\ After.gen = lease.ack.gen + 1
  BY <1>2, <1>4 DEF After
<1>6. lease'.phase \in {"active", "paused"} /\ job'.pc = "reply"
  BY <1>1, <1>2, <1>4 DEF Live, Target, IInv, Shape
<1>7. Shape'
  BY <1>1, <1>4, <1>5, <1>6, ApplyMoves DEF IInv, Shape, Checkpoint
<1>8. Ack'.state.paused = (lease'.phase = "paused")
  <2>1. After.state.paused = IF IsLifecycle(Pending.kind) THEN Pending.kind = "pause" ELSE lease.ack.state.paused
    BY <1>5, ApplyMoves DEF IInv, Shape
  <2>2. lease.ack.state.paused = (lease.phase = "paused")
    BY <1>2 DEF IInv, Acked, Live
  <2>3. CASE IsLifecycle(Pending.kind)
    BY <2>1, <2>3, <1>4, <1>5 DEF IsLifecycle, Target
  <2>4. CASE ~IsLifecycle(Pending.kind)
    BY <2>1, <2>2, <2>4, <1>4, <1>5
  <2> QED BY <2>3, <2>4
<1>9. Acked'
  BY <1>1, <1>2, <1>5, <1>8 DEF IInv, Acked, Live
<1>10. Quiet' /\ Staged' /\ Memory'
  BY <1>1, <1>2, <1>3, <1>4, <1>5 DEF Quiet, Staged, Memory, Base, After
<1>11. Progress'
  BY <1>1, <1>6 DEF Progress, Live, Late
<1> QED BY <1>7, <1>9, <1>10, <1>11 DEF IInv

\* A job that ends leaves everything else where it is.
LEMMA IdleKeeps ==
    ASSUME IInv, UNCHANGED <<published, wal, lease, changes, draft, session>>,
           hostUp' \in BOOLEAN, hostUp' => hostUp, job' = Idle
    PROVE  IInv'
<1> USE DEF Ack, Pending
<1>1. Shape' /\ job'.pc = "idle"
  BY DEF IInv, Shape, Checkpoint, Idle
<1>2. Quiet' /\ Staged' /\ Acked' /\ Memory'
  BY DEF IInv, Quiet, Staged, Acked, Memory, Live, Stageable, Base, After, Computed
<1>3. Progress'
  BY <1>1 DEF Progress, Late
<1> QED BY <1>1, <1>2, <1>3 DEF IInv

LEMMA FinishKeeps == ASSUME IInv, Finish PROVE IInv'
<1>1. UNCHANGED <<published, wal, lease, changes, draft, session, hostUp>> /\ job' = Idle
  BY DEF Finish, diskVars
<1>2. hostUp' \in BOOLEAN
  BY <1>1 DEF IInv, Shape
<1> QED BY <1>1, <1>2, IdleKeeps

LEMMA JobFailsKeeps == ASSUME IInv, JobFails PROVE IInv'
<1>1. /\ UNCHANGED <<published, wal, lease, changes, draft, hostUp>> /\ job' = Idle
      /\ hostUp' \in BOOLEAN /\ hostUp
      /\ \/ UNCHANGED session
         \/ job.pc = "settle" /\ session' = [session EXCEPT !.gen = published.gen]
  BY DEF JobFails, diskVars, IInv, Shape
<1>2. CASE UNCHANGED session
  BY <1>1, <1>2, IdleKeeps
<1>3. CASE job.pc = "settle" /\ session' = [session EXCEPT !.gen = published.gen]
  <2>1. Live /\ job.op = Pending /\ Pending # NoOp /\ published = After
    BY <1>3 DEF IInv, Progress, Late
  <2> QED BY <1>1, <1>3, <2>1, AdoptKeeps
<1> QED BY <1>1, <1>2, <1>3

LEMMA HostDiesKeeps == ASSUME IInv, HostDies PROVE IInv'
  BY IdleKeeps DEF HostDies, diskVars, coreVars

-----------------------------------------------------------------------------
(* The life of the host *)

LEMMA DuplicateKeeps == ASSUME NEW r, IInv, AnswerDuplicate(r) PROVE IInv'
<1> USE DEF Ack, Pending
<1>1. /\ UNCHANGED <<published, wal, lease, changes, draft, hostUp, job>>
      /\ session' = Proved /\ hostUp /\ Pending = NoOp /\ Current(Proved)
  BY DEF AnswerDuplicate, Duplicate, diskVars
<1>2. session' = Base
  BY <1>1 DEF Current, Base
<1>3. Shape'
  BY <1>1, <1>2 DEF IInv, Shape, Checkpoint, Base
<1>4. Quiet' /\ Staged' /\ Acked' /\ Memory'
  BY <1>1, <1>2 DEF IInv, Quiet, Staged, Acked, Memory, Base
<1>5. Progress'
  BY <1>1 DEF IInv, Progress, Live, Late, Stageable, AnswerDuplicate
<1> QED BY <1>3, <1>4, <1>5 DEF IInv

LEMMA EntryKeeps == ASSUME NEW r, IInv, Entry(r) PROVE IInv'
<1> USE DEF Ack, Pending
<1>1. /\ UNCHANGED <<published, wal, changes, draft, hostUp, session, unproved, job>>
      /\ job.pc = "idle" /\ session = published /\ hostUp
  BY DEF Entry, Enterable, coreVars
<1>2. Pending = NoOp /\ ~Live
  BY DEF Entry, Enterable, IInv, Staged, Live
<1>3. CASE r.kind = "activate"
  <2>1. lease' = [lease EXCEPT !.phase = "active"] /\ lease.phase = "prepared"
    BY <1>3 DEF Entry, Enterable
  <2>2. /\ lease'.phase = "active" /\ lease'.pending = lease.pending /\ lease'.ack = lease.ack
    BY <2>1 DEF IInv, Shape
  <2>3. Shape'
    BY <1>1, <2>1, <2>2 DEF IInv, Shape, Checkpoint
  <2>4. Quiet' /\ Staged' /\ Acked' /\ Memory' /\ Progress'
    BY <1>1, <1>2, <2>1, <2>2 DEF IInv, Quiet, Staged, Acked, Memory, Progress, Base, Late
  <2> QED BY <2>3, <2>4 DEF IInv
<1>4. CASE r.kind # "activate"
  <2>1. /\ lease' = [phase |-> "prepared", pending |-> NoOp,
                     ack |-> [seq |-> 0, gen |-> session.gen, state |-> session.state,
                              clock |-> r.clock, op |-> NoOp, last |-> NoOp]]
        /\ ~session.state.paused /\ lease.phase = "none"
    BY <1>4 DEF Entry, Enterable
  <2>2. Shape'
    BY <1>1, <2>1 DEF IInv, Shape, Checkpoint
  <2>3. Base' = published /\ wal = NoOp
    BY <1>1, <1>2, <2>1 DEF IInv, Shape, Checkpoint, Base, Quiet
  <2>4. Acked'
    BY <1>1, <2>1 DEF Acked, NoOp, IInv, Shape, Checkpoint
  <2>5. Quiet' /\ Staged' /\ Memory' /\ Progress'
    BY <1>1, <2>1, <2>3 DEF Quiet, Staged, Memory, Progress, Late
  <2> QED BY <2>2, <2>4, <2>5 DEF IInv
<1> QED BY <1>3, <1>4

LEMMA BootKeeps == ASSUME IInv, Boot PROVE IInv'
<1> USE DEF Ack, Pending
<1>1. /\ UNCHANGED <<published, wal, lease, changes>> /\ hostUp' = TRUE /\ draft' = {}
      /\ session' = Recovered
      /\ job' = IF lease.phase \in {"active", "paused"} /\ Recoverable
                THEN [pc |-> "rebind", req |-> NoRequest, op |-> Pending] ELSE Idle
  BY DEF Boot, diskVars
<1>2. wal # NoOp => (wal = Pending /\ published = Base)
  BY DEF IInv, Quiet, Staged
<1>3. session' = IF wal = NoOp THEN published ELSE Computed
  BY <1>1, <1>2 DEF Recovered, Base, Computed, IInv, Shape, Checkpoint
<1>4. Shape'
  BY <1>1, <1>3, ApplyMoves DEF IInv, Shape, Checkpoint, Computed, Idle
<1>5. Quiet' /\ Staged' /\ Acked'
  BY <1>1 DEF IInv, Quiet, Staged, Acked, Live, Stageable, Base, After
<1>6. Base # After
  BY DEF IInv, Shape, Base, After
<1>7. Memory'
  BY <1>1, <1>2, <1>3, <1>6 DEF IInv, Quiet, Memory, Base, Computed, After
<1>8. Progress'
  BY <1>1 DEF Progress, Live, Late, Idle
<1> QED BY <1>4, <1>5, <1>7, <1>8 DEF IInv

LEMMA RebindKeeps == ASSUME IInv, Rebind PROVE IInv'
<1> USE DEF Ack, Pending
<1>1. /\ UNCHANGED <<published, wal, lease, changes, draft, hostUp, session, unproved>>
      /\ job' = [job EXCEPT !.pc = IF Pending = NoOp THEN "reply" ELSE "stage"]
      /\ job.pc = "rebind" /\ hostUp
  BY DEF Rebind, At, Goto, diskVars, coreVars
<1>2. Live /\ job.op = Pending /\ (Pending # NoOp => Stageable(Pending))
  BY <1>1 DEF IInv, Progress, Staged
<1>3. /\ job'.pc = IF Pending = NoOp THEN "reply" ELSE "stage"
      /\ job'.op = job.op /\ Shape'
  BY <1>1 DEF IInv, Shape, Checkpoint
<1>4. Quiet' /\ Staged' /\ Acked' /\ Memory'
  BY <1>1 DEF IInv, Quiet, Staged, Acked, Memory, Live, Stageable, Base, After, Computed
<1>5. Progress'
  BY <1>1, <1>2, <1>3 DEF Progress, Live, Late, Stageable
<1> QED BY <1>3, <1>4, <1>5 DEF IInv

\* Nothing of the generic writer happens once the lease exists.
LEMMA GenericKeeps ==
    ASSUME IInv, GenericBegin \/ GenericCommit \/ Reopen
    PROVE  IInv'
<1> USE DEF Ack, Pending
<1>1. UNCHANGED <<wal, lease, changes, hostUp, job>> /\ job.pc = "idle"
  BY DEF GenericBegin, GenericCommit, Reopen, diskVars
<1>2. CASE GenericBegin
  <2>1. /\ UNCHANGED <<published, session>>
        /\ draft' = {[gen |-> published.gen, state |-> FirstSave]}
    BY <1>2 DEF GenericBegin, diskVars, coreVars
  <2>2. Shape'
    <3>1. FirstSave.rev \in Nat /\ FirstSave.paused \in BOOLEAN
      BY DEF FirstSave, Blank
    <3>2. \A d \in draft' : Checkpoint(d)
      BY <2>1, <3>1, MadeCheckpoint DEF IInv, Shape, Checkpoint
    <3> QED BY <1>1, <2>1, <3>2 DEF IInv, Shape, Checkpoint
  <2>3. Quiet' /\ Staged' /\ Acked' /\ Memory' /\ Progress'
    BY <1>1, <2>1 DEF IInv, Quiet, Staged, Acked, Memory, Progress, Live, Stageable, Base, After,
                      Computed, Late
  <2> QED BY <2>2, <2>3 DEF IInv
<1>3. CASE GenericCommit
  <2>1. /\ UNCHANGED session /\ draft' = {}
        /\ \/ UNCHANGED published
           \/ /\ lease.phase = "none"
              /\ \E d \in draft : published' = [gen |-> d.gen + 1, state |-> d.state]
    BY <1>3 DEF GenericCommit, coreVars
  <2>2. Shape'
    BY <1>1, <2>1 DEF IInv, Shape, Checkpoint
  <2>3. Quiet' /\ Staged' /\ Acked' /\ Memory' /\ Progress'
    BY <1>1, <2>1 DEF IInv, Quiet, Staged, Acked, Memory, Progress, Live, Stageable, Base, After,
                      Computed, Late
  <2> QED BY <2>2, <2>3 DEF IInv
<1>4. CASE Reopen
  <2>1. UNCHANGED <<published, draft>> /\ session' = Recovered /\ lease.phase = "none"
    BY <1>4 DEF Reopen, diskVars
  <2>2. wal = NoOp
    BY <2>1 DEF IInv, Quiet, Staged, Live
  <2>3. session' = published
    BY <2>1, <2>2 DEF Recovered, IInv, Shape, Checkpoint
  <2>4. Shape'
    BY <1>1, <2>1, <2>3 DEF IInv, Shape, Checkpoint
  <2>5. Quiet' /\ Staged' /\ Acked' /\ Memory' /\ Progress'
    BY <1>1, <2>1 DEF IInv, Quiet, Staged, Acked, Memory, Progress, Live, Late
  <2> QED BY <2>4, <2>5 DEF IInv
<1> QED BY <1>2, <1>3, <1>4

-----------------------------------------------------------------------------
(* Every step of the specification *)

\* What a step of the whole system does to the host.
HostStep ==
    \/ UNCHANGED core
    \/ \E r : Accept(r) \/ AnswerDuplicate(r) \/ Entry(r)
    \/ Stage \/ AppendWal \/ Install \/ Publish \/ Settle \/ WriteReceipt \/ Acknowledge \/ Rebind
    \/ Finish \/ JobFails \/ HostDies \/ Boot
    \/ GenericBegin \/ GenericCommit \/ Reopen

LEMMA EveryStep == [Next]_vars => HostStep
<1> SUFFICES ASSUME [Next]_vars PROVE HostStep
  OBVIOUS
<1> USE DEF HostStep, core, hostVars, diskVars, coreVars
<1>1. CASE AdvanceClock \/ Player \/ Timeout
  <2>1. CASE AdvanceClock
    BY <2>1 DEF AdvanceClock
  <2>2. CASE Player
    BY <2>2 DEF Player, Activate, SettleDue, HistoryStatus, PauseGame, ResumeGame, Retry, Submit, Undo
  <2>3. CASE Timeout
    BY <2>3 DEF Timeout
  <2> QED BY <1>1, <2>1, <2>2, <2>3
<1>2. CASE Host
  <2>1. CASE Begin
    BY <2>1 DEF Begin
  <2>2. CASE Turn
    BY <2>2 DEF Turn, Reject
  <2>3. CASE Repeat
    BY <2>3 DEF Repeat
  <2>4. CASE Enter
    BY <2>4 DEF Enter
  <2>5. CASE Work
    BY <2>5 DEF Work
  <2>6. CASE Done
    BY <2>6 DEF Done
  <2> QED BY <1>2, <2>1, <2>2, <2>3, <2>4, <2>5, <2>6 DEF Host
<1>3. CASE EntryFails
  BY <1>3 DEF EntryFails
<1>4. CASE Stops \/ Dies \/ Unavailable \/ Relaunch \/ Generic
  BY <1>4 DEF Stops, Dies, Unavailable, Relaunch, Generic
<1>5. CASE UNCHANGED vars
  BY <1>5 DEF vars
<1> QED BY <1>1, <1>2, <1>3, <1>4, <1>5 DEF Next

LEMMA StepKeeps == ASSUME IInv, [Next]_vars PROVE IInv'
<1>1. HostStep
  BY EveryStep
<1>2. CASE UNCHANGED core
  BY <1>2, CoreUnchanged
<1>3. CASE \E r : Accept(r) \/ AnswerDuplicate(r) \/ Entry(r)
  BY <1>3, AcceptKeeps, DuplicateKeeps, EntryKeeps
<1>4. CASE Stage \/ AppendWal \/ Install \/ Publish \/ Settle \/ WriteReceipt \/ Acknowledge \/ Rebind
  BY <1>4, StageKeeps, AppendKeeps, InstallKeeps, PublishKeeps, SettleKeeps, ReceiptKeeps,
     AcknowledgeKeeps, RebindKeeps
<1>5. CASE Finish \/ JobFails \/ HostDies \/ Boot
  BY <1>5, FinishKeeps, JobFailsKeeps, HostDiesKeeps, BootKeeps
<1>6. CASE GenericBegin \/ GenericCommit \/ Reopen
  BY <1>6, GenericKeeps
<1> QED BY <1>1, <1>2, <1>3, <1>4, <1>5, <1>6 DEF HostStep

LEMMA Invariant == Spec => []IInv
<1>1. IInv /\ [Next]_vars => IInv'
  BY StepKeeps
<1> QED BY InitIInv, <1>1, PTL DEF Spec

-----------------------------------------------------------------------------
(* Theorems *)

\* Whatever fails or dies between two durable writes, the current checkpoint is the
\* acknowledged one or the pending operation's result.
THEOREM Bracketing == Spec => []LeaseBracketsPublication
<1>1. IInv => LeaseBracketsPublication
  BY DEF IInv, Quiet, Staged, LeaseBracketsPublication, Base, After
<1> QED BY <1>1, Invariant, PTL

\* A restart replays the pending operation on its base, or nothing.
THEOREM WalHoldsThePending == Spec => []WalIsPending
<1>1. IInv => WalIsPending
  <2>1. Base # After \/ ~Shape
    BY DEF Shape, Base, After
  <2> QED BY <2>1, StageableIsSomething DEF IInv, Quiet, Staged, WalIsPending, Base
<1> QED BY <1>1, Invariant, PTL

\* The session is at the acknowledged state or at the pending operation's result.
THEOREM NoFork == Spec => []SessionNeverForks
<1>1. IInv => SessionNeverForks
  <2> SUFFICES ASSUME IInv, lease.phase \in {"active", "paused"}, hostUp PROVE
         session.state \in {Ack.state} \union (IF Pending = NoOp THEN {} ELSE {Apply(Pending, Ack.state)})
    BY DEF SessionNeverForks
  <2>1. session \in {Base} \union (IF Pending = NoOp THEN {} ELSE {Computed, After})
    BY DEF IInv, Memory, Staged
  <2> QED BY <2>1 DEF Base, Computed, After
<1> QED BY <1>1, Invariant, PTL

\* What a new host insists on before it adopts a live lease.
LEMMA LiveLeaseRecoverable == IInv /\ Live => Recoverable
<1> SUFFICES ASSUME IInv, Live PROVE Recoverable
  OBVIOUS
<1> USE DEF Ack, Pending
<1>1. lease.phase # "none" /\ Ack.gen \in Nat /\ Ack.state.rev \in Nat /\ Ack.state.paused \in BOOLEAN
  BY DEF Live, IInv, Shape
<1>2. Ack.state.paused = (lease.phase = "paused")
  BY <1>1 DEF IInv, Acked
<1>3. CASE Pending = NoOp
  <2>1. published = Base /\ wal = NoOp
    BY <1>1, <1>3 DEF IInv, Quiet
  <2>2. Recovered.state = Ack.state /\ published.gen = Ack.gen
    BY <2>1 DEF Recovered, Base
  <2> QED BY <1>1, <1>2, <1>3, <2>2 DEF Recoverable, IInv, Acked
<1>4. CASE Pending # NoOp
  <2>1. /\ Stageable(Pending) /\ wal \in {NoOp, Pending}
        /\ published = Base \/ (published = After /\ wal = NoOp)
        /\ Result(Pending) = Ack.state.rev + 1 /\ Pending.base = Ack.state.rev
    BY <1>4 DEF IInv, Staged, Stageable, Result
  <2>2. Recovered.state \in {Ack.state, Apply(Pending, Ack.state)}
    BY <2>1 DEF Recovered, Base, After
  <2>3. /\ Apply(Pending, Ack.state).rev = Ack.state.rev + 1
        /\ Apply(Pending, Ack.state).paused =
              (IF IsLifecycle(Pending.kind) THEN Pending.kind = "pause" ELSE Ack.state.paused)
    BY <1>1, ApplyMoves
  <2>4. published.gen = Ack.gen \/ published.state.rev = Result(Pending)
    BY <2>1, <2>3 DEF Base, After
  <2>5. Ack.state.paused = (Pending.kind = "resume")
    BY <1>2, <2>1 DEF Stageable
  <2>6. Apply(Pending, Ack.state).paused = (Pending.kind = "pause")
    BY <2>3, <2>5 DEF IsLifecycle
  <2> QED BY <1>1, <1>4, <2>1, <2>2, <2>3, <2>4, <2>5, <2>6 DEF Recoverable
<1> QED BY <1>3, <1>4

\* A relaunched desktop always adopts the lease that is live.
THEOREM Adoption == Spec => []RecoveryNeverRefuses
<1>1. Init => RecoveryNeverRefuses
  BY DEF Init, RecoveryNeverRefuses
<1>2. RecoveryNeverRefuses /\ IInv /\ [Next]_vars => RecoveryNeverRefuses'
  <2> SUFFICES ASSUME phase # "refused", IInv, [Next]_vars PROVE phase' # "refused"
    BY DEF RecoveryNeverRefuses
  <2> USE DEF runtimeVars
  <2>1. CASE AdvanceClock \/ Timeout
    BY <2>1 DEF AdvanceClock, Timeout, Fails
  <2>2. CASE Player
    BY <2>2 DEF Player, Activate, SettleDue, HistoryStatus, PauseGame, ResumeGame, Retry, Submit, Undo
  <2>3. CASE Host
    <3>1. lease.phase # "refused"
      BY DEF IInv, Shape
    <3>2. CASE Begin \/ Work
      BY <3>2 DEF Begin, Work
    <3>3. CASE Turn
      BY <3>3 DEF Turn, Declined, AnswerError, Fails, Unheard
    <3>4. CASE Repeat
      BY <3>4 DEF Repeat, Answer, Succeeds, Fails, Unheard
    <3>5. CASE Enter
      BY <3>5 DEF Enter, Unheard
    <3>6. CASE Done
      BY <3>1, <3>6 DEF Done, Answer, Succeeds, Fails, Unheard
    <3> QED BY <2>3, <3>2, <3>3, <3>4, <3>5, <3>6 DEF Host
  <2>4. CASE EntryFails \/ Stops \/ Unavailable
    BY <2>4 DEF EntryFails, Stops, Unavailable, AnswerError, Fails, Unheard
  <2>5. CASE Dies \/ Generic
    BY <2>5 DEF Dies, Generic
  <2>6. CASE Relaunch
    <3>1. Recoverable \/ lease.phase \in {"none", "prepared"}
      BY LiveLeaseRecoverable DEF IInv, Shape, Live
    <3> QED BY <2>6, <3>1 DEF Relaunch
  <2>7. CASE UNCHANGED vars
    BY <2>7 DEF vars
  <2> QED BY <2>1, <2>2, <2>3, <2>4, <2>5, <2>6, <2>7 DEF Next
<1> QED BY <1>1, <1>2, Invariant, PTL DEF Spec

\* Under the lease normal-main changes by the pending operation only.
THEOREM SingleWriter == Spec => NoGenericWriteUnderLease
<1>1. IInv /\ [Next]_vars =>
        [(lease.phase # "none" /\ published' # published) =>
            (Pending # NoOp /\ published'.state = Apply(Pending, Ack.state))]_vars
  <2> SUFFICES ASSUME IInv, [Next]_vars, lease.phase # "none", published' # published
              PROVE  Pending # NoOp /\ published'.state = Apply(Pending, Ack.state)
    OBVIOUS
  <2>1. HostStep
    BY EveryStep
  <2>2. Publish
    BY <2>1 DEF HostStep, core, Accept, AnswerDuplicate, Entry, Stage, AppendWal, Install, Settle,
                WriteReceipt, Acknowledge, Rebind, Finish, JobFails, HostDies, Boot, GenericBegin,
                GenericCommit, Reopen, diskVars
  <2>3. job.pc = "publish" /\ published'.state = session.state
    BY <2>2 DEF Publish, At
  <2> QED BY <2>3 DEF IInv, Progress, Late
<1> QED BY <1>1, Invariant, PTL DEF Spec, NoGenericWriteUnderLease
-----------------------------------------------------------------------------
(* What the host's state consists of *)

\* The operation is what the lease makes of a request: it settles seconds that follow the
\* acknowledged ones, or one command, or changes the phase and keeps the deadline.
Completed(op) ==
    /\ op.cmd \in CmdOrNone /\ op.seq \in Nat /\ op.clock \in Nat /\ op.base \in Nat
    /\ op.kind \in {"command", "undo", "redo"} => op.cmd \in Commands
    /\ op.secs \in (IF op.kind = "tick" THEN 1..MaxBatch ELSE {0})
    /\ op.seq = Ack.seq + (IF op.kind = "tick" THEN op.secs ELSE 1)
    /\ op.kind # "resume" => op.clock = Ack.clock + op.secs
    /\ op.clock >= Ack.clock

Values ==
    /\ published.state \in States /\ session.state \in States /\ Ack.state \in States
    /\ \A d \in draft : d.state \in States
    /\ Ack.seq \in Nat /\ Ack.clock \in Nat
    /\ bound \in BOOLEAN /\ unproved \in BOOLEAN

Operations ==
    /\ Pending # NoOp => Completed(Pending)
    /\ job.pc = "stage" => Completed(job.op)

\* Before the lease the factory is new or saved once, and nothing is acknowledged.
New(s) == s \in {Blank, FirstSave}

Unleased ==
    lease.phase = "none" =>
        /\ lease = NoLease
        /\ New(published.state) /\ New(session.state) /\ \A d \in draft : New(d.state)

Entries == [cmd: Commands, from: States, to: States, result: Nat, undone: Nat]

\* The stacks hold commands, and the one a history job moves is there.
Stacks ==
    /\ undo \in Seq(Entries) /\ redo \in Seq(Entries) /\ noted \subseteq Entries
    /\ (job.pc # "idle" /\ job.req.kind = "undo" /\ job.op.kind = "undo") => undo # <<>>
    /\ (job.pc # "idle" /\ job.req.kind = "redo" /\ job.op.kind = "redo") => redo # <<>>

HInv == Values /\ Operations /\ Unleased /\ Stacks

-----------------------------------------------------------------------------
(* What the desktop's state consists of *)

RequestKinds == Kinds \union {"none", "status", "prepare", "activate"}

\* A request the runtime may have made.
Sound ==
    {r \in [kind: RequestKinds, seq: Int, base: Int, clock: Int, cmd: CmdOrNone, click: Int] :
        /\ r.kind = "command" => r.cmd \in asked
        /\ r.kind = "prepare" => r.clock \in Nat
        /\ IsHistory(r.kind) => clicks > 0}

Calls == [req: Sound, live: BOOLEAN]
Waits == [cmd: asked, base: Int]

Desktop ==
    /\ pipe \in Seq(Calls) /\ doing \in Sound
    /\ queue \in Seq(Waits) /\ Len(queue) <= QueueLimit
    /\ ctx \in [rev: Int, gen: Int, next: Int, due: Int] /\ drain \in Int
    /\ asked \subseteq Commands /\ told \subseteq asked
    /\ phase \in Phases
    /\ now \in 0..MaxNow /\ clicks \in 0..MaxClicks

\* The host works on the request at the head of the pipe.
Serving ==
    /\ (job.pc # "idle" /\ job.req # NoRequest) => (pipe # <<>> /\ Head(pipe).req = job.req)
    /\ job.pc = "rebind" => job.req = NoRequest

-----------------------------------------------------------------------------
(* Why a confirmed command is in the factory *)

Confirmed ==
    /\ lease.phase = "none" => told = {}
    /\ clicks = 0 => told \subseteq Ack.state.cmds
    /\ Ack.op.kind = "command" => Ack.op.cmd \in Ack.state.cmds
    /\ (job.pc = "reply" /\ job.req # NoRequest) => Ack.op = job.op
    /\ (job.pc # "idle" /\ job.req.kind = "command") =>
            job.op.kind = "command" /\ job.op.cmd = job.req.cmd
    /\ clicks = 0 => ~IsHistory(Pending.kind) /\ ~IsHistory(job.op.kind)

AInv == IInv /\ HInv /\ Desktop /\ Serving /\ Confirmed /\ faults \in 0..MaxFaults

-----------------------------------------------------------------------------
(* The host's state keeps its parts *)

USE DEF Ack, Pending

LEMMA ApplyInStates ==
    ASSUME NEW op, Completed(op), NEW s \in States
    PROVE  Apply(op, s) \in States
<1>1. op.secs \in Nat
  BY BatchAssumption DEF Completed
<1>2. s.rev \in Nat /\ s.secs \in Nat /\ s.cmds \in SUBSET Commands /\ s.paused \in BOOLEAN
  BY DEF States
<1>3. op.kind \in {"command", "redo"} => op.cmd \in Commands
  BY DEF Completed
<1>4. (CASE op.kind \in {"command", "redo"} -> s.cmds \union {op.cmd}
         [] op.kind = "undo" -> s.cmds \ {op.cmd}
         [] OTHER -> s.cmds) \in SUBSET Commands
  BY <1>2, <1>3
<1>5. (IF IsLifecycle(op.kind) THEN op.kind = "pause" ELSE s.paused) \in BOOLEAN
  BY <1>2
<1> QED BY <1>1, <1>2, <1>4, <1>5 DEF Apply, States

LEMMA NewInStates == ASSUME NEW s, New(s) PROVE s \in States
<1>1. Blank \in States
  BY DEF Blank, States
<1>2. \A t \in States : [t EXCEPT !.rev = 1, !.secs = 1] \in States
  BY DEF States
<1>3. FirstSave \in States
  BY <1>1, <1>2 DEF FirstSave
<1> QED BY <1>1, <1>3 DEF New

LEMMA NoEntries == <<>> \in Seq(Entries)
<1>1. \A S : <<>> \in Seq(S)
  BY EmptySeq
<1> QED BY <1>1

\* The top of a stack and what is below it.
LEMMA TopAndRest ==
    ASSUME NEW stack \in Seq(Entries), stack # <<>>
    PROVE  Top(stack) \in Entries /\ Pop(stack) \in Seq(Entries)
<1>1. Len(stack) \in Nat \ {0}
  BY EmptySeq, LenProperties
<1>2. Top(stack) \in Entries
  BY <1>1, ElementOfSeq DEF Top
<1>3. Pop(stack) \in Seq(Entries)
  BY <1>1, SubSeqProperties DEF Pop
<1> QED BY <1>2, <1>3

\* What the lease makes of a request follows the last acknowledgement.
LEMMA FreshIsCompleted ==
    ASSUME NEW r \in Sound, HInv, Desktop, r.kind \in Kinds, HistoryAvailable(r), Fresh(r),
           Ack.state.rev \in Nat
    PROVE  Completed(OpFor(r))
<1>1. /\ r.cmd \in CmdOrNone /\ r.seq \in Int /\ r.clock \in Int
      /\ r.kind = "command" => r.cmd \in Commands
  BY DEF Sound, Desktop
<1>2. Ack.seq \in Nat /\ Ack.clock \in Nat
  BY DEF HInv, Values
<1>3. r.kind = "undo" => Top(undo).cmd \in Commands
  <2>1. r.kind = "undo" => undo # <<>>
    BY DEF HistoryAvailable, IsHistory, Kept
  <2> QED BY <2>1, TopAndRest DEF HInv, Stacks, Entries
<1>4. r.kind = "redo" => Top(redo).cmd \in Commands
  <2>1. r.kind = "redo" => redo # <<>>
    BY DEF HistoryAvailable, IsHistory, Kept
  <2> QED BY <2>1, TopAndRest DEF HInv, Stacks, Entries
<1>5. CASE r.kind = "tick"
  <2>1. r.seq - Ack.seq \in 1..MaxBatch
    BY <1>5 DEF Fresh
  <2> QED BY <1>1, <1>2, <1>5, <2>1 DEF Completed, OpFor, IsLifecycle
<1>6. CASE r.kind \in {"command", "undo", "redo"}
  BY <1>1, <1>2, <1>3, <1>4, <1>6 DEF Completed, OpFor, IsLifecycle, CmdOrNone
<1>7. CASE r.kind \in {"pause", "resume"}
  <2>1. r.kind = "pause" => r.clock = Ack.clock
    BY DEF Fresh
  <2>2. r.kind = "resume" => r.clock >= Ack.clock
    BY DEF Fresh
  <2> QED BY <1>1, <1>2, <1>7, <2>1, <2>2 DEF Completed, OpFor, IsLifecycle
<1> QED BY <1>5, <1>6, <1>7 DEF Kinds

LEMMA ProvedState == Proved.state = session.state
  BY DEF Proved

LEMMA InitParts == Init => HInv
<1> SUFFICES ASSUME Init PROVE HInv
  OBVIOUS
<1>1. /\ published.state = Blank /\ session.state = Blank /\ lease = NoLease /\ draft = {}
      /\ undo = <<>> /\ redo = <<>> /\ noted = {} /\ bound = FALSE /\ unproved = FALSE
      /\ job.pc = "idle"
  BY DEF Init, HostInit, Idle
<1>2. Ack.state = Blank /\ Ack.seq = 0 /\ Ack.clock = 0 /\ Pending = NoOp
  BY <1>1 DEF NoLease
<1>3. Blank \in States
  BY NewInStates DEF New
<1>4. Values
  <2>1. bound \in BOOLEAN /\ unproved \in BOOLEAN
    BY <1>1
  <2>2. /\ published.state \in States /\ session.state \in States /\ Ack.state \in States
        /\ Ack.seq \in Nat /\ Ack.clock \in Nat /\ \A d \in draft : d.state \in States
    BY <1>1, <1>2, <1>3
  <2> QED BY <2>1, <2>2 DEF Values
<1>5. Operations
  BY <1>1, <1>2 DEF Operations
<1>6. Unleased
  BY <1>1 DEF Unleased, New
<1>7. Stacks
  BY <1>1, NoEntries DEF Stacks
<1> QED BY <1>4, <1>5, <1>6, <1>7 DEF HInv

\* Nothing that HInv speaks of changes, but for what stands at the front of a request.
LEMMA PartsUnchanged ==
    HInv /\ UNCHANGED <<diskVars, draft, hostUp, bound, coreVars, job>> => HInv'
  BY DEF HInv, Values, Operations, Unleased, Stacks, Completed, diskVars, coreVars

LEMMA OperationsKept ==
    ASSUME HInv, UNCHANGED lease, job'.pc = "stage" => Completed(job'.op)
    PROVE  Operations'
  BY DEF HInv, Operations, Completed

LEMMA AcceptParts ==
    ASSUME IInv, HInv, Desktop, NEW r \in Sound, Accept(r) PROVE HInv'
<1>1. /\ UNCHANGED <<published, wal, lease, draft, bound, undo, redo, noted>>
      /\ session' = Proved /\ unproved' = FALSE
      /\ job' = [pc |-> "stage", req |-> r, op |-> IF Pending = NoOp THEN OpFor(r) ELSE Pending]
      /\ r.kind \in Kinds /\ HistoryAvailable(r) /\ Ack.state.rev \in Nat
      /\ IF Pending = NoOp THEN Fresh(r) ELSE Pending = OpFor(r)
  BY DEF Accept, Admitted, Resumes, diskVars, IInv, Shape
<1>2. Values' /\ Unleased'
  BY <1>1, ProvedState DEF HInv, Values, Unleased
<1>3. Completed(job'.op)
  <2>1. CASE Pending = NoOp
    BY <1>1, <2>1, FreshIsCompleted
  <2>2. CASE Pending # NoOp
    BY <1>1, <2>2 DEF HInv, Operations
  <2> QED BY <2>1, <2>2
<1>4. Operations'
  BY <1>1, <1>3, OperationsKept
<1>5. Stacks'
  <2>1. (r.kind = "undo" => undo # <<>>) /\ (r.kind = "redo" => redo # <<>>)
    BY <1>1 DEF HistoryAvailable, IsHistory, Kept
  <2> QED BY <1>1, <2>1 DEF HInv, Stacks
<1> QED BY <1>2, <1>4, <1>5 DEF HInv

\* An entry that was noted is recorded; the other stack is dropped.
LEMMA RecordedStacks ==
    ASSUME NEW op, Stacks, Recorded(op)
    PROVE  undo' \in Seq(Entries) /\ redo' \in Seq(Entries) /\ noted' \subseteq Entries
<1>1. CASE noted # {} /\ (CHOOSE e \in noted : TRUE).cmd = op.cmd
  <2>1. (CHOOSE e \in noted : TRUE) \in Entries
    BY <1>1, NoEntries DEF Stacks
  <2>2. undo' = Append(undo, CHOOSE e \in noted : TRUE) /\ redo' = <<>> /\ noted' = {}
    BY <1>1 DEF Recorded
  <2>3. undo' \in Seq(Entries)
    BY <2>1, <2>2, AppendProperties DEF Stacks
  <2> QED BY <2>2, <2>3, NoEntries
<1>2. CASE ~(noted # {} /\ (CHOOSE e \in noted : TRUE).cmd = op.cmd)
  BY <1>2 DEF Recorded, Stacks
<1> QED BY <1>1, <1>2

LEMMA DuplicateParts == ASSUME HInv, NEW r, AnswerDuplicate(r) PROVE HInv'
<1>1. /\ UNCHANGED <<published, wal, lease, draft, bound, job>> /\ job.pc = "idle"
      /\ session' = Proved /\ unproved' = FALSE
      /\ Recorded(Ack.op) \/ UNCHANGED <<undo, redo, noted>>
  BY DEF AnswerDuplicate, diskVars
<1>2. Values' /\ Unleased'
  BY <1>1, ProvedState DEF HInv, Values, Unleased
<1>3. Operations'
  BY <1>1, OperationsKept
<1>4. Stacks'
  BY <1>1, RecordedStacks DEF HInv, Stacks
<1> QED BY <1>2, <1>3, <1>4 DEF HInv

LEMMA RejectParts == ASSUME HInv, NEW r, Reject(r) PROVE HInv'
<1>1. /\ UNCHANGED <<published, wal, lease, draft, bound, session, unproved, noted, job>>
      /\ job.pc = "idle"
      /\ (undo' = <<>> /\ redo' = <<>>) \/ UNCHANGED <<undo, redo>>
  BY DEF Reject, diskVars
<1>2. Values' /\ Unleased'
  BY <1>1 DEF HInv, Values, Unleased
<1>3. Operations'
  BY <1>1, OperationsKept
<1>4. Stacks'
  BY <1>1, NoEntries DEF HInv, Stacks
<1> QED BY <1>2, <1>3, <1>4 DEF HInv

\* Entry begins with nothing settled, on the session's own state.
LEMMA EntryParts == ASSUME IInv, HInv, NEW r \in Sound, Entry(r) PROVE HInv'
<1>1. /\ UNCHANGED <<published, wal, draft, session, unproved, undo, redo, noted, job>>
      /\ job.pc = "idle" /\ bound' = TRUE
  BY DEF Entry, Enterable, coreVars
<1>2. Pending = NoOp
  BY DEF Entry, Enterable, IInv, Staged, Live
<1>3. Stacks'
  BY <1>1, NoEntries DEF HInv, Stacks
<1>4. CASE r.kind = "activate"
  <2>1. lease' = [lease EXCEPT !.phase = "active"] /\ lease.phase = "prepared"
    BY <1>4 DEF Entry, Enterable
  <2>2. lease'.phase = "active" /\ lease'.pending = NoOp /\ lease'.ack = lease.ack
    BY <1>2, <2>1 DEF IInv, Shape
  <2>3. Values' /\ Operations' /\ Unleased'
    BY <1>1, <2>2 DEF HInv, Values, Operations, Unleased
  <2> QED BY <1>3, <2>3 DEF HInv
<1>5. CASE r.kind # "activate"
  <2>1. /\ lease'.phase = "prepared" /\ lease'.pending = NoOp
        /\ lease'.ack.seq = 0 /\ lease'.ack.state = session.state /\ lease'.ack.clock = r.clock
        /\ r.kind = "prepare"
    BY <1>5 DEF Entry, Enterable
  <2>2. r.clock \in Nat
    BY <2>1 DEF Sound
  <2>3. Values' /\ Operations' /\ Unleased'
    BY <1>1, <2>1, <2>2 DEF HInv, Values, Operations, Unleased
  <2> QED BY <1>3, <2>3 DEF HInv
<1> QED BY <1>4, <1>5

LEMMA StageParts == ASSUME IInv, HInv, Stage PROVE HInv'
<1>1. /\ UNCHANGED <<published, wal, draft, bound, session, unproved, undo, redo>>
      /\ lease' = [lease EXCEPT !.pending = job.op]
      /\ job' = [job EXCEPT !.pc = "append"] /\ job.pc = "stage"
      /\ noted' = IF job.op.kind = "command" /\ session.state.rev = job.op.base
                  THEN {[cmd |-> job.op.cmd, from |-> session.state, to |-> Apply(job.op, session.state),
                         result |-> Result(job.op), undone |-> 0]}
                  ELSE noted
  BY DEF Stage, At, Goto
<1>2. /\ lease'.phase = lease.phase /\ lease'.ack = lease.ack /\ lease'.pending = job.op
      /\ job'.op = job.op /\ job'.pc = "append" /\ job'.req = job.req /\ lease.phase # "none"
  BY <1>1 DEF IInv, Shape, Progress, Live
<1>3. Completed(job.op)
  BY <1>1 DEF HInv, Operations
<1>4. Values' /\ Operations' /\ Unleased'
  BY <1>1, <1>2, <1>3 DEF HInv, Values, Operations, Unleased, Completed
<1>5. noted' \subseteq Entries
  <2>1. Apply(job.op, session.state) \in States /\ session.state \in States
    BY <1>3, ApplyInStates DEF HInv, Values
  <2>2. Result(job.op) \in Nat
    BY <1>3 DEF Completed, Result
  <2>3. job.op.kind = "command" => job.op.cmd \in Commands
    BY <1>3 DEF Completed
  <2> QED BY <1>1, <2>1, <2>2, <2>3 DEF Entries, HInv, Stacks
<1>6. Stacks'
  BY <1>1, <1>2, <1>5 DEF HInv, Stacks
<1> QED BY <1>4, <1>6 DEF HInv

\* A write of the settling moves states of the factory about, or applies the operation.
LEMMA WriteParts ==
    ASSUME IInv, HInv, AppendWal \/ Install \/ Publish \/ Settle \/ WriteReceipt
    PROVE  HInv'
<1>1. /\ UNCHANGED <<lease, draft, bound, unproved, undo, redo, noted>>
      /\ hostUp /\ job.pc \in Late
      /\ \E pc \in Late : job' = [job EXCEPT !.pc = pc]
      /\ published'.state \in {published.state, session.state}
      /\ session'.state \in {session.state, Apply(job.op, session.state)}
  <2>1. CASE AppendWal
    BY <2>1 DEF AppendWal, At, Goto, Late, IInv, Shape, Checkpoint
  <2>2. CASE Install
    BY <2>2 DEF Install, At, Goto, Late, diskVars, IInv, Shape, Checkpoint
  <2>3. CASE Publish
    BY <2>3 DEF Publish, At, Goto, Late, coreVars
  <2>4. CASE Settle
    BY <2>4 DEF Settle, At, Goto, Late, diskVars, IInv, Shape, Checkpoint
  <2>5. CASE WriteReceipt
    BY <2>5 DEF WriteReceipt, At, Goto, Late, coreVars
  <2> QED BY <2>1, <2>2, <2>3, <2>4, <2>5
<1>2. job'.pc \in Late /\ job'.op = job.op /\ job'.req = job.req
  BY <1>1 DEF IInv, Shape
<1>3. Live /\ job.op = Pending /\ Pending # NoOp
  BY <1>1 DEF IInv, Progress, Late
<1>4. Apply(job.op, session.state) \in States
  BY <1>3, ApplyInStates DEF HInv, Operations, Values
<1>5. Values'
  BY <1>1, <1>4 DEF HInv, Values
<1>6. Operations'
  BY <1>1, <1>2, OperationsKept DEF Late
<1>7. Unleased' /\ Stacks'
  BY <1>1, <1>2, <1>3 DEF HInv, Unleased, Stacks, Live, Late
<1> QED BY <1>5, <1>6, <1>7 DEF HInv

LEMMA AcknowledgeParts == ASSUME IInv, HInv, Acknowledge PROVE HInv'
<1>1. /\ UNCHANGED <<published, draft, bound, session, unproved, undo, redo, noted>>
      /\ job' = [job EXCEPT !.pc = "reply"] /\ job.pc = "ack"
      /\ lease'.pending = NoOp /\ lease'.ack.seq = Pending.seq
      /\ lease'.ack.state = session.state /\ lease'.ack.clock = Pending.clock
  BY DEF Acknowledge, At, Goto, coreVars, IInv, Shape
<1>2. job'.pc = "reply" /\ job'.op = job.op /\ job'.req = job.req
  BY <1>1 DEF IInv, Shape
<1>3. Pending # NoOp /\ Live
  BY <1>1 DEF IInv, Progress, Late
<1>4. Completed(Pending)
  BY <1>3 DEF HInv, Operations
<1>5. lease'.phase # "none"
  BY <1>3 DEF Acknowledge, Live, Target, IInv, Shape
<1>6. Values' /\ Operations' /\ Unleased' /\ Stacks'
  BY <1>1, <1>2, <1>4, <1>5 DEF HInv, Values, Operations, Unleased, Stacks, Completed
<1> QED BY <1>6 DEF HInv

LEMMA RebindParts == ASSUME IInv, HInv, Rebind PROVE HInv'
<1>1. /\ UNCHANGED <<published, wal, lease, draft, session, unproved, undo, redo, noted>>
      /\ job' = [job EXCEPT !.pc = IF Pending = NoOp THEN "reply" ELSE "stage"]
      /\ job.pc = "rebind" /\ bound' = TRUE
  BY DEF Rebind, At, Goto, diskVars, coreVars
<1>2. /\ job'.pc = IF Pending = NoOp THEN "reply" ELSE "stage"
      /\ job'.op = job.op /\ job'.req = job.req /\ job.op = Pending
  BY <1>1 DEF IInv, Shape, Progress
<1>3. Operations'
  BY <1>1, <1>2, OperationsKept DEF HInv, Operations
<1>4. Values' /\ Unleased' /\ Stacks'
  BY <1>1, <1>2 DEF HInv, Values, Unleased, Stacks
<1> QED BY <1>3, <1>4 DEF HInv

\* An undo moves the top entry to the other stack, and a redo moves it back.
LEMMA MovedStacks ==
    ASSUME NEW op, NEW s \in States, Moved(op, s), Stacks,
           op.kind = "undo" => undo # <<>>, op.kind = "redo" => redo # <<>>, IsHistory(op.kind)
    PROVE  undo' \in Seq(Entries) /\ redo' \in Seq(Entries) /\ noted' \subseteq Entries
<1>1. noted' = noted /\ s.rev \in Nat
  BY DEF Moved, States
<1>2. CASE op.kind = "undo"
  <2> DEFINE entry == [Top(undo) EXCEPT !.undone = s.rev]
  <2>1. Top(undo) \in Entries /\ Pop(undo) \in Seq(Entries)
    BY <1>2, TopAndRest DEF Stacks
  <2>2. entry \in Entries
    BY <1>1, <2>1 DEF Entries
  <2>3. Append(redo, entry) \in Seq(Entries)
    BY <2>2, AppendProperties DEF Stacks
  <2>4. undo' \in {Pop(undo), <<>>} /\ redo' \in {Append(redo, entry), <<>>}
    BY <1>2 DEF Moved
  <2> HIDE DEF entry
  <2> QED BY <1>1, <2>1, <2>3, <2>4, NoEntries DEF Stacks
<1>3. CASE op.kind = "redo"
  <2> DEFINE entry == [Top(redo) EXCEPT !.result = s.rev, !.undone = 0]
  <2>1. Top(redo) \in Entries /\ Pop(redo) \in Seq(Entries)
    BY <1>3, TopAndRest DEF Stacks
  <2>2. entry \in Entries
    BY <1>1, <2>1 DEF Entries
  <2>3. Append(undo, entry) \in Seq(Entries)
    BY <2>2, AppendProperties DEF Stacks
  <2>4. undo' \in {Append(undo, entry), <<>>} /\ redo' \in {Pop(redo), <<>>}
    BY <1>3 DEF Moved
  <2> HIDE DEF entry
  <2> QED BY <1>1, <2>1, <2>3, <2>4, NoEntries DEF Stacks
<1> QED BY <1>2, <1>3 DEF IsHistory

LEMMA FinishParts == ASSUME HInv, Finish PROVE HInv'
<1>1. /\ UNCHANGED <<published, wal, lease, draft, bound, session, unproved>>
      /\ job' = Idle /\ job.pc = "reply"
  BY DEF Finish, At, diskVars
<1>2. Values' /\ Unleased'
  BY <1>1 DEF HInv, Values, Unleased
<1>3. Operations'
  BY <1>1, OperationsKept DEF Idle
<1>4. undo' \in Seq(Entries) /\ redo' \in Seq(Entries) /\ noted' \subseteq Entries
  <2>1. CASE job.op.kind = "command"
    <3>1. Recorded(job.op)
      BY <2>1 DEF Finish, IsHistory
    <3> QED BY <3>1, RecordedStacks DEF HInv
  <2>2. CASE job.op.kind # "command" /\ IsHistory(job.op.kind) /\ job.req.kind = job.op.kind
    <3>1. Moved(job.op, session.state)
      BY <2>2 DEF Finish
    <3> QED BY <1>1, <2>2, <3>1, MovedStacks DEF HInv, Stacks, Values
  <2>3. CASE job.op.kind # "command" /\ ~(IsHistory(job.op.kind) /\ job.req.kind = job.op.kind)
    <3>1. UNCHANGED <<undo, redo, noted>>
      BY <2>3 DEF Finish
    <3> QED BY <3>1 DEF HInv, Stacks
  <2> QED BY <2>1, <2>2, <2>3
<1>5. Stacks'
  BY <1>1, <1>4 DEF Stacks, Idle
<1> QED BY <1>2, <1>3, <1>5 DEF HInv

LEMMA EndParts == ASSUME IInv, HInv, JobFails \/ HostDies PROVE HInv'
<1>1. /\ UNCHANGED <<published, wal, lease, draft, bound, undo, redo, noted>> /\ job' = Idle
      /\ session'.state = session.state /\ unproved' \in {unproved, TRUE}
  BY DEF JobFails, HostDies, diskVars, coreVars, IInv, Shape, Checkpoint
<1>2. Values' /\ Unleased'
  BY <1>1 DEF HInv, Values, Unleased
<1>3. Operations'
  BY <1>1, OperationsKept DEF Idle
<1>4. Stacks'
  BY <1>1 DEF HInv, Stacks, Idle
<1> QED BY <1>2, <1>3, <1>4 DEF HInv

\* What opening the slot yields is a state of the factory.
LEMMA RecoveredParts ==
    ASSUME IInv, HInv
    PROVE  /\ Recovered.state \in States
           /\ lease.phase = "none" => New(Recovered.state)
<1>1. wal # NoOp => wal = Pending /\ lease.phase # "none" /\ Completed(wal)
  BY DEF IInv, Quiet, Staged, Live, HInv, Operations
<1>2. Recovered.state = IF wal = NoOp THEN published.state ELSE Apply(wal, published.state)
  BY DEF Recovered
<1> QED BY <1>1, <1>2, ApplyInStates DEF HInv, Values, Unleased

LEMMA BootParts == ASSUME IInv, HInv, Boot PROVE HInv'
<1>1. /\ UNCHANGED <<published, wal, lease>> /\ bound' = FALSE /\ draft' = {}
      /\ session' = Recovered /\ unproved' = FALSE /\ undo' = <<>> /\ redo' = <<>> /\ noted' = {}
      /\ job'.pc \in {"idle", "rebind"} /\ job'.req = NoRequest
  BY DEF Boot, Idle, diskVars
<1>2. Values' /\ Unleased'
  BY <1>1, RecoveredParts DEF HInv, Values, Unleased
<1>3. Operations'
  BY <1>1, OperationsKept
<1>4. Stacks'
  BY <1>1, NoEntries DEF Stacks, NoRequest
<1> QED BY <1>2, <1>3, <1>4 DEF HInv

LEMMA GenericParts ==
    ASSUME IInv, HInv, GenericBegin \/ GenericCommit \/ Reopen
    PROVE  HInv'
<1>1. /\ UNCHANGED <<wal, lease, bound, unproved, undo, redo, noted, job>>
  BY DEF GenericBegin, GenericCommit, Reopen, diskVars, coreVars
<1>2. /\ published'.state \in {published.state} \union {d.state : d \in draft}
      /\ session'.state \in {session.state, Recovered.state}
      /\ (lease.phase # "none") => UNCHANGED published /\ UNCHANGED session
      /\ \A d \in draft' : d \in draft \/ d.state = FirstSave
  <2>1. CASE GenericBegin
    BY <2>1 DEF GenericBegin, diskVars, coreVars
  <2>2. CASE GenericCommit
    BY <2>2 DEF GenericCommit, coreVars
  <2>3. CASE Reopen
    BY <2>3 DEF Reopen, diskVars
  <2> QED BY <2>1, <2>2, <2>3
<1>3. Values'
  BY <1>1, <1>2, RecoveredParts, NewInStates DEF HInv, Values, New
<1>4. Operations'
  BY <1>1, OperationsKept DEF HInv, Operations
<1>5. Unleased'
  BY <1>1, <1>2, RecoveredParts DEF HInv, Unleased, New
<1>6. Stacks'
  BY <1>1, NoEntries DEF HInv, Stacks
<1> QED BY <1>3, <1>4, <1>5, <1>6 DEF HInv

-----------------------------------------------------------------------------
(* The desktop's state keeps its parts *)

\* At most one call is put behind those that remain.
Behind(rest) == pipe' = rest \/ \E c \in Calls : pipe' = Append(rest, c)

LEMMA FirstCall ==
    ASSUME Desktop, pipe # <<>>
    PROVE  /\ Head(pipe) \in Calls /\ Head(pipe).req \in Sound /\ Head(pipe).live \in BOOLEAN
           /\ Tail(pipe) \in Seq(Calls)
<1>1. pipe \in Seq(Calls)
  BY DEF Desktop
<1>2. Head(pipe) \in Calls /\ Tail(pipe) \in Seq(Calls)
  BY <1>1, HeadTailProperties
<1> QED BY <1>2 DEF Calls

\* More commands asked for and more history calls admit more requests.
LEMMA MoreIsSound ==
    ASSUME asked \subseteq asked', clicks \in Nat, clicks' \in Nat, clicks <= clicks'
    PROVE  Sound \subseteq Sound' /\ Calls \subseteq Calls' /\ Waits \subseteq Waits'
<1>1. Sound \subseteq Sound'
  BY DEF Sound
<1>2. Calls \subseteq Calls'
  BY <1>1 DEF Calls
<1>3. Waits \subseteq Waits'
  BY DEF Waits
<1> QED BY <1>1, <1>2, <1>3

LEMMA BehindKeeps ==
    ASSUME NEW rest \in Seq(Calls), Behind(rest)
    PROVE  /\ pipe' \in Seq(Calls)
           /\ rest # <<>> => pipe' # <<>> /\ Head(pipe') = Head(rest)
<1>1. CASE pipe' = rest
  BY <1>1
<1>2. ASSUME NEW c \in Calls, pipe' = Append(rest, c)
      PROVE  /\ pipe' \in Seq(Calls)
             /\ rest # <<>> => pipe' # <<>> /\ Head(pipe') = Head(rest)
  <2>1. /\ pipe' \in Seq(Calls) /\ Len(pipe') = Len(rest) + 1
        /\ \A i \in 1 .. Len(rest) : pipe'[i] = rest[i]
    BY <1>2, AppendProperties
  <2>2. rest # <<>> => Len(rest) \in Nat \ {0}
    BY EmptySeq
  <2>3. rest # <<>> => pipe'[1] = rest[1] /\ pipe' # <<>>
    BY <2>1, <2>2
  <2>4. Head(pipe') = pipe'[1] /\ Head(rest) = rest[1]
    OBVIOUS
  <2> QED BY <2>1, <2>3, <2>4
<1> QED BY <1>1, <1>2 DEF Behind

LEMMA SendPuts ==
    ASSUME NEW rest, NEW r \in Sound, Send(rest, r)
    PROVE  Behind(rest) /\ doing' \in Sound
<1>1. Call(r) \in Calls
  BY DEF Call, Calls
<1> QED BY <1>1 DEF Send, Behind

Requests == [kind: RequestKinds, seq: Int, base: Int, clock: Int, cmd: CmdOrNone, click: Int]

LEMMA NothingIsSound == NoRequest \in Requests /\ NoRequest \in Sound
  BY DEF NoRequest, Requests, Sound, RequestKinds, Kinds, CmdOrNone, IsHistory

\* The requests the desktop fills in, by the fields it gives.
Renamed(r, k) == [r EXCEPT !.kind = k]
Numbered(r, k, n) == [r EXCEPT !.kind = k, !.seq = n]
Timed(r, k, t) == [r EXCEPT !.kind = k, !.clock = t]
Dated(r, k, m, t) == [r EXCEPT !.kind = k, !.base = m, !.clock = t]
Clicked(r, k, m, n) == [r EXCEPT !.kind = k, !.base = m, !.click = n]
Ordered(r, k, c, m) == [r EXCEPT !.kind = k, !.cmd = c, !.base = m]

LEMMA FilledIn ==
    ASSUME NEW r \in Requests, NEW k \in RequestKinds
    PROVE  /\ Renamed(r, k) \in Requests /\ Renamed(r, k).kind = k /\ Renamed(r, k).clock = r.clock
           /\ \A n \in Int : Numbered(r, k, n) \in Requests /\ Numbered(r, k, n).kind = k
           /\ \A n \in Int : /\ Timed(r, k, n) \in Requests /\ Timed(r, k, n).kind = k
                            /\ Timed(r, k, n).clock = n
           /\ \A c \in CmdOrNone, m \in Int :
                 /\ Ordered(r, k, c, m) \in Requests /\ Ordered(r, k, c, m).kind = k
                 /\ Ordered(r, k, c, m).cmd = c
<1>1. /\ Renamed(r, k) \in Requests /\ Renamed(r, k).kind = k /\ Renamed(r, k).clock = r.clock
      /\ \A n \in Int : Numbered(r, k, n) \in Requests /\ Numbered(r, k, n).kind = k
  BY DEF Requests, Renamed, Numbered
<1>2. \A n \in Int : /\ Timed(r, k, n) \in Requests /\ Timed(r, k, n).kind = k
                   /\ Timed(r, k, n).clock = n
  BY DEF Requests, Timed
<1>3. \A c \in CmdOrNone, m \in Int :
         /\ Ordered(r, k, c, m) \in Requests /\ Ordered(r, k, c, m).kind = k
         /\ Ordered(r, k, c, m).cmd = c
  BY DEF Requests, Ordered
<1> QED BY <1>1, <1>2, <1>3

LEMMA DatedIn ==
    ASSUME NEW r \in Requests, NEW k \in RequestKinds, NEW m \in Int, NEW n \in Int
    PROVE  Dated(r, k, m, n) \in Requests /\ Dated(r, k, m, n).kind = k
  BY DEF Requests, Dated

LEMMA ClickedIn ==
    ASSUME NEW r \in Requests, NEW k \in RequestKinds, NEW m \in Int, NEW n \in Int
    PROVE  Clicked(r, k, m, n) \in Requests /\ Clicked(r, k, m, n).kind = k
  BY DEF Requests, Clicked

LEMMA MadeSound ==
    ASSUME NEW r \in Requests, r.kind = "command" => r.cmd \in asked,
           r.kind = "prepare" => r.clock \in Nat, IsHistory(r.kind) => clicks > 0
    PROVE  r \in Sound
  BY DEF Sound, Requests

LEMMA TickIsSound ==
    ASSUME NEW c \in [rev: Int, gen: Int, next: Int, due: Int], NEW t \in Int
    PROVE  TickRequest(c, t) \in Sound
<1>1. MaxBatch \in Int /\ c.next \in Int /\ c.due \in Int
  BY BatchAssumption
<1>2. PICK n \in Int : TickRequest(c, t) = Numbered(NoRequest, "tick", n)
  <2>1. c.next + (IF t - c.due + 1 < MaxBatch THEN t - c.due + 1 ELSE MaxBatch) - 1 \in Int
    BY <1>1
  <2> QED BY <2>1 DEF TickRequest, Numbered
<1>3. "tick" \in RequestKinds
  BY DEF RequestKinds, Kinds
<1>4. TickRequest(c, t) \in Requests /\ TickRequest(c, t).kind = "tick"
  BY <1>2, <1>3, FilledIn, NothingIsSound
<1> QED BY <1>4, MadeSound DEF IsHistory

LEMMA PauseIsSound ==
    ASSUME NEW c \in [rev: Int, gen: Int, next: Int, due: Int]
    PROVE  PauseRequest(c) \in Sound
<1>1. PICK n \in Int : PauseRequest(c) = Dated(NoRequest, "pause", c.rev, n)
  <2>1. PauseRequest(c) = Dated(NoRequest, "pause", c.rev, c.due - 1)
    BY DEF PauseRequest, Dated
  <2> QED BY <2>1
<1>2. "pause" \in RequestKinds /\ c.rev \in Int
  BY DEF RequestKinds, Kinds
<1>3. PauseRequest(c) \in Requests /\ PauseRequest(c).kind = "pause"
  BY <1>1, <1>2, DatedIn, NothingIsSound
<1> QED BY <1>3, MadeSound DEF IsHistory

LEMMA CommandIsSound ==
    ASSUME Desktop, NEW entry \in [cmd: Commands, base: Int]
    PROVE  /\ CommandRequest(entry) \in Requests /\ CommandRequest(entry).kind = "command"
           /\ CommandRequest(entry).cmd = entry.cmd
           /\ entry.cmd \in asked => CommandRequest(entry) \in Sound
<1>1. CommandRequest(entry) = Ordered(NoRequest, "command", entry.cmd, entry.base)
  BY DEF CommandRequest, Ordered
<1>2. "command" \in RequestKinds /\ entry.cmd \in CmdOrNone /\ entry.base \in Int
  BY DEF RequestKinds, Kinds, CmdOrNone
<1>3. /\ CommandRequest(entry) \in Requests /\ CommandRequest(entry).kind = "command"
      /\ CommandRequest(entry).cmd = entry.cmd
  BY <1>1, <1>2, FilledIn, NothingIsSound
<1> QED BY <1>3, MadeSound DEF IsHistory

LEMMA PumpPuts ==
    ASSUME Desktop, NEW rest \in Seq(Calls), Pump(rest)
    PROVE  /\ Behind(rest) /\ doing' \in Sound
           /\ queue' \in Seq(Waits) /\ Len(queue') <= QueueLimit
<1>1. queue \in Seq(Waits) /\ Len(queue) <= QueueLimit /\ QueueLimit \in Nat
  BY BoundsAssumption DEF Desktop
<1>2. CASE queue # <<>>
  <2>1. Head(queue) \in Waits /\ Tail(queue) \in Seq(Waits) /\ Len(Tail(queue)) = Len(queue) - 1
    BY <1>1, <1>2, HeadTailProperties
  <2>2. Send(rest, CommandRequest(Head(queue))) /\ queue' = Tail(queue)
    BY <1>2 DEF Pump
  <2>3. Len(queue) \in Nat
    BY <1>1, LenProperties
  <2>4. CommandRequest(Head(queue)) \in Sound
    BY <2>1, CommandIsSound DEF Waits, Desktop
  <2> QED BY <1>1, <2>1, <2>2, <2>3, <2>4, SendPuts
<1>3. CASE queue = <<>>
  BY <1>1, <1>3, NothingIsSound DEF Pump, Behind
<1> QED BY <1>2, <1>3

\* A step of the desktop that leaves the clock, the commands and the clicks alone.
LEMMA DesktopKept ==
    ASSUME Desktop, NEW rest \in Seq(Calls), Behind(rest), doing' \in Sound,
           queue' \in Seq(Waits), Len(queue') <= QueueLimit, phase' \in Phases,
           ctx' \in [rev: Int, gen: Int, next: Int, due: Int], drain' \in Int,
           told' \subseteq asked, UNCHANGED <<asked, clicks, now>>
    PROVE  Desktop'
<1>1. pipe' \in Seq(Calls)
  BY BehindKeeps
<1>2. Sound' = Sound /\ Calls' = Calls /\ Waits' = Waits
  BY DEF Sound, Calls, Waits
<1> QED BY <1>1, <1>2 DEF Desktop

LEMMA NoWaits ==
    /\ <<>> \in Seq(Waits) /\ Len(<<>>) <= QueueLimit
    /\ <<>> \in Seq(Calls)
<1>1. \A S : <<>> \in Seq(S) /\ Len(<<>>) = 0
  BY EmptySeq
<1>2. QueueLimit \in Nat
  BY BoundsAssumption
<1> QED BY <1>1, <1>2

LEMMA FailsKeeps ==
    ASSUME Desktop, NEW r, NEW rest \in Seq(Calls), Fails(r, rest), UNCHANGED now
    PROVE  Desktop' /\ Behind(rest) /\ UNCHANGED <<asked, told, clicks>>
<1>1. UNCHANGED <<ctx, drain, asked, told, clicks, now>>
  BY DEF Fails
<1>2. CASE IsHistory(r.kind)
  <2>1. Pump(rest) /\ UNCHANGED phase
    BY <1>2 DEF Fails
  <2> QED BY <1>1, <2>1, PumpPuts, DesktopKept DEF Desktop
<1>3. CASE ~IsHistory(r.kind)
  <2>1. pipe' = rest /\ queue' = <<>> /\ UNCHANGED doing
    BY <1>3 DEF Fails
  <2>2. phase' \in {"pause-uncertain", "resume-uncertain", "uncertain", "faulted"}
    BY <1>3 DEF Fails
  <2> QED BY <1>1, <2>1, <2>2, NoWaits, DesktopKept DEF Desktop, Behind, Phases
<1> QED BY <1>2, <1>3

LEMMA DeclinedKeeps ==
    ASSUME Desktop, NEW rest \in Seq(Calls), Declined(rest), UNCHANGED now
    PROVE  Desktop' /\ Behind(rest) /\ UNCHANGED <<asked, told, clicks>>
<1>1. /\ phase' = "active" /\ pipe' = rest /\ queue' = <<>> /\ doing' = NoRequest
      /\ UNCHANGED <<ctx, drain, asked, told, clicks, now>>
  BY DEF Declined
<1> QED BY <1>1, NothingIsSound, NoWaits, DesktopKept DEF Desktop, Behind, Phases

LEMMA UnheardKeeps ==
    ASSUME Desktop, NEW rest \in Seq(Calls), Unheard(rest), UNCHANGED now
    PROVE  Desktop' /\ Behind(rest) /\ UNCHANGED <<asked, told, clicks>>
<1>1. pipe' = rest /\ UNCHANGED <<phase, ctx, doing, drain, queue, asked, told, clicks, now>>
  BY DEF Unheard, runtimeVars
<1> QED BY <1>1, DesktopKept DEF Desktop, Behind

\* What an accepted receipt confirms to the player.
Confirms(r) == told' = IF r.kind = "command" THEN told \union {r.cmd} ELSE told

LEMMA SucceedsKeeps ==
    ASSUME Desktop, NEW r \in Sound, NEW rest \in Seq(Calls), NEW a, Succeeds(r, a, rest),
           a.rev \in Int, a.gen \in Int, UNCHANGED now
    PROVE  Desktop' /\ Behind(rest) /\ UNCHANGED <<asked, clicks>> /\ Confirms(r)
<1>1. /\ ctx' = Advanced(r, a) /\ UNCHANGED <<asked, clicks, now>> /\ Confirms(r)
  BY DEF Succeeds, Confirms
<1>2. ctx' \in [rev: Int, gen: Int, next: Int, due: Int]
  <2>1. ctx.next \in Int /\ ctx.due \in Int /\ r.seq \in Int /\ r.clock \in Int
    BY DEF Desktop, Sound
  <2>2. (IF r.kind = "tick" THEN r.seq + 1 ELSE ctx.next + 1) \in Int
    BY <2>1
  <2>3. (CASE r.kind = "tick" -> ctx.due + r.seq - ctx.next + 1
           [] IsLifecycle(r.kind) -> r.clock + 1
           [] OTHER -> ctx.due) \in Int
    BY <2>1
  <2> QED BY <1>1, <2>2, <2>3 DEF Advanced
<1>3. told' \subseteq asked
  BY <1>1 DEF Confirms, Desktop, Sound
<1>4. CASE drain # NoDrain /\ r.kind = "tick"
  <2>1. phase' = phase /\ UNCHANGED queue
    BY <1>4 DEF Succeeds
  <2>2. \/ Send(rest, TickRequest(ctx', drain)) /\ drain' = drain
        \/ Send(rest, PauseRequest(ctx')) /\ drain' = NoDrain
    BY <1>4 DEF Succeeds
  <2>3. drain \in Int /\ NoDrain \in Int
    BY DEF Desktop, NoDrain
  <2>4. Behind(rest) /\ doing' \in Sound /\ drain' \in Int
    <3>1. TickRequest(ctx', drain) \in Sound
      BY <1>2, <2>3, TickIsSound
    <3>2. PauseRequest(ctx') \in Sound
      BY <1>2, PauseIsSound
    <3> QED BY <2>2, <2>3, <3>1, <3>2, SendPuts
  <2> QED BY <1>1, <1>2, <1>3, <2>1, <2>4, DesktopKept DEF Desktop
<1>5. CASE ~(drain # NoDrain /\ r.kind = "tick") /\ r.kind = "pause"
  <2>1. /\ phase' = "paused" /\ pipe' = rest /\ doing' = NoRequest /\ UNCHANGED <<drain, queue>>
    BY <1>5 DEF Succeeds
  <2> QED BY <1>1, <1>2, <1>3, <2>1, NothingIsSound, DesktopKept DEF Desktop, Behind, Phases
<1>6. CASE ~(drain # NoDrain /\ r.kind = "tick") /\ r.kind # "pause"
  <2>1. phase' = "active" /\ Pump(rest) /\ UNCHANGED drain
    BY <1>6 DEF Succeeds
  <2> QED BY <1>1, <1>2, <1>3, <2>1, PumpPuts, DesktopKept DEF Desktop, Phases
<1> QED BY <1>4, <1>5, <1>6

\* The answer to the call at the head of the pipe.
LEMMA AnswerKeeps ==
    ASSUME IInv, HInv, Desktop, pipe # <<>>, Answer(Receipt), UNCHANGED now
    PROVE  /\ Desktop' /\ Behind(Tail(pipe)) /\ UNCHANGED <<asked, clicks>>
           /\ UNCHANGED told \/ Confirms(Head(pipe).req)
<1>1. Head(pipe).req \in Sound /\ Tail(pipe) \in Seq(Calls)
  BY FirstCall
<1>2. Receipt.rev \in Int /\ Receipt.gen \in Int
  BY DEF Receipt, IInv, Shape
<1>3. CASE Unheard(Tail(pipe))
  BY <1>1, <1>3, UnheardKeeps
<1>4. CASE Succeeds(Head(pipe).req, Receipt, Tail(pipe))
  BY <1>1, <1>2, <1>4, SucceedsKeeps
<1>5. CASE Fails(Head(pipe).req, Tail(pipe))
  BY <1>1, <1>5, FailsKeeps
<1>6. \/ Unheard(Tail(pipe)) \/ Succeeds(Head(pipe).req, Receipt, Tail(pipe))
      \/ Fails(Head(pipe).req, Tail(pipe))
  BY DEF Answer
<1> QED BY <1>3, <1>4, <1>5, <1>6

LEMMA ErrorKeeps ==
    ASSUME Desktop, pipe # <<>>, AnswerError, UNCHANGED now
    PROVE  Desktop' /\ Behind(Tail(pipe)) /\ UNCHANGED <<asked, told, clicks>>
<1>1. Tail(pipe) \in Seq(Calls)
  BY FirstCall
<1>2. Fails(Head(pipe).req, Tail(pipe)) \/ Unheard(Tail(pipe))
  BY DEF AnswerError
<1> QED BY <1>1, <1>2, FailsKeeps, UnheardKeeps

-----------------------------------------------------------------------------
(* The player and the clock leave the host and its request alone *)

HeadStays == pipe # <<>> => pipe' # <<>> /\ Head(pipe').req = Head(pipe).req

\* What a step of the player or the clock keeps.
Aside == Desktop' /\ HeadStays /\ UNCHANGED told /\ clicks <= clicks'

LEMMA BehindStays == ASSUME Desktop, Behind(pipe) PROVE HeadStays
  BY BehindKeeps DEF HeadStays, Desktop

LEMMA DesktopTypes ==
    ASSUME Desktop
    PROVE  /\ pipe \in Seq(Calls) /\ queue \in Seq(Waits) /\ Len(queue) \in Nat
           /\ ctx.rev \in Int /\ ctx.gen \in Int /\ ctx.next \in Int /\ ctx.due \in Int
           /\ now \in Nat /\ clicks \in Nat /\ told \subseteq asked
           /\ MaxNow \in Nat /\ MaxClicks \in Nat
<1>1. MaxNow \in Nat /\ MaxClicks \in Nat
  BY BoundsAssumption
<1>2. Len(queue) \in Nat
  BY LenProperties DEF Desktop
<1> QED BY <1>1, <1>2 DEF Desktop

LEMMA ClockAside == ASSUME Desktop, AdvanceClock PROVE Aside
<1>1. /\ now < MaxNow /\ now' = now + 1
      /\ UNCHANGED <<phase, ctx, doing, drain, queue, asked, told, clicks, pipe>>
  BY DEF AdvanceClock, runtimeVars
<1>2. now' \in 0..MaxNow
  BY <1>1, DesktopTypes
<1>3. Sound' = Sound /\ Calls' = Calls /\ Waits' = Waits
  BY <1>1 DEF Sound, Calls, Waits
<1> QED BY <1>1, <1>2, <1>3, DesktopTypes DEF Aside, HeadStays, Desktop

\* A call that one of the desktop's own operations sends.
LEMMA SendAside ==
    ASSUME Desktop, NEW r \in Sound, Send(pipe, r), phase' \in Phases, drain' \in Int,
           UNCHANGED <<ctx, queue, asked, told, clicks, now>>
    PROVE  Aside
<1>1. Behind(pipe) /\ doing' \in Sound
  BY SendPuts
<1>2. Desktop'
  BY <1>1, DesktopTypes, DesktopKept DEF Desktop
<1> QED BY <1>1, <1>2, BehindStays, DesktopTypes DEF Aside

LEMMA ActivateAside == ASSUME Desktop, Activate PROVE Aside
<1> DEFINE r == [NoRequest EXCEPT !.kind = "prepare", !.clock = now]
<1>1. r = Timed(NoRequest, "prepare", now)
  BY DEF Timed
<1>2. now \in Nat /\ now \in Int /\ "prepare" \in RequestKinds
  BY DesktopTypes DEF RequestKinds
<1>3. r \in Requests /\ r.kind = "prepare" /\ r.clock = now
  BY <1>1, <1>2, FilledIn, NothingIsSound
<1>4. r \in Sound
  <2> HIDE DEF r
  <2> QED BY <1>2, <1>3, MadeSound DEF IsHistory
<1>5. /\ Send(pipe, r) /\ phase' = "activating"
      /\ UNCHANGED <<ctx, drain, queue, asked, told, clicks, now>>
  BY DEF Activate
<1> HIDE DEF r
<1> QED BY <1>4, <1>5, SendAside DEF Phases, Desktop

LEMMA SettleDueAside == ASSUME Desktop, SettleDue PROVE Aside
<1>1. Send(pipe, TickRequest(ctx, now)) /\ UNCHANGED <<phase, ctx, drain, queue, asked, told, clicks, now>>
  BY DEF SettleDue
<1>2. ctx \in [rev: Int, gen: Int, next: Int, due: Int] /\ now \in Int
  BY DesktopTypes DEF Desktop
<1>3. TickRequest(ctx, now) \in Sound
  BY <1>2, TickIsSound
<1> QED BY <1>1, <1>3, SendAside DEF Desktop

LEMMA PauseAside == ASSUME Desktop, PauseGame PROVE Aside
<1>1. /\ phase' = "pausing" /\ UNCHANGED <<ctx, queue, asked, told, clicks, now>>
      /\ \/ Send(pipe, TickRequest(ctx, now)) /\ drain' = now
         \/ Send(pipe, PauseRequest(ctx)) /\ UNCHANGED drain
  BY DEF PauseGame
<1>2. ctx \in [rev: Int, gen: Int, next: Int, due: Int] /\ now \in Int
  BY DesktopTypes DEF Desktop
<1>3. TickRequest(ctx, now) \in Sound /\ PauseRequest(ctx) \in Sound
  BY <1>2, TickIsSound, PauseIsSound
<1> QED BY <1>1, <1>2, <1>3, SendAside DEF Desktop, Phases

LEMMA ResumeAside == ASSUME Desktop, ResumeGame PROVE Aside
<1> DEFINE t == IF now > ctx.due - 1 THEN now ELSE ctx.due - 1
           r == [NoRequest EXCEPT !.kind = "resume", !.base = ctx.rev, !.clock = t]
<1>1. t \in Int /\ ctx.rev \in Int /\ "resume" \in RequestKinds
  BY DesktopTypes DEF RequestKinds, Kinds
<1>2. r = Dated(NoRequest, "resume", ctx.rev, t)
  BY DEF Dated
<1>3. /\ phase' = "resuming" /\ Send(pipe, r)
      /\ UNCHANGED <<ctx, drain, queue, asked, told, clicks, now>>
  BY DEF ResumeGame
<1> HIDE DEF t
<1>4. r \in Requests /\ r.kind = "resume"
  BY <1>1, <1>2, DatedIn, NothingIsSound
<1> HIDE DEF r
<1>5. r \in Sound
  BY <1>4, MadeSound DEF IsHistory
<1> QED BY <1>3, <1>5, SendAside DEF Desktop, Phases

LEMMA StatusAside == ASSUME Desktop, HistoryStatus PROVE Aside
<1> DEFINE r == [NoRequest EXCEPT !.kind = "status"]
<1>1. /\ pipe = <<>> /\ pipe' = <<[req |-> r, live |-> FALSE]>>
      /\ UNCHANGED <<phase, ctx, doing, drain, queue, asked, told, clicks, now>>
  BY DEF HistoryStatus, runtimeVars
<1>2. r = Renamed(NoRequest, "status") /\ "status" \in RequestKinds
  BY DEF Renamed, RequestKinds
<1>3. r \in Requests /\ r.kind = "status"
  BY <1>2, FilledIn, NothingIsSound
<1> HIDE DEF r
<1>4. r \in Sound
  BY <1>3, MadeSound DEF IsHistory
<1>5. [req |-> r, live |-> FALSE] \in Calls
  BY <1>4 DEF Calls
<1>6. pipe' \in Seq(Calls)
  BY <1>1, <1>5
<1>7. Sound' = Sound /\ Calls' = Calls /\ Waits' = Waits
  BY <1>1 DEF Sound, Calls, Waits
<1> QED BY <1>1, <1>6, <1>7, DesktopTypes DEF Aside, HeadStays, Desktop

LEMMA RetryAside == ASSUME Desktop, Retry PROVE Aside
<1>1. /\ phase \in Uncertain /\ Send(pipe, doing)
      /\ phase' \in {"pausing", "resuming", phase}
      /\ UNCHANGED <<ctx, drain, queue, asked, told, clicks, now>>
  BY DEF Retry
<1> QED BY <1>1, SendAside DEF Desktop, Phases

\* A command that is asked for waits in the queue or goes to the host.
LEMMA SubmitAside == ASSUME Desktop, NEW c \in Commands, Submit(c) PROVE Aside
<1> DEFINE ahead == IF InFlight /\ doing.kind \in {"tick", "command"} THEN 1 ELSE 0
           entry == [cmd |-> c, base |-> ctx.rev + ahead + Len(queue)]
<1>1. /\ Len(queue) < QueueLimit /\ asked' = asked \union {c}
      /\ \/ queue' = Append(queue, entry) /\ UNCHANGED <<pipe, doing>>
         \/ Send(pipe, CommandRequest(entry)) /\ UNCHANGED queue
      /\ UNCHANGED <<phase, ctx, drain, told, clicks, now>>
  BY DEF Submit
<1>2. entry.base \in Int /\ entry.cmd = c /\ entry \in [cmd: Commands, base: Int]
  BY DesktopTypes
<1>3. clicks \in Nat /\ clicks' = clicks /\ asked \subseteq asked' /\ asked' \subseteq Commands
  BY <1>1, DesktopTypes DEF Desktop
<1>4. Sound \subseteq Sound' /\ Calls \subseteq Calls' /\ Waits \subseteq Waits'
  BY <1>3, MoreIsSound
<1>5. entry \in Waits'
  BY <1>1, <1>2 DEF Waits
<1>6. pipe \in Seq(Calls') /\ queue \in Seq(Waits') /\ doing \in Sound'
  BY <1>4, SeqMonotonic DEF Desktop
<1> HIDE DEF entry
<1>7. CASE queue' = Append(queue, entry) /\ UNCHANGED <<pipe, doing>>
  <2>1. queue' \in Seq(Waits') /\ Len(queue') = Len(queue) + 1
    BY <1>5, <1>6, <1>7, AppendProperties
  <2>2. Len(queue') <= QueueLimit
    BY <1>1, <2>1, DesktopTypes, BoundsAssumption
  <2> QED BY <1>1, <1>3, <1>6, <1>7, <2>1, <2>2 DEF Aside, HeadStays, Desktop
<1>8. CASE Send(pipe, CommandRequest(entry)) /\ UNCHANGED queue
  <2>1. /\ CommandRequest(entry) \in Requests /\ CommandRequest(entry).kind = "command"
        /\ CommandRequest(entry).cmd = c
    BY <1>2, CommandIsSound
  <2>2. CommandRequest(entry) \in Sound'
    BY <1>1, <2>1 DEF Sound, Requests, IsHistory
  <2>3. Call(CommandRequest(entry)) \in Calls'
    BY <2>2 DEF Call, Calls
  <2>4. pipe' = Append(pipe, Call(CommandRequest(entry))) /\ doing' = CommandRequest(entry)
    BY <1>8 DEF Send
  <2>5. pipe' \in Seq(Calls')
    BY <1>6, <2>3, <2>4, AppendProperties
  <2>6. HeadStays
    <3> SUFFICES ASSUME pipe # <<>> PROVE pipe' # <<>> /\ Head(pipe') = Head(pipe)
      BY DEF HeadStays
    <3>1. Len(pipe) \in Nat \ {0}
      BY <1>6, EmptySeq
    <3>2. Len(pipe') = Len(pipe) + 1 /\ pipe'[1] = pipe[1]
      BY <1>6, <2>3, <2>4, <3>1, AppendProperties
    <3> QED BY <3>1, <3>2, <2>5
  <2> QED BY <1>1, <1>3, <1>6, <1>8, <2>2, <2>4, <2>5, <2>6 DEF Aside, Desktop
<1> QED BY <1>1, <1>7, <1>8

LEMMA UndoAside == ASSUME Desktop, NEW kind \in {"undo", "redo"}, Undo(kind) PROVE Aside
<1> DEFINE r == [NoRequest EXCEPT !.kind = kind, !.base = ctx.rev, !.click = clicks + 1]
<1>1. /\ clicks < MaxClicks /\ clicks' = clicks + 1
      /\ Send(pipe, r)
      /\ UNCHANGED <<phase, ctx, drain, queue, asked, told, now>>
  BY DEF Undo
<1>2. ctx.rev \in Int /\ clicks + 1 \in Int /\ kind \in RequestKinds /\ clicks \in Nat /\ clicks' \in Nat
  BY <1>1, DesktopTypes DEF RequestKinds, Kinds
<1>3. r = Clicked(NoRequest, kind, ctx.rev, clicks + 1)
  BY DEF Clicked
<1>4. r \in Requests /\ r.kind = kind
  <2> HIDE DEF r
  <2> QED BY <1>2, <1>3, ClickedIn, NothingIsSound
<1> HIDE DEF r
<1>5. r \in Sound'
  BY <1>1, <1>2, <1>4 DEF Sound, Requests
<1>6. Sound \subseteq Sound' /\ Calls \subseteq Calls' /\ Waits \subseteq Waits'
  BY <1>1, <1>2, MoreIsSound
<1>7. pipe \in Seq(Calls') /\ queue \in Seq(Waits')
  BY <1>6, SeqMonotonic DEF Desktop
<1>8. pipe' = Append(pipe, Call(r)) /\ doing' = r /\ Call(r) \in Calls'
  BY <1>1, <1>5 DEF Send, Call, Calls
<1>9. pipe' \in Seq(Calls')
  BY <1>7, <1>8, AppendProperties
<1>10. HeadStays
  <2> SUFFICES ASSUME pipe # <<>> PROVE pipe' # <<>> /\ Head(pipe') = Head(pipe)
    BY DEF HeadStays
  <2>1. Len(pipe) \in Nat \ {0}
    BY <1>7, EmptySeq
  <2>2. Len(pipe') = Len(pipe) + 1 /\ pipe'[1] = pipe[1]
    BY <1>7, <1>8, <2>1, AppendProperties
  <2> QED BY <2>1, <2>2, <1>9
<1>11. clicks' \in 0..MaxClicks /\ clicks <= clicks'
  BY <1>1, <1>2, DesktopTypes
<1> QED BY <1>1, <1>5, <1>7, <1>8, <1>9, <1>10, <1>11 DEF Aside, Desktop

\* A request that timed out keeps its place in the pipe.
LEMMA TimeoutAside == ASSUME Desktop, Timeout PROVE Aside
<1>1. PICK i \in 1..Len(pipe) : Fails(pipe[i].req, [pipe EXCEPT ![i].live = FALSE])
  BY DEF Timeout
<1> DEFINE rest == [pipe EXCEPT ![i].live = FALSE]
<1>2. pipe \in Seq(Calls) /\ Len(pipe) \in Nat
  BY LenProperties DEF Desktop
<1>3. /\ rest \in Seq(Calls) /\ Len(rest) = Len(pipe)
      /\ \A j \in 1..Len(pipe) : rest[j].req = pipe[j].req
  <2>1. \A c \in Calls : [c EXCEPT !.live = FALSE] \in Calls /\ [c EXCEPT !.live = FALSE].req = c.req
    BY DEF Calls
  <2>2. \A j \in 1..Len(pipe) : pipe[j] \in Calls
    BY <1>2, ElementOfSeq
  <2>3. rest = [pipe EXCEPT ![i] = [pipe[i] EXCEPT !.live = FALSE]]
    OBVIOUS
  <2>4. [pipe[i] EXCEPT !.live = FALSE] \in Calls
    BY <2>1, <2>2
  <2>5. rest \in Seq(Calls) /\ Len(rest) = Len(pipe)
    BY <1>2, <2>3, <2>4, ExceptSeq
  <2>6. \A j \in 1..Len(pipe) : rest[j].req = pipe[j].req
    BY <1>2, <2>1, <2>2, <2>3, ExceptSeq
  <2> QED BY <2>5, <2>6
<1>4. UNCHANGED now
  BY DEF Timeout
<1> HIDE DEF rest
<1>5. Desktop' /\ Behind(rest) /\ UNCHANGED <<asked, told, clicks>>
  BY <1>1, <1>3, <1>4, FailsKeeps DEF rest
<1>6. HeadStays
  <2> SUFFICES ASSUME pipe # <<>> PROVE pipe' # <<>> /\ Head(pipe').req = Head(pipe).req
    BY DEF HeadStays
  <2>1. Len(pipe) \in Nat \ {0}
    BY <1>2, EmptySeq
  <2>2. rest # <<>> /\ Head(rest).req = Head(pipe).req
    <3>1. Len(rest) # 0 /\ rest[1].req = pipe[1].req
      BY <1>3, <2>1
    <3> QED BY <3>1, <1>2, <1>3
  <2> QED BY <1>3, <1>5, <2>2, BehindKeeps
<1> QED BY <1>5, <1>6, DesktopTypes DEF Aside

LEMMA PlayerAside ==
    ASSUME Desktop, AdvanceClock \/ Player \/ Timeout
    PROVE  Aside /\ UNCHANGED <<diskVars, draft, hostUp, bound, coreVars, job>>
<1>1. UNCHANGED <<diskVars, draft, hostUp, bound, coreVars, job>>
  BY DEF AdvanceClock, Player, Activate, SettleDue, HistoryStatus, PauseGame, ResumeGame, Retry,
         Submit, Undo, Timeout, hostVars
<1>2. CASE AdvanceClock \/ Timeout
  BY <1>1, <1>2, ClockAside, TimeoutAside
<1>3. CASE Player
  BY <1>1, <1>3, ActivateAside, SettleDueAside, PauseAside, ResumeAside, StatusAside, RetryAside,
     SubmitAside, UndoAside DEF Player
<1> QED BY <1>2, <1>3

-----------------------------------------------------------------------------
(* The host's steps and the desktop *)

LEMMA DesktopUnchanged ==
    ASSUME Desktop, UNCHANGED <<pipe, now, ctx, doing, drain, queue, asked, told, clicks>>, phase' \in Phases
    PROVE  Desktop'
<1>1. Sound' = Sound /\ Calls' = Calls /\ Waits' = Waits
  BY DEF Sound, Calls, Waits
<1> QED BY <1>1 DEF Desktop

\* The call that is answered is served by no job any more.
LEMMA EnterKeeps ==
    ASSUME IInv, HInv, Desktop, Enter
    PROVE  Desktop' /\ UNCHANGED told /\ UNCHANGED clicks /\ UNCHANGED asked
<1> DEFINE r == Head(pipe).req
           rest == Tail(pipe)
<1>1. pipe # <<>> /\ r.kind \in {"prepare", "activate"} /\ UNCHANGED now
  BY DEF Enter, Waiting, Entry, Enterable, NextRequest
<1>2. r \in Sound /\ rest \in Seq(Calls)
  BY <1>1, FirstCall
<1>3. \/ Unheard(rest)
      \/ /\ r.kind = "prepare" /\ Send(rest, [r EXCEPT !.kind = "activate"])
         /\ UNCHANGED <<phase, ctx, drain, queue, asked, told, clicks>>
      \/ /\ phase' = "active" /\ Pump(rest)
         /\ ctx' = [rev |-> lease.ack.state.rev, gen |-> lease.ack.gen, next |-> lease.ack.seq + 1, due |-> r.clock + 1]
         /\ UNCHANGED <<drain, asked, told, clicks>>
  BY DEF Enter, NextRequest
<1> HIDE DEF rest, r
<1>4. CASE Unheard(rest)
  BY <1>1, <1>2, <1>4, UnheardKeeps
<1>5. CASE /\ r.kind = "prepare" /\ Send(rest, [r EXCEPT !.kind = "activate"])
           /\ UNCHANGED <<phase, ctx, drain, queue, asked, told, clicks>>
  <2> DEFINE q == [r EXCEPT !.kind = "activate"]
  <2>1. q = Renamed(r, "activate") /\ r \in Requests /\ "activate" \in RequestKinds
    BY <1>2 DEF Renamed, Sound, Requests, RequestKinds
  <2>2. q \in Requests /\ q.kind = "activate"
    BY <2>1, FilledIn
  <2> HIDE DEF q
  <2>3. q \in Sound
    BY <2>2, MadeSound DEF IsHistory
  <2>4. Behind(rest) /\ doing' \in Sound
    BY <1>5, <2>3, SendPuts DEF q
  <2> QED BY <1>1, <1>2, <1>5, <2>4, DesktopKept DEF Desktop
<1>6. CASE /\ phase' = "active" /\ Pump(rest)
           /\ ctx' = [rev |-> lease.ack.state.rev, gen |-> lease.ack.gen, next |-> lease.ack.seq + 1, due |-> r.clock + 1]
           /\ UNCHANGED <<drain, asked, told, clicks>>
  <2>1. ctx' \in [rev: Int, gen: Int, next: Int, due: Int]
    BY <1>2, <1>6 DEF HInv, Values, IInv, Shape, Sound
  <2> QED BY <1>1, <1>2, <1>6, <2>1, PumpPuts, DesktopKept DEF Desktop, Phases
<1> QED BY <1>3, <1>4, <1>5, <1>6

LEMMA DoneKeeps ==
    ASSUME IInv, HInv, Desktop, Serving, Done
    PROVE  /\ Desktop' /\ UNCHANGED <<asked, clicks>>
           /\ UNCHANGED told \/ (job.req # NoRequest /\ Confirms(job.req))
<1>1. job.pc = "reply" /\ UNCHANGED now /\ lease.phase \in {"active", "paused"}
  BY DEF Done, Finish, At, IInv, Progress, Live
<1>2. CASE job.req # NoRequest
  <2>1. Answer(Receipt)
    BY <1>2 DEF Done
  <2>2. pipe # <<>> /\ Head(pipe).req = job.req
    BY <1>1, <1>2 DEF Serving
  <2> QED BY <1>1, <1>2, <2>1, <2>2, AnswerKeeps
<1>3. CASE job.req = NoRequest
  <2>1. /\ ctx' = [rev |-> Ack.state.rev, gen |-> Ack.gen, next |-> Ack.seq + 1, due |-> Ack.clock + 1]
        /\ phase' = lease.phase
        /\ UNCHANGED <<pipe, doing, drain, queue, asked, told, clicks>>
    BY <1>3 DEF Done
  <2>2. ctx' \in [rev: Int, gen: Int, next: Int, due: Int]
    BY <2>1 DEF HInv, Values, IInv, Shape
  <2> QED BY <1>1, <2>1, <2>2, DesktopKept DEF Desktop, Behind, Phases
<1> QED BY <1>2, <1>3

LEMMA RelaunchKeeps ==
    ASSUME Desktop, Relaunch
    PROVE  Desktop' /\ UNCHANGED <<asked, told, clicks>>
<1>1. /\ ctx' = NoContext /\ doing' = NoRequest /\ drain' = NoDrain
      /\ queue' = <<>> /\ pipe' = <<>>
      /\ UNCHANGED <<asked, told, clicks, now>>
      /\ phase' \in {"idle", "blocked", "booting", "refused"}
  BY DEF Relaunch
<1>2. ctx' \in [rev: Int, gen: Int, next: Int, due: Int] /\ drain' \in Int
  BY <1>1 DEF NoContext, NoDrain
<1>3. <<>> \in Seq(Calls) /\ pipe' = <<>>
  BY <1>1, NoWaits
<1>4. Behind(<<>>)
  BY <1>3 DEF Behind
<1>5. /\ queue' \in Seq(Waits) /\ Len(queue') <= QueueLimit /\ doing' \in Sound
      /\ phase' \in Phases /\ told' \subseteq asked
  BY <1>1, NoWaits, NothingIsSound DEF Phases, Desktop
<1> QED BY <1>1, <1>2, <1>3, <1>4, <1>5, DesktopKept

\* A step of the host, or of the desktop that hears from it, confirms at most the command
\* of the call it answers.
LEMMA DesktopHears ==
    ASSUME IInv, HInv, Desktop, Serving,
           Host \/ EntryFails \/ Stops \/ Dies \/ Unavailable \/ Relaunch \/ Generic
    PROVE  /\ Desktop' /\ UNCHANGED <<asked, clicks>>
           /\ \/ UNCHANGED told
              \/ Repeat /\ pipe # <<>> /\ Confirms(NextRequest)
              \/ Done /\ job.req # NoRequest /\ Confirms(job.req)
<1>1. CASE Begin \/ Work \/ Generic
  <2>1. UNCHANGED <<runtimeVars, pipe, now>>
    BY <1>1 DEF Begin, Work, Generic
  <2> QED BY <2>1, DesktopUnchanged DEF runtimeVars, Desktop
<1>2. CASE Turn
  <2>1. /\ pipe # <<>> /\ UNCHANGED now
        /\ Declined(Tail(pipe)) \/ AnswerError
    BY <1>2 DEF Turn, Waiting
  <2>2. Tail(pipe) \in Seq(Calls)
    BY <2>1, FirstCall
  <2> QED BY <2>1, <2>2, DeclinedKeeps, ErrorKeeps
<1>3. CASE Repeat
  <2>1. pipe # <<>> /\ Answer(Receipt) /\ UNCHANGED now
    BY <1>3 DEF Repeat, Waiting
  <2>2. Desktop' /\ UNCHANGED <<asked, clicks>> /\ (UNCHANGED told \/ Confirms(NextRequest))
    BY <2>1, AnswerKeeps DEF NextRequest
  <2> QED BY <1>3, <2>1, <2>2
<1>4. CASE Enter
  BY <1>4, EnterKeeps
<1>5. CASE Done
  BY <1>5, DoneKeeps
<1>6. CASE EntryFails \/ Stops \/ Unavailable
  <2>1. AnswerError /\ UNCHANGED now
    BY <1>6 DEF EntryFails, Stops, Unavailable
  <2>2. pipe # <<>>
    BY <1>6 DEF EntryFails, Waiting, Stops, JobFails, Unavailable, Serving
  <2> QED BY <2>1, <2>2, ErrorKeeps
<1>7. CASE Dies
  <2>1. /\ UNCHANGED <<pipe, now, ctx, doing, drain, queue, asked, told, clicks>>
        /\ phase' \in {"down", phase}
    BY <1>7 DEF Dies
  <2> QED BY <2>1, DesktopUnchanged DEF Desktop, Phases
<1>8. CASE Relaunch
  BY <1>8, RelaunchKeeps
<1> QED BY <1>1, <1>2, <1>3, <1>4, <1>5, <1>6, <1>7, <1>8 DEF Host

-----------------------------------------------------------------------------
(* What a step does to the host, with the request it is about *)

Writes ==
    Stage \/ AppendWal \/ Install \/ Publish \/ Settle \/ WriteReceipt \/ Acknowledge \/ Rebind

HostStays == UNCHANGED <<diskVars, draft, hostUp, bound, coreVars, job>>

HostMove ==
    \/ HostStays
    \/ \E r \in Sound : Accept(r) \/ AnswerDuplicate(r) \/ Entry(r) \/ Reject(r)
    \/ Writes \/ Finish \/ JobFails \/ HostDies \/ Boot
    \/ GenericBegin \/ GenericCommit \/ Reopen

LEMMA EveryMove == ASSUME Desktop, [Next]_vars PROVE HostMove
<1> USE DEF HostMove, HostStays
<1>1. CASE AdvanceClock \/ Player \/ Timeout
  BY <1>1, PlayerAside
<1>2. CASE Begin \/ Turn \/ Repeat \/ Enter \/ EntryFails
  <2>1. Waiting
    BY <1>2 DEF Begin, Turn, Repeat, Enter, EntryFails
  <2>2. NextRequest \in Sound
    BY <2>1, FirstCall DEF Waiting, NextRequest
  <2>3. \/ HostStays
        \/ Accept(NextRequest) \/ AnswerDuplicate(NextRequest) \/ Entry(NextRequest) \/ Reject(NextRequest)
    BY <1>2 DEF Begin, Turn, Repeat, Enter, EntryFails
  <2> QED BY <2>2, <2>3
<1>3. CASE Work \/ Done \/ Stops \/ Dies \/ Relaunch \/ Generic
  BY <1>3 DEF Work, Done, Stops, Dies, Relaunch, Generic, Writes
<1>4. CASE Unavailable \/ UNCHANGED vars
  BY <1>4 DEF Unavailable, vars, hostVars
<1> QED BY <1>1, <1>2, <1>3, <1>4 DEF Next, Host

LEMMA PartsKept == ASSUME IInv, HInv, Desktop, [Next]_vars PROVE HInv'
<1>1. HostMove
  BY EveryMove
<1>2. CASE HostStays
  BY <1>2, PartsUnchanged DEF HostStays
<1>3. ASSUME NEW r \in Sound, Accept(r) \/ AnswerDuplicate(r) \/ Entry(r) \/ Reject(r) PROVE HInv'
  BY <1>3, AcceptParts, DuplicateParts, EntryParts, RejectParts
<1>4. CASE Writes
  BY <1>4, StageParts, WriteParts, AcknowledgeParts, RebindParts DEF Writes
<1>5. CASE Finish \/ JobFails \/ HostDies \/ Boot
  BY <1>5, FinishParts, EndParts, BootParts
<1>6. CASE GenericBegin \/ GenericCommit \/ Reopen
  BY <1>6, GenericParts
<1> QED BY <1>1, <1>2, <1>3, <1>4, <1>5, <1>6 DEF HostMove

LEMMA DesktopKeeps == ASSUME IInv, HInv, Desktop, Serving, [Next]_vars PROVE Desktop'
<1>1. CASE AdvanceClock \/ Player \/ Timeout
  BY <1>1, PlayerAside DEF Aside
<1>2. CASE Host \/ EntryFails \/ Stops \/ Dies \/ Unavailable \/ Relaunch \/ Generic
  BY <1>2, DesktopHears
<1>3. CASE UNCHANGED vars
  BY <1>3, DesktopUnchanged DEF vars, runtimeVars, Desktop
<1> QED BY <1>1, <1>2, <1>3 DEF Next

LEMMA FaultsBounded ==
    ASSUME faults \in 0..MaxFaults, [Next]_vars PROVE faults' \in 0..MaxFaults
<1>1. UNCHANGED faults \/ Costs(0) \/ Costs(1)
  <2>1. CASE AdvanceClock \/ Player \/ Timeout \/ Unavailable \/ UNCHANGED vars
    BY <2>1 DEF AdvanceClock, Player, Activate, SettleDue, HistoryStatus, PauseGame, ResumeGame,
                Retry, Submit, Undo, Timeout, Unavailable, vars, hostVars
  <2>2. CASE Begin \/ Repeat \/ Enter
    BY <2>2 DEF Begin, Accept, Repeat, AnswerDuplicate, Enter
  <2>3. CASE Turn \/ Stops \/ Dies \/ Relaunch \/ EntryFails
    BY <2>3 DEF Turn, Reject, Stops, JobFails, Dies, HostDies, Relaunch, EntryFails
  <2>4. CASE Work
    BY <2>4 DEF Work, Stage, AppendWal, Install, Publish, Settle, WriteReceipt, Acknowledge, Rebind
  <2>5. CASE Done \/ Generic
    BY <2>5 DEF Done, Finish, Generic, GenericBegin, GenericCommit, Reopen
  <2> QED BY <2>1, <2>2, <2>3, <2>4, <2>5 DEF Next, Host
<1>2. MaxFaults \in Nat
  BY FaultsAssumption
<1> QED BY <1>1, <1>2 DEF Costs

-----------------------------------------------------------------------------
(* The four ways the lease moves *)

Noting ==
    /\ job.pc = "stage" /\ Live
    /\ lease'.phase = lease.phase /\ lease'.ack = lease.ack /\ lease'.pending = job.op

Acking ==
    /\ job.pc = "ack" /\ Live /\ Pending # NoOp /\ job.op = Pending /\ job'.op = Pending
    /\ lease'.phase = IF IsLifecycle(Pending.kind) THEN Target(Pending.kind) ELSE lease.phase
    /\ lease'.pending = NoOp
    /\ lease'.ack.seq = Pending.seq /\ lease'.ack.clock = Pending.clock /\ lease'.ack.op = Pending
    /\ lease'.ack.state = Apply(Pending, Ack.state)

Preparing ==
    /\ job.pc = "idle" /\ lease.phase = "none" /\ lease'.phase = "prepared"
    /\ lease'.pending = NoOp
    /\ lease'.ack.seq = 0 /\ lease'.ack.clock \in Nat /\ lease'.ack.op = NoOp
    /\ lease'.ack.state = session.state

Activating ==
    /\ job.pc = "idle" /\ lease.phase = "prepared" /\ lease'.phase = "active"
    /\ lease'.pending = lease.pending /\ lease'.ack = lease.ack

LEMMA LeaseMoves ==
    ASSUME IInv, HInv, Desktop, [Next]_vars
    PROVE  UNCHANGED lease \/ Noting \/ Acking \/ Preparing \/ Activating
<1>1. HostMove
  BY EveryMove
<1>2. CASE Stage
  <2>1. lease' = [lease EXCEPT !.pending = job.op] /\ job.pc = "stage"
    BY <1>2 DEF Stage, At
  <2>2. Live
    BY <2>1 DEF IInv, Progress
  <2>3. Noting
    BY <2>1, <2>2 DEF Noting, IInv, Shape
  <2> QED BY <2>3
<1>3. CASE Acknowledge
  <2>1. /\ job' = [job EXCEPT !.pc = "reply"] /\ job.pc = "ack"
        /\ lease'.phase = IF IsLifecycle(Pending.kind) THEN Target(Pending.kind) ELSE lease.phase
        /\ lease'.pending = NoOp
        /\ lease'.ack.seq = Pending.seq /\ lease'.ack.clock = Pending.clock
        /\ lease'.ack.op = Pending /\ lease'.ack.state = session.state
    BY <1>3 DEF Acknowledge, At, Goto, IInv, Shape
  <2>2. Live /\ Pending # NoOp /\ job.op = Pending /\ session = After
    BY <2>1 DEF IInv, Progress, Late
  <2>3. job'.op = job.op
    BY <2>1 DEF IInv, Shape
  <2>4. session.state = Apply(Pending, Ack.state)
    BY <2>2 DEF After
  <2>5. Acking
    BY <2>1, <2>2, <2>3, <2>4 DEF Acking
  <2> QED BY <2>5
<1>4. ASSUME NEW r \in Sound, Entry(r) PROVE Preparing \/ Activating
  <2>1. job.pc = "idle"
    BY <1>4 DEF Entry, Enterable
  <2>2. CASE r.kind = "activate"
    <3>1. lease' = [lease EXCEPT !.phase = "active"] /\ lease.phase = "prepared"
      BY <1>4, <2>2 DEF Entry, Enterable
    <3>2. Activating
      BY <2>1, <3>1 DEF Activating, IInv, Shape
    <3> QED BY <3>2
  <2>3. CASE r.kind # "activate"
    <3>1. /\ lease'.phase = "prepared" /\ lease'.pending = NoOp
          /\ lease'.ack.seq = 0 /\ lease'.ack.state = session.state /\ lease'.ack.clock = r.clock
          /\ lease'.ack.op = NoOp /\ r.kind = "prepare" /\ lease.phase = "none"
      BY <1>4, <2>3 DEF Entry, Enterable
    <3>2. r.clock \in Nat
      BY <3>1 DEF Sound
    <3>3. Preparing
      BY <2>1, <3>1, <3>2 DEF Preparing
    <3> QED BY <3>3
  <2> QED BY <2>2, <2>3
<1>5. CASE \/ HostStays \/ \E r \in Sound : Accept(r) \/ AnswerDuplicate(r) \/ Reject(r)
           \/ AppendWal \/ Install \/ Publish \/ Settle \/ WriteReceipt \/ Rebind
           \/ Finish \/ JobFails \/ HostDies \/ Boot
           \/ GenericBegin \/ GenericCommit \/ Reopen
  BY <1>5 DEF HostStays, Accept, AnswerDuplicate, Reject, AppendWal, Install, Publish, Settle,
     WriteReceipt, Rebind, Finish, JobFails, HostDies, Boot, GenericBegin, GenericCommit, Reopen,
     diskVars
<1> QED BY <1>1, <1>2, <1>3, <1>4, <1>5 DEF HostMove, Writes

\* A write goes on with the job's request and operation.
LEMMA WritesGoOn ==
    ASSUME IInv, Writes
    PROVE  /\ job.pc # "idle" /\ job'.req = job.req /\ job'.op = job.op
           /\ job'.pc # "rebind" /\ (job'.pc = "reply" => job.pc \in {"ack", "rebind"})
<1>1. /\ job.pc # "idle"
      /\ \E pc \in {"append", "install", "publish", "settle", "receipt", "ack", "reply", "stage"} :
            /\ job' = [job EXCEPT !.pc = pc]
            /\ pc = "reply" => job.pc \in {"ack", "rebind"}
  <2>1. CASE Stage \/ AppendWal \/ Install
    BY <2>1 DEF Stage, AppendWal, Install, At, Goto
  <2>2. CASE Publish \/ Settle \/ WriteReceipt
    BY <2>2 DEF Publish, Settle, WriteReceipt, At, Goto
  <2>3. CASE Acknowledge
    BY <2>3 DEF Acknowledge, At, Goto
  <2>4. CASE Rebind
    BY <2>4 DEF Rebind, At, Goto
  <2> QED BY <2>1, <2>2, <2>3, <2>4 DEF Writes
<1>2. PICK pc \in {"append", "install", "publish", "settle", "receipt", "ack", "reply", "stage"} :
         job' = [job EXCEPT !.pc = pc] /\ (pc = "reply" => job.pc \in {"ack", "rebind"})
  BY <1>1
<1> QED BY <1>1, <1>2 DEF IInv, Shape

-----------------------------------------------------------------------------
(* The host serves the request at the head of the pipe *)

LEMMA IdleIsIdle ==
    Idle.pc = "idle" /\ Idle.req = NoRequest /\ Idle.op = NoOp /\ NoRequest.kind = "none"
  BY DEF Idle, NoRequest

LEMMA ServingKept ==
    ASSUME IInv, HInv, Desktop, Serving, [Next]_vars PROVE Serving'
<1>1. CASE AdvanceClock \/ Player \/ Timeout
  <2>1. HeadStays /\ UNCHANGED job
    BY <1>1, PlayerAside DEF Aside
  <2> QED BY <2>1 DEF Serving, HeadStays
<1>2. CASE Begin
  <2>1. /\ pipe # <<>> /\ UNCHANGED pipe
        /\ job'.pc = "stage" /\ job'.req = Head(pipe).req
    BY <1>2 DEF Begin, Waiting, NextRequest, Accept
  <2> QED BY <2>1 DEF Serving
<1>3. CASE Turn \/ Repeat \/ Enter \/ EntryFails \/ Generic
  <2>1. job.pc = "idle" /\ UNCHANGED job
    BY <1>3 DEF Turn, Repeat, Enter, EntryFails, Waiting, Reject, AnswerDuplicate, Entry, Generic,
                GenericBegin, GenericCommit, Reopen
  <2> QED BY <2>1 DEF Serving
<1>4. CASE Work
  <2>1. Writes /\ UNCHANGED pipe
    BY <1>4 DEF Work, Writes
  <2> QED BY <2>1, WritesGoOn DEF Serving
<1>5. CASE Done \/ Stops \/ Dies
  <2>1. job' = Idle
    BY <1>5 DEF Done, Finish, Stops, JobFails, Dies, HostDies
  <2> QED BY <2>1, IdleIsIdle DEF Serving
<1>6. CASE Unavailable
  <2>1. ~hostUp /\ UNCHANGED job
    BY <1>6 DEF Unavailable, hostVars
  <2>2. job.pc = "idle"
    BY <2>1 DEF IInv, Progress
  <2> QED BY <2>1, <2>2 DEF Serving
<1>7. CASE Relaunch
  <2>1. job'.req = NoRequest
    BY <1>7, IdleIsIdle DEF Relaunch, Boot
  <2> QED BY <2>1 DEF Serving
<1>8. CASE UNCHANGED vars
  BY <1>8 DEF vars, hostVars, Serving
<1> QED BY <1>1, <1>2, <1>3, <1>4, <1>5, <1>6, <1>7, <1>8 DEF Next, Host

-----------------------------------------------------------------------------
(* What the player was told is in the acknowledged state *)

\* A command the desktop confirms is the last acknowledged operation.
LEMMA ToldIsAcked ==
    ASSUME IInv, HInv, Desktop, Serving, Confirmed, [Next]_vars
    PROVE  /\ UNCHANGED told \/ (lease.phase # "none" /\ UNCHANGED lease)
           /\ told' \subseteq told \/ (Ack.op.kind = "command" /\ told' \subseteq told \union {Ack.op.cmd})
<1>1. CASE UNCHANGED told
  BY <1>1
<1>2. CASE Repeat /\ pipe # <<>> /\ Confirms(NextRequest)
  <2> DEFINE r == NextRequest
  <2>1. Duplicate(r) /\ UNCHANGED lease
    BY <1>2 DEF Repeat, AnswerDuplicate, diskVars
  <2>2. /\ r.kind = "command" => Ack.op.kind = "command" /\ Ack.op.cmd = r.cmd
        /\ lease.phase # "none"
    BY <2>1 DEF Duplicate, Target
  <2> HIDE DEF r
  <2>3. told' = IF r.kind = "command" THEN told \union {r.cmd} ELSE told
    BY <1>2 DEF Confirms, r
  <2> QED BY <2>1, <2>2, <2>3
<1>3. CASE Done /\ job.req # NoRequest /\ Confirms(job.req)
  <2>1. job.pc = "reply" /\ UNCHANGED lease
    BY <1>3 DEF Done, Finish, At, diskVars
  <2>2. lease.phase # "none"
    BY <2>1 DEF IInv, Progress, Live
  <2>3. job.req.kind = "command" => Ack.op.kind = "command" /\ Ack.op.cmd = job.req.cmd
    BY <1>3, <2>1 DEF Confirmed
  <2> QED BY <1>3, <2>1, <2>2, <2>3 DEF Confirms
<1>4. CASE AdvanceClock \/ Player \/ Timeout \/ UNCHANGED vars
  <2>1. UNCHANGED told
    BY <1>4, PlayerAside DEF Aside, vars, runtimeVars
  <2> QED BY <2>1
<1>5. CASE Host \/ EntryFails \/ Stops \/ Dies \/ Unavailable \/ Relaunch \/ Generic
  BY <1>1, <1>2, <1>3, <1>5, DesktopHears
<1> QED BY <1>4, <1>5 DEF Next

LEMMA ClicksGrow == ASSUME IInv, HInv, Desktop, Serving, [Next]_vars
                    PROVE clicks \in Nat /\ clicks <= clicks' /\ (clicks' = 0 => clicks = 0)
<1>1. clicks \in Nat
  BY DesktopTypes
<1>2. clicks <= clicks'
  <2>1. CASE AdvanceClock \/ Player \/ Timeout
    BY <2>1, PlayerAside DEF Aside
  <2>2. CASE Host \/ EntryFails \/ Stops \/ Dies \/ Unavailable \/ Relaunch \/ Generic
    BY <1>1, <2>2, DesktopHears
  <2>3. CASE UNCHANGED vars
    BY <1>1, <2>3 DEF vars, runtimeVars
  <2> QED BY <2>1, <2>2, <2>3 DEF Next
<1>3. clicks' \in Int
  <2>1. Desktop'
    BY DesktopKeeps
  <2> QED BY <2>1 DEF Desktop
<1> QED BY <1>1, <1>2, <1>3

\* The job's operation is what its request asks for, and a history call needs a click.
LEMMA JobMoves ==
    ASSUME IInv, HInv, Desktop, Serving, Confirmed, [Next]_vars
    PROVE  /\ (job'.pc = "reply" /\ job'.req # NoRequest) => (job'.pc = job.pc /\ job' = job) \/ job.pc = "ack"
           /\ (job'.pc # "idle" /\ job'.req.kind = "command") =>
                  job'.op.kind = "command" /\ job'.op.cmd = job'.req.cmd
           /\ clicks = 0 => ~IsHistory(job'.op.kind)
<1>1. HostMove
  BY EveryMove
<1>2. CASE UNCHANGED job
  BY <1>2 DEF Confirmed
<1>3. ASSUME NEW r \in Sound, Accept(r)
      PROVE  /\ job'.pc # "reply"
             /\ job'.req.kind = "command" => job'.op.kind = "command" /\ job'.op.cmd = job'.req.cmd
             /\ clicks = 0 => ~IsHistory(job'.op.kind)
  <2>1. /\ job'.pc = "stage" /\ job'.req = r
        /\ job'.op = OpFor(r)
    BY <1>3 DEF Accept, Admitted, Resumes
  <2>2. /\ OpFor(r).kind = r.kind
        /\ r.kind = "command" => OpFor(r).cmd = r.cmd
    BY DEF OpFor
  <2>3. clicks = 0 => ~IsHistory(r.kind)
    BY DEF Sound
  <2> QED BY <2>1, <2>2, <2>3
<1>4. CASE Writes
  BY <1>4, WritesGoOn DEF Confirmed, Serving
<1>5. CASE job' = Idle
  <2>1. ~IsHistory(NoOp.kind)
    BY DEF NoOp, IsHistory
  <2> QED BY <1>5, <2>1, IdleIsIdle
<1>6. CASE Boot
  <2>1. job' = Idle \/ (job'.pc = "rebind" /\ job'.req = NoRequest /\ job'.op = Pending)
    BY <1>6 DEF Boot
  <2> QED BY <1>5, <2>1, IdleIsIdle DEF Confirmed
<1>7. CASE \/ HostStays \/ \E r \in Sound : AnswerDuplicate(r) \/ Entry(r) \/ Reject(r)
           \/ GenericBegin \/ GenericCommit \/ Reopen
  BY <1>2, <1>7 DEF HostStays, AnswerDuplicate, Entry, Reject, GenericBegin, GenericCommit, Reopen
<1>8. CASE Finish \/ JobFails \/ HostDies
  BY <1>5, <1>8 DEF Finish, JobFails, HostDies
<1> QED BY <1>1, <1>3, <1>4, <1>6, <1>7, <1>8 DEF HostMove

LEMMA ConfirmedKept ==
    ASSUME IInv, HInv, Desktop, Serving, Confirmed, [Next]_vars PROVE Confirmed'
<1>1. UNCHANGED lease \/ Noting \/ Acking \/ Preparing \/ Activating
  BY LeaseMoves
<1>2. clicks' = 0 => clicks = 0
  BY ClicksGrow
<1>3. Pending # NoOp /\ Pending.kind = "command" => Pending.cmd \in Apply(Pending, Ack.state).cmds
  BY DEF Apply
<1>4. Pending # NoOp /\ ~IsHistory(Pending.kind) => Ack.state.cmds \subseteq Apply(Pending, Ack.state).cmds
  BY DEF Apply, IsHistory
<1>5. lease'.phase = "none" => lease.phase = "none" /\ UNCHANGED lease
  BY <1>1 DEF Noting, Acking, Preparing, Activating, Target, Live
<1>6. lease'.phase = "none" => told' = {}
  <2> SUFFICES ASSUME lease'.phase = "none" PROVE told' = {}
    OBVIOUS
  <2>1. UNCHANGED told
    BY <1>5, ToldIsAcked
  <2> QED BY <1>5, <2>1 DEF Confirmed
<1>7. lease'.ack.op.kind = "command" => lease'.ack.op.cmd \in lease'.ack.state.cmds
  BY <1>1, <1>3 DEF Confirmed, Noting, Acking, Preparing, Activating, NoOp
<1>8. clicks' = 0 => told' \subseteq lease'.ack.state.cmds
  <2> SUFFICES ASSUME clicks = 0 PROVE told' \subseteq lease'.ack.state.cmds
    BY <1>2
  <2>1. told \subseteq Ack.state.cmds /\ ~IsHistory(Pending.kind)
    BY DEF Confirmed
  <2>2. CASE UNCHANGED lease
    BY <2>1, <2>2, ToldIsAcked DEF Confirmed
  <2>3. CASE lease' # lease
    <3>1. UNCHANGED told
      BY <2>3, ToldIsAcked
    <3>2. CASE Preparing
      BY <3>1, <3>2 DEF Preparing, Confirmed
    <3>3. CASE Acking
      BY <1>4, <2>1, <3>1, <3>3 DEF Acking
    <3>4. CASE Noting \/ Activating
      BY <2>1, <3>1, <3>4 DEF Noting, Activating
    <3> QED BY <1>1, <2>3, <3>2, <3>3, <3>4
  <2> QED BY <2>2, <2>3
<1>9. (job'.pc = "reply" /\ job'.req # NoRequest) => lease'.ack.op = job'.op
  <2> SUFFICES ASSUME job'.pc = "reply", job'.req # NoRequest PROVE lease'.ack.op = job'.op
    OBVIOUS
  <2>1. CASE job.pc = "ack"
    <3>1. Acking \/ UNCHANGED lease
      BY <1>1, <2>1 DEF Noting, Preparing, Activating
    <3>2. Acknowledge
      <4>1. HostMove
        BY EveryMove
      <4>2. UNCHANGED job \/ job' = Idle \/ job'.pc = "rebind" \/ job'.pc = "stage" \/ Writes
        BY <4>1 DEF HostMove, HostStays, Accept, AnswerDuplicate, Entry, Reject, Finish, JobFails,
                    HostDies, Boot, GenericBegin, GenericCommit, Reopen
      <4>3. Writes
        BY <2>1, <4>2, IdleIsIdle
      <4> QED BY <2>1, <4>3 DEF Writes, Stage, AppendWal, Install, Publish, Settle, WriteReceipt,
                    Rebind, At
    <3>3. lease'.ack.op = Pending /\ job'.op = Pending
      <4>1. lease'.ack.op = Pending /\ job' = [job EXCEPT !.pc = "reply"]
        BY <3>2 DEF Acknowledge, Goto, IInv, Shape
      <4>2. job.op = Pending
        BY <2>1 DEF IInv, Progress, Late
      <4> QED BY <4>1, <4>2 DEF IInv, Shape
    <3> QED BY <3>3
  <2>2. CASE job' = job /\ job.pc = "reply"
    <3>1. UNCHANGED lease
      BY <1>1, <2>2 DEF Noting, Acking, Preparing, Activating
    <3> QED BY <2>2, <3>1 DEF Confirmed
  <2> QED BY <2>1, <2>2, JobMoves
<1>10. clicks' = 0 => ~IsHistory(lease'.pending.kind) /\ ~IsHistory(job'.op.kind)
  <2>1. ~IsHistory(NoOp.kind)
    BY DEF NoOp, IsHistory
  <2> QED BY <1>1, <1>2, <2>1, JobMoves DEF Confirmed, Noting, Acking, Preparing, Activating
<1> QED BY <1>6, <1>7, <1>8, <1>9, <1>10, JobMoves DEF Confirmed

-----------------------------------------------------------------------------
(* The whole invariant *)

LEMMA AuthorityInvariant == Spec => []AInv
<1>1. Init => AInv
  <2> SUFFICES ASSUME Init PROVE AInv
    OBVIOUS
  <2>1. IInv /\ HInv
    BY InitIInv, InitParts
  <2>2. /\ phase = "idle" /\ ctx = NoContext /\ doing = NoRequest /\ drain = NoDrain
        /\ queue = <<>> /\ pipe = <<>> /\ now = 0 /\ asked = {} /\ told = {} /\ clicks = 0
        /\ job = Idle /\ faults = 0 /\ lease = NoLease
    BY DEF Init, HostInit
  <2>3. Desktop
    <3>1. 0 \in 0..MaxNow /\ 0 \in 0..MaxClicks
      BY BoundsAssumption
    <3>2. pipe \in Seq(Calls) /\ queue \in Seq(Waits) /\ Len(queue) <= QueueLimit /\ doing \in Sound
      BY <2>2, NoWaits, NothingIsSound
    <3>3. ctx \in [rev: Int, gen: Int, next: Int, due: Int] /\ drain \in Int /\ phase \in Phases
      BY <2>2 DEF NoContext, NoDrain, Phases
    <3> QED BY <2>2, <3>1, <3>2, <3>3 DEF Desktop
  <2>4. Serving
    BY <2>2, IdleIsIdle DEF Serving
  <2>5. Confirmed
    BY <2>2, IdleIsIdle DEF Confirmed, NoLease, NoOp, IsHistory
  <2>6. faults \in 0..MaxFaults
    BY <2>2, FaultsAssumption
  <2> QED BY <2>1, <2>3, <2>4, <2>5, <2>6 DEF AInv
<1>2. AInv /\ [Next]_vars => AInv'
  BY StepKeeps, PartsKept, DesktopKeeps, ServingKept, ConfirmedKept, FaultsBounded DEF AInv
<1> QED BY <1>1, <1>2, PTL DEF Spec

\* Every variable keeps its type: the bounds on the queue, the clock and the clicks hold,
\* and nobody is told of a command that was never asked for.
THEOREM AuthorityTypes == Spec => []AuthorityTypeOK
<1>1. AInv => AuthorityTypeOK
  <2> SUFFICES ASSUME AInv PROVE AuthorityTypeOK
    OBVIOUS
  <2> USE DEF AInv
  <2>1. /\ published.gen \in Nat /\ session.gen \in Nat /\ Ack.gen \in Nat
        /\ lease.phase \in {"none", "prepared", "active", "paused"} /\ hostUp \in BOOLEAN
    BY DEF IInv, Shape, Checkpoint
  <2>2. /\ published.state \in States /\ session.state \in States /\ Ack.state \in States
        /\ Ack.seq \in Nat /\ Ack.clock \in Nat /\ bound \in BOOLEAN /\ unproved \in BOOLEAN
    BY DEF HInv, Values
  <2>3. Pending.kind \in Kinds \union {"none"} /\ Pending.cmd \in CmdOrNone
    BY DEF IInv, Staged, Stageable, HInv, Operations, Completed, NoOp, CmdOrNone
  <2>4. /\ phase \in Phases /\ drain \in Int /\ Len(queue) <= QueueLimit
        /\ asked \subseteq Commands /\ told \subseteq asked
        /\ now \in 0..MaxNow /\ clicks \in 0..MaxClicks
    BY DEF Desktop
  <2> QED BY <2>1, <2>2, <2>3, <2>4 DEF AuthorityTypeOK
<1> QED BY <1>1, AuthorityInvariant, PTL

\* A confirmed command is in what a restart would open, whatever fails or dies after the
\* confirmation, unless the player undoes it.
THEOREM ConfirmedSurvive == Spec => []ToldCommandsSurvive
<1>1. AInv => ToldCommandsSurvive
  <2> SUFFICES ASSUME AInv, clicks = 0 PROVE told \subseteq Recovered.state.cmds
    BY DEF ToldCommandsSurvive
  <2> USE DEF AInv
  <2>1. told \subseteq Ack.state.cmds /\ ~IsHistory(Pending.kind)
    BY DEF Confirmed
  <2>2. CASE lease.phase = "none"
    BY <2>2 DEF Confirmed
  <2>3. CASE lease.phase # "none"
    <3>1. Recovered.state \in {Ack.state} \union (IF Pending = NoOp THEN {} ELSE {Apply(Pending, Ack.state)})
      <4>1. CASE Pending = NoOp
        BY <2>3, <4>1 DEF IInv, Quiet, Recovered, Base
      <4>2. CASE Pending # NoOp
        BY <4>2 DEF IInv, Staged, Recovered, Base, After
      <4> QED BY <4>1, <4>2
    <3>2. Ack.state.cmds \subseteq Apply(Pending, Ack.state).cmds
      BY <2>1 DEF Apply, IsHistory
    <3> QED BY <2>1, <3>1, <3>2
  <2> QED BY <2>2, <2>3
<1> QED BY <1>1, AuthorityInvariant, PTL

-----------------------------------------------------------------------------
(* The lease implements the ledger *)

LEMMA AckingIsAnEntry ==
    ASSUME AInv, Acking
    PROVE  Ledger!Next
<1> USE DEF AInv
<1>1. Completed(Pending) /\ Stageable(Pending) /\ lease.phase \in {"active", "paused"}
  BY DEF Acking, HInv, Operations, IInv, Staged, Live
<1>2. /\ Ack.seq \in Nat /\ Ack.clock \in Nat /\ Ack.state.secs \in Nat /\ Ack.state.rev \in Nat
  BY DEF HInv, Values, States
<1>3. /\ lease'.ack.state.rev = Ack.state.rev + 1
      /\ lease'.ack.state.secs = Ack.state.secs + Pending.secs
      /\ lease'.ack.seq = Pending.seq /\ lease'.ack.clock = Pending.clock
      /\ lease'.ack.state.cmds = Apply(Pending, Ack.state).cmds
  BY DEF Acking, Apply
<1>4. Pending.secs \in Nat /\ Pending.clock \in Nat /\ Pending.seq \in Nat
  BY <1>1, BatchAssumption DEF Completed
<1>5. CASE Pending.kind = "tick"
  <2>1. Pending.secs \in 1..MaxBatch
    BY <1>1, <1>5 DEF Completed
  <2>2. Ledger!Settle(Pending.secs)
    <3>1. lease.phase = "active" /\ lease'.phase = lease.phase
      BY <1>1, <1>5 DEF Stageable, Acking, IsLifecycle
    <3>2. lease'.ack.seq = Ack.seq + Pending.secs /\ lease'.ack.clock = Ack.clock + Pending.secs
      BY <1>1, <1>3, <1>5 DEF Completed
    <3>3. lease'.ack.state.cmds = Ack.state.cmds
      BY <1>3, <1>5 DEF Apply
    <3> QED BY <1>3, <3>1, <3>2, <3>3 DEF Ledger!Settle
  <2> QED BY <2>1, <2>2 DEF Ledger!Next
<1>6. CASE Pending.kind \in {"command", "undo", "redo"}
  <2>1. Pending.cmd \in Commands /\ Pending.secs = 0
    BY <1>1, <1>6 DEF Completed
  <2>2. Ledger!Change(Pending.cmd)
    <3>1. lease.phase = "active" /\ lease'.phase = lease.phase
      BY <1>1, <1>6 DEF Stageable, Acking, IsLifecycle
    <3>2. lease'.ack.seq = Ack.seq + 1 /\ lease'.ack.clock = Ack.clock
      BY <1>1, <1>2, <1>3, <1>6, <2>1 DEF Completed
    <3>3. lease'.ack.state.cmds \in {Ack.state.cmds \union {Pending.cmd}, Ack.state.cmds \ {Pending.cmd}}
      BY <1>3, <1>6 DEF Apply
    <3>4. lease'.ack.state.secs = Ack.state.secs
      BY <1>2, <1>3, <2>1
    <3> QED BY <1>3, <3>1, <3>2, <3>3, <3>4 DEF Ledger!Change
  <2> QED BY <2>1, <2>2 DEF Ledger!Next
<1>7. CASE Pending.kind \in {"pause", "resume"}
  <2>1. /\ Pending.secs = 0 /\ Pending.seq = Ack.seq + 1 /\ Pending.clock >= Ack.clock
        /\ Pending.kind = "pause" => Pending.clock = Ack.clock
    BY <1>1, <1>2, <1>7 DEF Completed
  <2>2. lease'.ack.state.cmds = Ack.state.cmds /\ lease'.ack.state.secs = Ack.state.secs
    BY <1>2, <1>3, <1>7, <2>1 DEF Apply
  <2>3. CASE Pending.kind = "pause"
    <3>1. lease.phase = "active" /\ lease'.phase = "paused"
      BY <1>1, <2>3 DEF Stageable, Acking, IsLifecycle, Target
    <3>2. Ledger!Pause
      BY <1>3, <2>1, <2>2, <2>3, <3>1 DEF Ledger!Pause
    <3> QED BY <3>2 DEF Ledger!Next
  <2>4. CASE Pending.kind = "resume"
    <3>1. lease.phase = "paused" /\ lease'.phase = "active"
      BY <1>1, <2>4 DEF Stageable, Acking, IsLifecycle, Target
    <3>2. Ledger!Resume
      BY <1>3, <2>1, <2>2, <3>1 DEF Ledger!Resume
    <3> QED BY <3>2 DEF Ledger!Next
  <2> QED BY <1>7, <2>3, <2>4
<1> QED BY <1>1, <1>5, <1>6, <1>7 DEF Stageable, Kinds

LEMMA PreparingIsAnEntry ==
    ASSUME AInv, Preparing
    PROVE  Ledger!Next
<1>1. /\ lease.phase = "none" /\ lease'.phase = "prepared" /\ lease'.ack.seq = 0
      /\ lease'.ack.clock \in Nat /\ lease'.ack.state = session.state
  BY DEF Preparing
<1>2. lease = NoLease /\ New(session.state)
  BY <1>1 DEF AInv, HInv, Unleased
<1>3. Ack.state.secs = 0 /\ Ack.state.rev = 0 /\ Ack.state.cmds = {} /\ Ack.seq = 0
  BY <1>2 DEF NoLease, Blank
<1>4. session.state.secs \in {0, 1} /\ session.state.rev \in {0, 1} /\ session.state.cmds = {}
  <2>1. Blank.secs = 0 /\ Blank.rev = 0 /\ Blank.cmds = {}
    BY DEF Blank
  <2>2. FirstSave.secs = 1 /\ FirstSave.rev = 1 /\ FirstSave.cmds = {}
    BY DEF FirstSave, Blank
  <2> QED BY <1>2, <2>1, <2>2 DEF New
<1>5. Ledger!Open
  BY <1>1, <1>3, <1>4 DEF Ledger!Open
<1> QED BY <1>5 DEF Ledger!Next

\* The acknowledged state is a ledger: every entry is settled once and the seconds follow
\* the clock.
THEOREM LeaseIsALedger == Spec => ImplementsLedger
<1>1. Init => Ledger!Init
  BY DEF Init, HostInit, NoLease, Blank, Ledger!Init
<1>2. AInv /\ [Next]_vars => [Ledger!Next]_(Ledger!vars)
  <2> SUFFICES ASSUME AInv, [Next]_vars PROVE Ledger!Next \/ UNCHANGED Ledger!vars
    OBVIOUS
  <2>1. UNCHANGED lease \/ Noting \/ Acking \/ Preparing \/ Activating
    BY LeaseMoves DEF AInv
  <2>2. CASE UNCHANGED lease \/ Noting
    BY <2>2 DEF Noting, Ledger!vars
  <2>3. CASE Activating
    <3>1. Ledger!Start
      BY <2>3 DEF Activating, Ledger!Start
    <3> QED BY <3>1 DEF Ledger!Next
  <2> QED BY <2>1, <2>2, <2>3, AckingIsAnEntry, PreparingIsAnEntry
<1> QED BY <1>1, <1>2, AuthorityInvariant, PTL DEF Spec, ImplementsLedger, Ledger!Spec
=============================================================================
