------------------------ MODULE PlayerAuthorityHost ------------------------
(***************************************************************************)
(* The native host as the one writer of the player's factory: the durable   *)
(* player-authority lease (exact_realtime_lease.rs), the core session that  *)
(* settles ticks and commands under it (core_runtime.rs) and the part of    *)
(* the save store they use.                                                 *)
(*                                                                          *)
(* An operation is settled by a fixed sequence of durable writes: staged in *)
(* the lease, appended to the WAL, installed in the session, published as a *)
(* checkpoint, noted in the change receipt, acknowledged in the lease.  The *)
(* host may die, and any write may report an error before or after it took  *)
(* effect, between any two of them; a retry and a restart both pick up the  *)
(* operation where it stopped.  One unit of time is one second.             *)
(***************************************************************************)
EXTENDS Integers, Sequences

CONSTANTS
    Commands,       \* gameplay commands
    Refused,        \* typed intents whose preflight the host refuses
    MaxBatch,       \* MAX_PLAYER_AUTHORITY_EXACT_BATCH_SECONDS
    MaxFaults       \* bound: errors, deaths, timeouts and restarts

ASSUME BatchAssumption == MaxBatch \in Nat \ {0}
ASSUME CommandsAssumption == Refused \subseteq Commands
ASSUME FaultsAssumption == MaxFaults \in Nat

VARIABLES
    published,      \* the current checkpoint of normal-main: [gen, state]
    wal,            \* the operation the WAL holds past the checkpoint
    lease,          \* exact-realtime-lease-v2.json
    changes,        \* the command the change-receipt file describes
    draft,          \* a generic save transaction that was begun
    hostUp,
    bound,          \* the lease names this lifetime's session
    session,        \* the core session: [gen, state]
    unproved,       \* a checkpoint of the session whose publication is uncertain
    undo, redo,     \* the session's history of commands
    noted,          \* the history entry of a command that is not acknowledged
    job,            \* the operation being settled
    faults

diskVars == <<published, wal, lease, changes>>
coreVars == <<session, unproved, undo, redo, noted>>
hostVars == <<diskVars, draft, hostUp, bound, coreVars, job, faults>>

-----------------------------------------------------------------------------
(* Requests, operations and states of the factory *)

NoCommand == "none"
Kinds == {"tick", "command", "pause", "resume", "undo", "redo"}

NoRequest == [kind |-> "none", seq |-> 0, base |-> 0, clock |-> 0, cmd |-> NoCommand, click |-> 0]
Blank == [rev |-> 0, secs |-> 0, cmds |-> {}, paused |-> FALSE]

\* An operation is a request completed from the lease.
NoOp == [kind |-> "none", seq |-> 0, base |-> 0, clock |-> 0, cmd |-> NoCommand, click |-> 0, secs |-> 0]

Result(op) == op.base + 1

IsHistory(kind) == kind \in {"undo", "redo"}
IsLifecycle(kind) == kind \in {"pause", "resume"}

\* Mutant: a command moves the revision and changes nothing.
ApplyForgets(op, s) == [s EXCEPT !.rev = @ + 1, !.secs = @ + op.secs]

\* The transition of the core, a function of the state and the operation: a batch is
\* simulated; a command, and the patch that undoes or redoes it, touch nothing else.
Apply(op, s) ==
    [rev    |-> s.rev + 1,
     secs   |-> s.secs + op.secs,
     cmds   |-> CASE op.kind \in {"command", "redo"} -> s.cmds \union {op.cmd}
                  [] op.kind = "undo" -> s.cmds \ {op.cmd}
                  [] OTHER -> s.cmds,
     paused |-> IF IsLifecycle(op.kind) THEN op.kind = "pause" ELSE s.paused]

\* What opening the slot yields: the checkpoint and the WAL past it.
Recovered ==
    [gen |-> published.gen,
     state |-> IF wal = NoOp THEN published.state ELSE Apply(wal, published.state)]

NoLease == [phase |-> "none", pending |-> NoOp,
            ack |-> [seq |-> 0, gen |-> 0, state |-> Blank, clock |-> 0, op |-> NoOp, last |-> NoOp]]

Idle == [pc |-> "idle", req |-> NoRequest, op |-> NoOp]

-----------------------------------------------------------------------------
(* The session's history of commands *)

SameContent(s, t) == [s EXCEPT !.rev = 0] = [t EXCEPT !.rev = 0]

Top(stack) == stack[Len(stack)]
Pop(stack) == SubSeq(stack, 1, Len(stack) - 1)

\* reconcile_player_command_history: both stacks are dropped unless the top of each
\* belongs to the current revision.
Fits(s) ==
    /\ undo # <<>> => Top(undo).result = s.rev /\ SameContent(Top(undo).to, s)
    /\ redo # <<>> => Top(redo).undone = s.rev /\ SameContent(Top(redo).from, s)

Kept(stack, s) == IF Fits(s) THEN stack ELSE <<>>

\* finish_pending_player_command_history
Recorded(op) ==
    IF noted # {} /\ (CHOOSE e \in noted : TRUE).cmd = op.cmd
    THEN /\ undo' = Append(undo, CHOOSE e \in noted : TRUE)
         /\ redo' = <<>>
         /\ noted' = {}
    ELSE UNCHANGED <<undo, redo, noted>>

\* The stacks after an undo or redo was settled, as the closing reconciliation leaves them.
Moved(op, s) ==
    LET entry == IF op.kind = "undo" THEN [Top(undo) EXCEPT !.undone = s.rev]
                 ELSE [Top(redo) EXCEPT !.result = s.rev, !.undone = 0]
        u == IF op.kind = "undo" THEN Pop(undo) ELSE Append(undo, entry)
        r == IF op.kind = "undo" THEN Append(redo, entry) ELSE Pop(redo)
        fits == (u # <<>> => Top(u).result = s.rev) /\ (r # <<>> => Top(r).undone = s.rev)
    IN /\ undo' = IF fits THEN u ELSE <<>>
       /\ redo' = IF fits THEN r ELSE <<>>
       /\ noted' = noted

-----------------------------------------------------------------------------
(* Which request may be settled *)

Ack == lease.ack
Pending == lease.pending

Source(kind) == IF kind = "resume" THEN "paused" ELSE "active"
Target(kind) == IF kind = "pause" THEN "paused" ELSE "active"

\* stage_player_authority_*: what the lease makes of a request.
OpFor(r) ==
    LET secs == IF r.kind = "tick" THEN r.seq - Ack.seq ELSE 0
    IN [kind |-> r.kind, base |-> Ack.state.rev, click |-> r.click, secs |-> secs,
        seq   |-> IF r.kind = "tick" THEN r.seq ELSE Ack.seq + 1,
        clock |-> IF IsLifecycle(r.kind) THEN r.clock ELSE Ack.clock + secs,
        cmd   |-> CASE r.kind = "undo" -> Top(undo).cmd [] r.kind = "redo" -> Top(redo).cmd
                    [] OTHER -> r.cmd]

\* Nothing is pending: a batch of 1 to MaxBatch seconds after the last ACK, or an
\* operation on the acknowledged revision.  A pause keeps the settled deadline; a
\* resume may only move it forward.
Fresh(r) ==
    /\ r.kind = "tick" => r.seq - Ack.seq \in 1..MaxBatch
    /\ r.kind # "tick" => r.base = Ack.state.rev /\ session.state.rev = r.base
    /\ session.state.paused = (r.kind = "resume")
    /\ r.kind = "pause" => r.clock = Ack.clock
    /\ r.kind = "resume" => r.clock >= Ack.clock

HistoryAvailable(r) ==
    IsHistory(r.kind) =>
        /\ r.base = session.state.rev
        /\ IF r.kind = "undo" THEN Kept(undo, session.state) # <<>> ELSE Kept(redo, session.state) # <<>>

\* The operation is pending: only the same request resumes it.
Resumes(r) ==
    /\ Pending = OpFor(r)
    /\ r.kind # "tick" => r.base = Pending.base
    /\ session.state.rev \in {Pending.base, Result(Pending)}
    /\ r.kind = "tick" => ~session.state.paused

Admitted(r) ==
    /\ lease.phase = Source(r.kind)
    /\ bound
    /\ HistoryAvailable(r)
    /\ IF Pending = NoOp THEN Fresh(r) /\ r.cmd \notin Refused ELSE Resumes(r)

\* The session once an uncertain publication is settled (reconcile_uncertain_publication).
Proved == IF unproved /\ published.state = session.state
          THEN [session EXCEPT !.gen = published.gen] ELSE session

Current(s) == /\ s = [gen |-> Ack.gen, state |-> Ack.state]
              /\ published = [gen |-> Ack.gen, state |-> Ack.state]

\* The last ACK already answers the request: a tick by its sequence alone, a command by
\* its identity.
Duplicate(r) ==
    /\ bound /\ Pending = NoOp /\ Current(Proved)
    /\ \/ /\ r.kind = "tick" /\ lease.phase = "active" /\ r.seq = Ack.seq
          /\ ~session.state.paused
       \/ /\ r.kind \in {"command", "pause", "resume"}
          /\ lease.phase = Target(r.kind)
          /\ Ack.op = Ack.last
          /\ Ack.op.kind = r.kind /\ Ack.op.base = r.base /\ Ack.op.cmd = r.cmd
          /\ IsLifecycle(r.kind) => Ack.op.clock = r.clock

Receipt == [seq |-> Ack.seq, rev |-> Ack.state.rev, gen |-> Ack.gen, clock |-> Ack.clock,
            base |-> Ack.op.base]

-----------------------------------------------------------------------------
(* Settling one operation *)

At(pc) == hostUp /\ job.pc = pc
Goto(pc) == job' = [job EXCEPT !.pc = pc]

\* The handler's checks; a history request first reconciles the stacks.
Accept(r) ==
    /\ hostUp /\ job.pc = "idle"
    /\ r.kind \in Kinds /\ Admitted(r)
    /\ job' = [pc |-> "stage", req |-> r, op |-> IF Pending = NoOp THEN OpFor(r) ELSE Pending]
    /\ session' = Proved /\ unproved' = FALSE
    /\ UNCHANGED <<diskVars, draft, hostUp, bound, undo, redo, noted, faults>>

\* Mutant: the operation is appended without being staged in the lease.
StageNothing ==
    /\ At("stage") /\ Goto("append")
    /\ UNCHANGED <<diskVars, draft, hostUp, bound, coreVars, faults>>

\* Mutant: a new attempt starts by discarding the WAL tail.
StageDropsWal ==
    /\ At("stage") /\ Goto("append")
    /\ lease' = [lease EXCEPT !.pending = job.op] /\ wal' = NoOp
    /\ UNCHANGED <<published, changes, draft, hostUp, bound, coreVars, faults>>

\* The pending operation is in the lease before anything else is written; the inverse of
\* a command is noted.
Stage ==
    /\ At("stage") /\ Goto("append")
    /\ lease' = [lease EXCEPT !.pending = job.op]
    /\ noted' = IF job.op.kind = "command" /\ session.state.rev = job.op.base
                THEN {[cmd |-> job.op.cmd, from |-> session.state, to |-> Apply(job.op, session.state),
                       result |-> Result(job.op), undone |-> 0]}
                ELSE noted
    /\ UNCHANGED <<published, wal, changes, draft, hostUp, bound, session, unproved, undo, redo, faults>>

AlreadyPublished ==
    /\ published.state.rev = Result(job.op)
    /\ session.gen = published.gen /\ session.state.rev = Result(job.op)

\* The WAL entry of the command is found by its identity and replayed if the session is
\* behind it.
FoundInWal == wal = job.op /\ session.state.rev \in {job.op.base, Result(job.op)}

CanAppend == AlreadyPublished \/ FoundInWal \/ session.state.rev = job.op.base

\* Mutant: a retry does not look for the operation in the WAL.
AppendAgain ==
    /\ At("append") /\ CanAppend
    /\ wal' = job.op /\ Goto("install")
    /\ UNCHANGED <<published, lease, changes, draft, hostUp, bound, coreVars, faults>>

\* commit_operation_internal, up to the durable WAL entry.
AppendWal ==
    /\ At("append") /\ CanAppend
    /\ IF AlreadyPublished THEN Goto("publish") /\ UNCHANGED <<wal, session>>
       ELSE IF FoundInWal
       THEN /\ session' = IF session.state.rev = job.op.base
                          THEN [session EXCEPT !.state = Apply(job.op, @)] ELSE session
            /\ Goto("publish") /\ UNCHANGED wal
       ELSE wal' = job.op /\ Goto("install") /\ UNCHANGED session
    /\ UNCHANGED <<published, lease, changes, draft, hostUp, bound, unproved, undo, redo, noted, faults>>

\* ... *state = prepared
Install ==
    /\ At("install") /\ Goto("publish")
    /\ session' = [session EXCEPT !.state = Apply(job.op, @)]
    /\ UNCHANGED <<diskVars, draft, hostUp, bound, unproved, undo, redo, noted, faults>>

CanPublish ==
    /\ session.gen = published.gen /\ session.state.rev = Result(job.op)
    /\ \/ published.state.rev = Result(job.op)
       \/ published = [gen |-> Ack.gen, state |-> Ack.state]

\* Mutant: every attempt publishes, whatever is published.
PublishAlways ==
    /\ At("publish") /\ session.gen = published.gen
    /\ published' = [gen |-> published.gen + 1, state |-> session.state]
    /\ wal' = NoOp /\ Goto("settle")
    /\ UNCHANGED <<lease, changes, draft, hostUp, bound, coreVars, faults>>

\* The checkpoint of the operation, unless it is published already; publishing compacts
\* the WAL it covers.
Publish ==
    /\ At("publish") /\ CanPublish
    /\ IF published.state.rev = Result(job.op)
       THEN Goto("receipt") /\ UNCHANGED <<published, wal>>
       ELSE /\ published' = [gen |-> published.gen + 1, state |-> session.state]
            /\ wal' = NoOp /\ Goto("settle")
    /\ UNCHANGED <<lease, changes, draft, hostUp, bound, coreVars, faults>>

\* install_checkpoint_identity
Settle ==
    /\ At("settle") /\ Goto("receipt")
    /\ session' = [session EXCEPT !.gen = published.gen]
    /\ UNCHANGED <<diskVars, draft, hostUp, bound, unproved, undo, redo, noted, faults>>

\* Mutant: the change receipt is written after the ACK, or never.
SkipReceipt ==
    /\ At("receipt") /\ Goto("ack")
    /\ UNCHANGED <<diskVars, draft, hostUp, bound, coreVars, faults>>

\* write_player_authority_command_change_receipt: before the ACK, for commands only.
WriteReceipt ==
    /\ At("receipt") /\ Goto("ack")
    /\ changes' = IF job.op.kind = "tick" THEN changes ELSE job.op
    /\ UNCHANGED <<published, wal, lease, draft, hostUp, bound, coreVars, faults>>

\* Mutant: a tick ACK keeps the previous deadline.
AckWithoutClock ==
    /\ At("ack") /\ Goto("reply")
    /\ lease' = [lease EXCEPT !.pending = NoOp,
                    !.ack = [seq |-> job.op.seq, gen |-> session.gen, state |-> session.state,
                             clock |-> @.clock, op |-> job.op, last |-> job.op]]
    /\ UNCHANGED <<published, wal, changes, draft, hostUp, bound, coreVars, faults>>

\* acknowledge_player_authority_*: the checkpoint must be the publication; a pause or a
\* resume changes the phase in the same write.
Acknowledge ==
    /\ At("ack") /\ Goto("reply")
    /\ published = session /\ session.state.rev = Result(Pending)
    /\ lease' = [lease EXCEPT
                    !.phase = IF IsLifecycle(Pending.kind) THEN Target(Pending.kind) ELSE @,
                    !.pending = NoOp,
                    !.ack = [seq |-> Pending.seq, gen |-> session.gen, state |-> session.state,
                             clock |-> Pending.clock, op |-> Pending,
                             last |-> IF Pending.kind = "tick" THEN @.last ELSE Pending]]
    /\ UNCHANGED <<published, wal, changes, draft, hostUp, bound, coreVars, faults>>

\* The end of the handler: the history of the session is brought up to date.
Finish ==
    /\ At("reply") /\ job' = Idle
    /\ CASE job.op.kind = "command"   -> Recorded(job.op)
         [] IsHistory(job.op.kind) /\ job.req.kind = job.op.kind -> Moved(job.op, session.state)
         [] OTHER                     -> UNCHANGED <<undo, redo, noted>>
    /\ UNCHANGED <<diskVars, draft, hostUp, bound, session, unproved, faults>>

Doomed == (job.pc = "append" /\ ~CanAppend) \/ (job.pc = "publish" /\ ~CanPublish)

Costs(n) == faults + n <= MaxFaults /\ faults' = faults + n

\* The write that follows fails, or the one before took effect and still reports an
\* error.  A checkpoint that reports an error is reconciled at once, if that can be done.
JobFails ==
    /\ hostUp /\ job.pc # "idle" /\ job.req # NoRequest /\ job' = Idle
    /\ Costs(IF Doomed THEN 0 ELSE 1)
    /\ IF job.pc = "settle"
       THEN \/ unproved' = TRUE /\ UNCHANGED session
            \/ session' = [session EXCEPT !.gen = published.gen] /\ UNCHANGED unproved
       ELSE UNCHANGED <<session, unproved>>
    /\ UNCHANGED <<diskVars, draft, hostUp, bound, undo, redo, noted>>

-----------------------------------------------------------------------------
(* The life of the host *)

\* A request the lease and the session do not allow, or whose first read fails; the
\* history calls reconcile the stacks first.
Reject(r) ==
    /\ hostUp /\ job.pc = "idle"
    /\ Costs(IF r.kind \in Kinds /\ (Admitted(r) \/ Duplicate(r)) THEN 1 ELSE 0)
    /\ IF r.kind \in {"undo", "redo", "status"} /\ ~Fits(session.state)
       THEN undo' = <<>> /\ redo' = <<>> ELSE UNCHANGED <<undo, redo>>
    /\ UNCHANGED <<diskVars, draft, hostUp, bound, session, unproved, noted, job>>

AnswerDuplicate(r) ==
    /\ hostUp /\ job.pc = "idle" /\ Duplicate(r)
    /\ session' = Proved /\ unproved' = FALSE
    /\ IF r.kind = "command" THEN Recorded(Ack.op) ELSE UNCHANGED <<undo, redo, noted>>
    /\ UNCHANGED <<diskVars, draft, hostUp, bound, job, faults>>

Enterable(r) ==
    /\ hostUp /\ job.pc = "idle" /\ ~unproved /\ session = published
    /\ \/ r.kind = "prepare" /\ lease.phase = "none" /\ ~session.state.paused
       \/ r.kind = "activate" /\ lease.phase = "prepared" /\ bound

\* Entry into authority: the lease is prepared on the session's own checkpoint, then
\* activated for the same session.
Entry(r) ==
    /\ Enterable(r)
    /\ bound' = TRUE
    /\ lease' = IF r.kind = "activate" THEN [lease EXCEPT !.phase = "active"]
                ELSE [phase |-> "prepared", pending |-> NoOp,
                      ack |-> [seq |-> 0, gen |-> session.gen, state |-> session.state,
                               clock |-> r.clock, op |-> NoOp, last |-> NoOp]]
    /\ UNCHANGED <<published, wal, changes, draft, hostUp, coreVars, job>>

Starting == hostUp /\ job.pc # "idle" /\ job.req = NoRequest

\* The process ends; at startup it exits itself when the recovery fails.
HostDies ==
    /\ hostUp /\ Costs(IF Starting /\ Doomed THEN 0 ELSE 1)
    /\ hostUp' = FALSE /\ job' = Idle
    /\ UNCHANGED <<diskVars, draft, bound, coreVars>>

\* Mutant: the publication has to be the acknowledged one.
RecoverableStrict == published = [gen |-> Ack.gen, state |-> Ack.state]

\* read_player_authority_recovery_catalog, the change receipt of the last command and the
\* state proof: what a new host insists on before it adopts the lease.
Recoverable ==
    LET s == Recovered.state IN
    /\ published.gen = Ack.gen \/ published.state.rev = Result(Pending)
    /\ s.rev \in {Ack.state.rev, Result(Pending)}
    /\ s.rev = Ack.state.rev => s = Ack.state
    /\ IF Pending = NoOp
       THEN /\ s = Ack.state /\ s.paused = (lease.phase = "paused")
            /\ Ack.op # NoOp /\ Ack.op = Ack.last => changes = Ack.op
       ELSE s.paused = (IF s.rev = Pending.base THEN Pending.kind = "resume" ELSE Pending.kind = "pause")

\* A new host on the same root.  With a live lease it goes on with the pending operation
\* before it says hello.
Boot ==
    /\ hostUp' = TRUE /\ bound' = FALSE /\ draft' = {}
    /\ session' = Recovered /\ unproved' = FALSE
    /\ undo' = <<>> /\ redo' = <<>> /\ noted' = {}
    /\ job' = IF lease.phase \in {"active", "paused"} /\ Recoverable
              THEN [pc |-> "rebind", req |-> NoRequest, op |-> Pending] ELSE Idle
    /\ UNCHANGED diskVars

\* Mutant: a pending operation is left to the first request.
RebindOnly ==
    /\ At("rebind") /\ bound' = TRUE /\ Goto("reply")
    /\ UNCHANGED <<diskVars, draft, hostUp, coreVars, faults>>

\* rebind_*: the lease takes the new session; a pending operation is then settled.
Rebind ==
    /\ At("rebind") /\ bound' = TRUE
    /\ Goto(IF Pending = NoOp THEN "reply" ELSE "stage")
    /\ UNCHANGED <<diskVars, draft, hostUp, coreVars, faults>>

-----------------------------------------------------------------------------
(* The generic writer that owns normal-main before the lease *)

FirstSave == [Blank EXCEPT !.rev = 1, !.secs = 1]

GenericBegin ==
    /\ hostUp /\ lease.phase = "none" /\ draft = {} /\ job.pc = "idle"
    /\ published.state = Blank
    /\ draft' = {[gen |-> published.gen, state |-> FirstSave]}
    /\ UNCHANGED <<diskVars, hostUp, bound, coreVars, job, faults>>

\* Mutant: the fence is checked when a transaction begins and not when it commits.
GenericCommitUnfenced ==
    /\ hostUp /\ draft # {} /\ job.pc = "idle" /\ draft' = {}
    /\ \E d \in draft :
          IF d.gen = published.gen
          THEN published' = [gen |-> d.gen + 1, state |-> d.state]
          ELSE UNCHANGED published
    /\ UNCHANGED <<wal, lease, changes, hostUp, bound, coreVars, job, faults>>

\* The fence is checked again when the transaction commits, as is its base.
GenericCommit ==
    /\ hostUp /\ draft # {} /\ job.pc = "idle" /\ draft' = {}
    /\ \E d \in draft :
          IF lease.phase = "none" /\ d.gen = published.gen
          THEN published' = [gen |-> d.gen + 1, state |-> d.state]
          ELSE UNCHANGED published
    /\ UNCHANGED <<wal, lease, changes, hostUp, bound, coreVars, job, faults>>

\* The owner opens a core session on the current checkpoint.
Reopen ==
    /\ hostUp /\ lease.phase = "none" /\ job.pc = "idle" /\ session # Recovered
    /\ session' = Recovered
    /\ UNCHANGED <<diskVars, draft, hostUp, bound, unproved, undo, redo, noted, job, faults>>

HostInit ==
    /\ published = [gen |-> 0, state |-> Blank] /\ session = published
    /\ wal = NoOp /\ lease = NoLease /\ changes = NoOp /\ draft = {}
    /\ hostUp = TRUE /\ bound = FALSE /\ unproved = FALSE
    /\ undo = <<>> /\ redo = <<>> /\ noted = {}
    /\ job = Idle /\ faults = 0
=============================================================================
