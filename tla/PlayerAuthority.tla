-------------------------- MODULE PlayerAuthority --------------------------
(***************************************************************************)
(* The desktop's player-authority runtime                                   *)
(* (desktop/native-player-authority-runtime.cjs) over the native host: the  *)
(* runtime keeps the clock, turns elapsed seconds and player actions into   *)
(* one request at a time and advances its own context on the receipts; the  *)
(* pipe delivers requests in order to the host of PlayerAuthorityHost.      *)
(*                                                                          *)
(* A receipt and the handler that takes it are one step: what the runtime   *)
(* does in between (queue a command, time out) commutes with the receipt.   *)
(***************************************************************************)
EXTENDS PlayerAuthorityHost

CONSTANTS
    QueueLimit,     \* commands the queue holds (64)
    MaxRevision,    \* bound: no new request past this revision
    MaxNow,         \* bound: seconds on the wall clock
    MaxClicks       \* bound: undo and redo calls

ASSUME BoundsAssumption == {QueueLimit, MaxRevision, MaxNow, MaxClicks} \subseteq Nat

VARIABLES
    phase,          \* phase of the runtime
    ctx,            \* its context: [rev, gen, next, due]
    doing,          \* the request in flight, or whose outcome is uncertain
    drain,          \* a pause settles the seconds through this one first; -1: none
    queue,          \* commands waiting: [cmd, base]
    pipe,           \* requests the host has not answered; live: somebody waits for it
    now,            \* the wall clock
    asked, told,    \* commands submitted, and commands confirmed to the player
    clicks          \* undo and redo calls so far

runtimeVars == <<phase, ctx, doing, drain, queue, asked, told, clicks>>
vars == <<hostVars, runtimeVars, pipe, now>>

NoContext == [rev |-> 0, gen |-> 0, next |-> 0, due |-> 0]
NoDrain == -1

InFlight == \E i \in 1..Len(pipe) : pipe[i].live

Phases == {"idle", "activating", "active", "uncertain", "pausing", "paused", "pause-uncertain",
           "resuming", "resume-uncertain", "faulted", "booting", "down", "blocked", "refused"}

Uncertain == {"uncertain", "pause-uncertain", "resume-uncertain"}

-----------------------------------------------------------------------------
(* Requests *)

Call(r) == [req |-> r, live |-> TRUE]

\* Mutant: the second that has begun counts as due.
TickTooFar(c, through) ==
    LET due == through - c.due + 2
    IN [NoRequest EXCEPT !.kind = "tick",
                         !.seq = c.next + (IF due < MaxBatch THEN due ELSE MaxBatch) - 1]

\* The seconds due through `through`, at most MaxBatch of them.
TickRequest(c, through) ==
    LET due == through - c.due + 1
    IN [NoRequest EXCEPT !.kind = "tick",
                         !.seq = c.next + (IF due < MaxBatch THEN due ELSE MaxBatch) - 1]

CommandRequest(entry) ==
    [NoRequest EXCEPT !.kind = "command", !.cmd = entry.cmd, !.base = entry.base]

PauseRequest(c) == [NoRequest EXCEPT !.kind = "pause", !.base = c.rev, !.clock = c.due - 1]

\* commitCurrentCommand, commitCurrentSequence, executePauseTransition: the request is
\* remembered until its receipt is accepted.
Send(rest, r) == pipe' = Append(rest, Call(r)) /\ doing' = r

\* pump: the next command; ticks wait for the timer.
Pump(rest) ==
    IF queue # <<>>
    THEN Send(rest, CommandRequest(Head(queue))) /\ queue' = Tail(queue)
    ELSE pipe' = rest /\ doing' = NoRequest /\ UNCHANGED queue

-----------------------------------------------------------------------------
(* Receipts *)

\* validateTickReceipt, validateCommandReceipt, validatePauseLifecycleReceipt and the
\* check in commitHistory.
Valid(r, a) ==
    /\ CASE r.kind = "tick"       -> a.seq = r.seq /\ a.rev = ctx.rev + 1
         [] r.kind = "command"    -> /\ a.seq = ctx.next /\ a.base = r.base
                                     /\ a.rev = r.base + 1 /\ a.rev = ctx.rev + 1
                                     /\ a.clock = ctx.due - 1
         [] IsLifecycle(r.kind)   -> a.seq = ctx.next /\ a.base = r.base
                                     /\ a.rev = r.base + 1 /\ a.clock = r.clock
         [] OTHER                 -> a.base = r.base /\ a.rev = r.base + 1
    /\ ~IsHistory(r.kind) => a.gen >= ctx.gen

Advanced(r, a) ==
    [rev  |-> a.rev, gen |-> a.gen,
     next |-> IF r.kind = "tick" THEN r.seq + 1 ELSE ctx.next + 1,
     due  |-> CASE r.kind = "tick" -> ctx.due + r.seq - ctx.next + 1
                [] IsLifecycle(r.kind) -> r.clock + 1
                [] OTHER -> ctx.due]

\* The runtime takes an acceptable receipt.
Succeeds(r, a, rest) ==
    /\ ctx' = Advanced(r, a)
    /\ told' = IF r.kind = "command" THEN told \union {r.cmd} ELSE told
    /\ CASE drain # NoDrain /\ r.kind = "tick" ->
              /\ phase' = phase /\ UNCHANGED queue
              /\ IF ctx'.due <= drain
                 THEN Send(rest, TickRequest(ctx', drain)) /\ UNCHANGED drain
                 ELSE Send(rest, PauseRequest(ctx')) /\ drain' = NoDrain
         [] r.kind = "pause" ->
              /\ phase' = "paused" /\ pipe' = rest /\ doing' = NoRequest
              /\ UNCHANGED <<drain, queue>>
         [] OTHER -> phase' = "active" /\ Pump(rest) /\ UNCHANGED drain
    /\ UNCHANGED <<asked, clicks>>

\* Mutant: a failed tick leaves the runtime running, as a failed history call does.
FailsOn(r, rest) ==
    /\ phase' = "active" /\ Pump(rest)
    /\ UNCHANGED <<ctx, drain, asked, told, clicks>>

\* The runtime gets an error, no answer in time, or a receipt it does not accept.  A
\* failed history call leaves the runtime running; anything else stops it.
Fails(r, rest) ==
    /\ IF IsHistory(r.kind)
       THEN Pump(rest) /\ UNCHANGED phase
       ELSE /\ pipe' = rest /\ queue' = <<>> /\ UNCHANGED doing
            /\ phase' = CASE r.kind = "pause"  -> "pause-uncertain"
                          [] r.kind = "resume" -> "resume-uncertain"
                          [] r.kind \in {"tick", "command"} -> "uncertain"
                          [] OTHER -> "faulted"
    /\ UNCHANGED <<ctx, drain, asked, told, clicks>>

\* A refusal before anything was staged: the queue is dropped and the clock goes on.
Declined(rest) ==
    /\ phase' = "active" /\ pipe' = rest /\ queue' = <<>> /\ doing' = NoRequest
    /\ UNCHANGED <<ctx, drain, asked, told, clicks>>

\* The answer to the head of the pipe; an answer nobody waits for is dropped.
Unheard(rest) == pipe' = rest /\ UNCHANGED runtimeVars

Answer(a) ==
    LET r == Head(pipe).req  rest == Tail(pipe)
    IN CASE ~Head(pipe).live -> Unheard(rest)
         [] Valid(r, a)      -> Succeeds(r, a, rest)
         [] OTHER            -> Fails(r, rest)

AnswerError ==
    IF Head(pipe).live THEN Fails(Head(pipe).req, Tail(pipe)) ELSE Unheard(Tail(pipe))

-----------------------------------------------------------------------------
(* The player and the clock *)

RunActive == phase = "active" /\ ~InFlight /\ queue = <<>>

AdvanceClock == now < MaxNow /\ now' = now + 1 /\ UNCHANGED <<hostVars, runtimeVars, pipe>>

\* activate: the renderer hands the factory over; prepare comes first.
Activate ==
    /\ phase = "idle" /\ hostUp /\ lease.phase = "none"
    /\ phase' = "activating"
    /\ Send(pipe, [NoRequest EXCEPT !.kind = "prepare", !.clock = now])
    /\ UNCHANGED <<hostVars, ctx, drain, queue, asked, told, clicks, now>>

\* Mutant: the queue has no limit.
SubmitUnlimited(c) ==
    /\ phase = "active" /\ c \notin asked
    /\ LET ahead == IF InFlight /\ doing.kind \in {"tick", "command"} THEN 1 ELSE 0
           entry == [cmd |-> c, base |-> ctx.rev + ahead + Len(queue)]
       IN IF InFlight
          THEN queue' = Append(queue, entry) /\ UNCHANGED <<pipe, doing>>
          ELSE Send(pipe, CommandRequest(entry)) /\ UNCHANGED queue
    /\ asked' = asked \union {c}
    /\ UNCHANGED <<hostVars, phase, ctx, drain, told, clicks, now>>

\* commitCommand: the base must be the revision the command will find.
Submit(c) ==
    /\ phase = "active" /\ c \notin asked /\ Len(queue) < QueueLimit
    /\ LET ahead == IF InFlight /\ doing.kind \in {"tick", "command"} THEN 1 ELSE 0
           entry == [cmd |-> c, base |-> ctx.rev + ahead + Len(queue)]
       IN /\ entry.base < MaxRevision
          /\ IF InFlight
             THEN queue' = Append(queue, entry) /\ UNCHANGED <<pipe, doing>>
             ELSE Send(pipe, CommandRequest(entry)) /\ UNCHANGED queue
    /\ asked' = asked \union {c}
    /\ UNCHANGED <<hostVars, phase, ctx, drain, told, clicks, now>>

\* settleDue, by the timer.
SettleDue ==
    /\ RunActive /\ now >= ctx.due /\ ctx.rev < MaxRevision
    /\ Send(pipe, TickRequest(ctx, now))
    /\ UNCHANGED <<hostVars, phase, ctx, drain, queue, asked, told, clicks, now>>

\* setPaused(true), drainDueTicksAndPause: the seconds due are settled first.
PauseGame ==
    /\ RunActive /\ ctx.rev + 1 < MaxRevision
    /\ phase' = "pausing"
    /\ IF ctx.due <= now THEN Send(pipe, TickRequest(ctx, now)) /\ drain' = now
       ELSE Send(pipe, PauseRequest(ctx)) /\ UNCHANGED drain
    /\ UNCHANGED <<hostVars, ctx, queue, asked, told, clicks, now>>

\* setPaused(false): the time spent in the pause is skipped.
ResumeGame ==
    /\ phase = "paused" /\ ~InFlight /\ ctx.rev < MaxRevision
    /\ phase' = "resuming"
    /\ Send(pipe, [NoRequest EXCEPT !.kind = "resume", !.base = ctx.rev,
                                    !.clock = IF now > ctx.due - 1 THEN now ELSE ctx.due - 1])
    /\ UNCHANGED <<hostVars, ctx, drain, queue, asked, told, clicks, now>>

\* commitHistory: a new operation for every call.
Undo(kind) ==
    /\ RunActive /\ clicks < MaxClicks /\ ctx.rev < MaxRevision
    /\ clicks' = clicks + 1
    /\ Send(pipe, [NoRequest EXCEPT !.kind = kind, !.base = ctx.rev, !.click = clicks + 1])
    /\ UNCHANGED <<hostVars, phase, ctx, drain, queue, asked, told, now>>

\* historyStatus: no receipt of it reaches the context.
HistoryStatus ==
    /\ RunActive /\ pipe = <<>> /\ MaxClicks > 0
    /\ pipe' = <<[req |-> [NoRequest EXCEPT !.kind = "status"], live |-> FALSE]>>
    /\ UNCHANGED <<hostVars, runtimeVars, now>>

\* retryUncertain, or setPaused again: the identical request.
Retry ==
    /\ phase \in Uncertain /\ ~InFlight
    /\ phase' = CASE phase = "pause-uncertain"  -> "pausing"
                  [] phase = "resume-uncertain" -> "resuming"
                  [] drain # NoDrain            -> "pausing"
                  [] OTHER                      -> phase
    /\ Send(pipe, doing)
    /\ UNCHANGED <<hostVars, ctx, drain, queue, asked, told, clicks, now>>

\* beginRequest: the request keeps its place in the pipe.
Timeout ==
    /\ Costs(1)
    /\ \E i \in 1..Len(pipe) :
          pipe[i].live /\ Fails(pipe[i].req, [pipe EXCEPT ![i].live = FALSE])
    /\ UNCHANGED <<diskVars, draft, hostUp, bound, coreVars, job, now>>

-----------------------------------------------------------------------------
(* The host takes the requests in order *)

Waiting == hostUp /\ job.pc = "idle" /\ pipe # <<>>
NextRequest == Head(pipe).req

Begin == Waiting /\ Accept(NextRequest) /\ UNCHANGED <<runtimeVars, pipe, now>>

\* The core refuses a typed intent in its preflight.
TypedRefusal(r) == r.cmd \in Refused /\ lease.phase = "active" /\ bound /\ Pending = NoOp /\ Fresh(r)

Turn ==
    /\ Waiting /\ NextRequest.kind \in Kinds \union {"status"} /\ Reject(NextRequest)
    /\ IF Head(pipe).live /\ TypedRefusal(NextRequest) THEN Declined(Tail(pipe)) ELSE AnswerError
    /\ UNCHANGED now

Repeat ==
    /\ Waiting /\ AnswerDuplicate(NextRequest) /\ Answer(Receipt)
    /\ UNCHANGED now

\* The two calls of performActivation.
Enter ==
    /\ Waiting /\ Entry(NextRequest) /\ UNCHANGED faults
    /\ LET r == NextRequest IN
       IF ~Head(pipe).live THEN Unheard(Tail(pipe))
       ELSE IF r.kind = "prepare"
       THEN /\ Send(Tail(pipe), [r EXCEPT !.kind = "activate"])
            /\ UNCHANGED <<phase, ctx, drain, queue, asked, told, clicks>>
       ELSE /\ phase' = "active" /\ Pump(Tail(pipe))
            /\ ctx' = [rev |-> Ack.state.rev, gen |-> Ack.gen, next |-> Ack.seq + 1, due |-> r.clock + 1]
            /\ UNCHANGED <<drain, asked, told, clicks>>
    /\ UNCHANGED now

\* A call may fail before or after its write.
EntryFails ==
    /\ Waiting /\ NextRequest.kind \in {"prepare", "activate"}
    /\ AnswerError
    /\ \/ Costs(IF Enterable(NextRequest) THEN 1 ELSE 0)
          /\ UNCHANGED <<diskVars, draft, hostUp, bound, coreVars, job>>
       \/ Costs(1) /\ Entry(NextRequest)
    /\ UNCHANGED now

Work ==
    /\ Stage \/ AppendWal \/ Install \/ Publish \/ Settle \/ WriteReceipt \/ Acknowledge \/ Rebind
    /\ UNCHANGED <<runtimeVars, pipe, now>>

\* The answer to a request, or the hello of a host that has recovered.
Done ==
    /\ Finish
    /\ IF job.req # NoRequest THEN Answer(Receipt)
       ELSE /\ ctx' = [rev |-> Ack.state.rev, gen |-> Ack.gen, next |-> Ack.seq + 1, due |-> Ack.clock + 1]
            /\ phase' = lease.phase
            /\ UNCHANGED <<pipe, doing, drain, queue, asked, told, clicks>>
    /\ UNCHANGED now

Stops == JobFails /\ AnswerError /\ UNCHANGED now

Dies ==
    /\ HostDies
    /\ phase' = IF phase = "booting" THEN "down" ELSE phase
    /\ UNCHANGED <<ctx, doing, drain, queue, asked, told, clicks, pipe, now>>

\* failAll, and requests made of a host that is gone.
Unavailable ==
    /\ ~hostUp /\ pipe # <<>> /\ AnswerError
    /\ UNCHANGED <<hostVars, now>>

\* The desktop is started again, by the player or through prepareDurableRestart.  A
\* lease that was never activated keeps the window shut.
Relaunch ==
    /\ phase \notin {"booting", "blocked", "refused"}
    /\ IF phase \in Uncertain \union {"faulted", "down"} \/ (~hostUp /\ pipe = <<>>)
       THEN Costs(0) ELSE Costs(1)
    /\ Boot
    /\ phase' = CASE lease.phase = "none"     -> "idle"
                  [] lease.phase = "prepared" -> "blocked"
                  [] Recoverable              -> "booting"
                  [] OTHER                    -> "refused"
    /\ ctx' = NoContext /\ doing' = NoRequest /\ drain' = NoDrain
    /\ queue' = <<>> /\ pipe' = <<>>
    /\ UNCHANGED <<asked, told, clicks, now>>

\* Before the lease.
Generic ==
    /\ GenericBegin \/ GenericCommit \/ Reopen
    /\ UNCHANGED <<runtimeVars, pipe, now>>

-----------------------------------------------------------------------------
Init ==
    /\ HostInit
    /\ phase = "idle" /\ ctx = NoContext /\ doing = NoRequest /\ drain = NoDrain
    /\ queue = <<>> /\ pipe = <<>> /\ now = 0
    /\ asked = {} /\ told = {} /\ clicks = 0

Player ==
    \/ Activate \/ SettleDue \/ HistoryStatus \/ PauseGame \/ ResumeGame \/ Retry
    \/ \E c \in Commands : Submit(c)
    \/ \E kind \in {"undo", "redo"} : Undo(kind)

Host == Begin \/ Turn \/ Repeat \/ Enter \/ Work \/ Done

Next ==
    \/ AdvanceClock \/ Player \/ Timeout
    \/ Host \/ EntryFails \/ Stops \/ Dies \/ Unavailable \/ Relaunch \/ Generic

Spec == Init /\ [][Next]_vars

\* The host and the pipe go on; a desktop that stopped is started again.  The timer
\* fires.  Nothing is assumed of the player's actions, of retries or of faults.
RelaunchStopped == phase \in Uncertain \union {"down"} /\ Relaunch

FairSpec ==
    /\ Spec
    /\ WF_vars(Begin \/ Turn \/ Repeat \/ Enter \/ Work \/ Done \/ Unavailable)
    /\ WF_vars(SettleDue) /\ SF_vars(RelaunchStopped)

-----------------------------------------------------------------------------
(* Properties *)

States == [rev: Nat, secs: Nat, cmds: SUBSET Commands, paused: BOOLEAN]
CmdOrNone == Commands \union {NoCommand}

AuthorityTypeOK ==
    /\ published.gen \in Nat /\ published.state \in States
    /\ session.gen \in Nat /\ session.state \in States
    /\ lease.phase \in {"none", "prepared", "active", "paused"}
    /\ Ack.state \in States /\ Ack.seq \in Nat /\ Ack.gen \in Nat /\ Ack.clock \in Nat
    /\ Pending.kind \in Kinds \union {"none"} /\ Pending.cmd \in CmdOrNone
    /\ hostUp \in BOOLEAN /\ bound \in BOOLEAN /\ unproved \in BOOLEAN
    /\ phase \in Phases /\ drain \in Int /\ Len(queue) <= QueueLimit
    /\ asked \subseteq Commands /\ told \subseteq asked
    /\ faults \in 0..MaxFaults /\ now \in 0..MaxNow /\ clicks \in 0..MaxClicks

\* Whatever fails or dies, the lease brackets the publication: the current checkpoint is
\* the acknowledged one, or the pending operation applied to it, once.
LeaseBracketsPublication ==
    lease.phase # "none" =>
        \/ published = [gen |-> Ack.gen, state |-> Ack.state]
        \/ /\ Pending # NoOp /\ published.gen = Ack.gen + 1
           /\ published.state = Apply(Pending, Ack.state)

\* The WAL never holds anything but the operation the lease calls pending, on top of the
\* acknowledged checkpoint: a restart can replay nothing else.
WalIsPending ==
    wal # NoOp => /\ wal = Pending
                  /\ published = [gen |-> Ack.gen, state |-> Ack.state]

\* While the authority runs, the session is at the acknowledged state or at the pending
\* operation's result, never on a third branch of the factory.
SessionNeverForks ==
    (lease.phase \in {"active", "paused"} /\ hostUp) =>
        session.state \in {Ack.state} \union
                          (IF Pending = NoOp THEN {} ELSE {Apply(Pending, Ack.state)})

\* A new host never refuses the lease a crash left behind.
RecoveryNeverRefuses == phase # "refused"

\* A command the player was told is settled is in what a restart would open, unless
\* the player used undo.
ToldCommandsSurvive == clicks = 0 => told \subseteq Recovered.state.cmds

\* The authority never settles a second the wall clock has not reached.
NeverAheadOfWallClock == lease.phase # "none" => Ack.clock + Pending.secs <= now

\* A quiet runtime and its host agree on revision, sequence and clock, as long as the
\* player made no history call.
RuntimeAgreesWhenQuiet ==
    (phase \in {"active", "paused"} /\ pipe = <<>> /\ clicks = 0) =>
        /\ ctx = [rev |-> Ack.state.rev, gen |-> Ack.gen, next |-> Ack.seq + 1, due |-> Ack.clock + 1]
        /\ Pending = NoOp

\* A second the runtime counts as settled was simulated and acknowledged.
NoSecondLost == phase \in {"active", "paused"} /\ lease.phase # "none" => ctx.due - 1 <= Ack.clock

\* An undo that was settled and reported, with no fault and no failed command (so no
\* restart) before it, can be redone.
UndoneCanBeRedone ==
    (/\ phase = "active" /\ pipe = <<>> /\ faults = 0 /\ told = asked
     /\ Ack.op.kind = "undo" /\ ctx.rev = Ack.state.rev) => redo # <<>>

\* Under the lease no other writer publishes: normal-main changes by the pending operation only.
NoGenericWriteUnderLease ==
    [][(lease.phase # "none" /\ published' # published) =>
          /\ Pending # NoOp /\ published'.state = Apply(Pending, Ack.state)]_vars

\* What a restart opens never goes back: neither the revision nor, without an undo, the
\* simulated seconds.
NothingUnsettled ==
    [][/\ Recovered'.state.rev >= Recovered.state.rev
       /\ Recovered'.state.secs >= Recovered.state.secs]_vars

\* A staged batch or command does not stay pending: the host finishes it, or the next
\* one does (a history call that failed waits for the player to repeat it).
PendingSettles == (Pending # NoOp /\ Pending.kind \notin {"undo", "redo"}) ~> (Pending = NoOp)

\* A runtime that stopped runs again.
StoppedRunsAgain == (phase \in Uncertain) ~> (phase \in {"active", "paused"})

\* The lease implements the player's ledger.
Ledger == INSTANCE PlayerLedger WITH
    phase <- lease.phase, secs <- Ack.state.secs, cmds <- Ack.state.cmds,
    clock <- Ack.clock, seq <- Ack.seq, rev <- Ack.state.rev

ImplementsLedger == Ledger!Spec
=============================================================================
