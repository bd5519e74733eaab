------------------------- MODULE ApiHandoffProxy -------------------------
(***************************************************************************)
(* The HTTP proxy in front of the cloud API (deploy/api-handoff-proxy.mjs). *)
(* The release switch publishes a proxy state (generation, mode, upstream   *)
(* port) in a file; the proxy polls it, applies newer generations, and      *)
(* reports its counters in a status file that the switch polls.  Mode       *)
(* "forward" passes requests on, "drain" queues those that need the writer, *)
(* "hold" queues all.                                                       *)
(*                                                                          *)
(* A handler of the event loop is one action; the steps between two         *)
(* handlers (file read, file write, upstream answer, timer, setImmediate)   *)
(* interleave freely.  The queue is a set: its order has no effect but the  *)
(* order in which asynchronous upstream requests are issued.                *)
(***************************************************************************)
EXTENDS Naturals, Sequences, FiniteSets

CONSTANTS
    Requests,           \* the requests clients may send
    Writers,            \* those for which requestRequiresWriter holds
    Ports,              \* upstream ports
    QueueLimit,         \* queueLimit
    MaxGeneration,      \* bound: generations published
    MaxWrites,          \* bound: status values captured and not written yet
    UnseenAborts        \* waits in which the proxy may not notice that a client left:
                        \* "answer", its request read to the end and the upstream's
                        \* answer not begun, and "retry", between two attempts

ASSUME WritersAssumption == Writers \subseteq Requests
ASSUME RequestsAssumption == IsFiniteSet(Requests)
ASSUME BoundsAssumption == QueueLimit \in Nat /\ MaxGeneration \in Nat \ {0} /\ MaxWrites \in Nat
ASSUME AbortsAssumption == UnseenAborts \subseteq {"answer", "retry"}

VARIABLES
    stateFile,              \* api-proxy.json
    statusFile,             \* api-proxy-status.json
    process,                \* "down", "up", "closing" or "stopping"
    state,                  \* the applied proxy state
    reading,                \* what applyState has read and not applied: 0 or 1 states
    statusTimer,            \* a deferred status write is scheduled
    writes,                 \* statusWrite: the captured values, in order
    phase,                  \* where each request is
    upstream,               \* selectedState.upstream.port of a forwarded request
    retried,                \* retryCount = 1
    activeRequests,
    activeWriterRequests

fileVars    == <<stateFile, statusFile>>
statusVars  == <<statusTimer, writes>>
requestVars == <<phase, upstream, retried, activeRequests, activeWriterRequests>>
proxyVars   == <<stateFile, statusFile, process, state, reading, statusTimer, writes,
                 phase, upstream, retried, activeRequests, activeWriterRequests>>

Modes      == {"forward", "drain", "hold"}
ProxyState == [generation : 1..MaxGeneration, mode : Modes, port : Ports]
Status     == [generation : 1..MaxGeneration, mode : Modes, port : Ports,
               active : Nat, writers : Nat]

Finished == {"answered", "failed", "full", "expired", "cancelled", "stopping", "leaked"}
Phases   == {"new", "queued", "sent", "unseen", "retry", "abandoned", "hung"} \union Finished

Queued   == {r \in Requests : phase[r] = "queued"}
\* The requests handed to an upstream and not settled.
InFlight == {r \in Requests : phase[r] \in {"sent", "unseen", "retry", "abandoned"}}

-----------------------------------------------------------------------------
(* Status reporting *)

StatusOf(s, a, w) ==
    [generation |-> s.generation, mode |-> s.mode, port |-> s.port, active |-> a, writers |-> w]

\* A deferred persistStatus: a timer captures the counters later.
ReportLater == statusTimer' = (process = "up") /\ UNCHANGED writes

\* The timer fires and captures the value to write.
StatusTimer ==
    /\ statusTimer
    /\ statusTimer' = FALSE
    /\ Len(writes) < MaxWrites
    /\ writes' = Append(writes, StatusOf(state, activeRequests, activeWriterRequests))
    /\ UNCHANGED <<fileVars, process, state, reading, requestVars>>

\* The next captured value reaches the file, or its write fails and is logged.
WriteStatus ==
    /\ writes # <<>>
    /\ writes' = Tail(writes)
    /\ statusFile' = Head(writes)
    /\ UNCHANGED <<stateFile, process, state, reading, statusTimer, requestVars>>

WriteStatusFails ==
    /\ writes # <<>>
    /\ writes' = Tail(writes)
    /\ UNCHANGED <<fileVars, process, state, reading, statusTimer, requestVars>>

-----------------------------------------------------------------------------
(* Requests *)

\* Mutant: a settled writer is not taken off the writers' counter.
SettleKeepingWriter(r, outcome) ==
    /\ phase' = [phase EXCEPT ![r] = outcome]
    /\ activeRequests' = IF activeRequests = 0 THEN 0 ELSE activeRequests - 1
    /\ ReportLater
    /\ UNCHANGED <<upstream, retried, activeWriterRequests>>

\* finishActive: the counters when r is settled.
Settle(r, outcome) ==
    /\ phase' = [phase EXCEPT ![r] = outcome]
    /\ activeRequests' = IF activeRequests = 0 THEN 0 ELSE activeRequests - 1
    /\ activeWriterRequests' = IF r \in Writers /\ activeWriterRequests > 0
                               THEN activeWriterRequests - 1 ELSE activeWriterRequests
    /\ ReportLater
    /\ UNCHANGED <<upstream, retried>>

\* forwardRequest for every request of S, to the upstream of state s.
Forward(S, s) ==
    /\ phase' = [r \in Requests |-> IF r \in S THEN "sent" ELSE phase[r]]
    /\ upstream' = [r \in Requests |-> IF r \in S THEN s.port ELSE upstream[r]]
    /\ activeRequests' = activeRequests + Cardinality(S)
    /\ activeWriterRequests' = activeWriterRequests + Cardinality(S \intersect Writers)
    /\ UNCHANGED retried

\* Mutant: a request that was never forwarded is settled.
EndsSettled(r, outcome) ==
    /\ phase' = [phase EXCEPT ![r] = outcome]
    /\ activeRequests' = activeRequests - 1
    /\ ReportLater
    /\ UNCHANGED <<upstream, retried, activeWriterRequests>>

\* A request ends where it is, without having been forwarded.
Ends(r, outcome) ==
    /\ phase' = [phase EXCEPT ![r] = outcome]
    /\ ReportLater
    /\ UNCHANGED <<upstream, retried, activeRequests, activeWriterRequests>>

\* Mutant: writers pass while the proxy drains.
MustQueueInHold(r, s) == s.mode = "hold"

MustQueue(r, s) == s.mode = "hold" \/ (s.mode = "drain" /\ r \in Writers)

\* createServer's handler, with queueRequest.  A proxy that is closing still takes
\* requests, and drops those it would forward without an answer.
Arrive(r) ==
    /\ process # "down"
    /\ phase[r] = "new"
    /\ IF MustQueue(r, state)
       THEN Ends(r, IF Cardinality(Queued) >= QueueLimit THEN "full" ELSE "queued")
       ELSE IF process = "up" THEN Forward({r}, state) /\ ReportLater
       ELSE Ends(r, "hung")
    /\ UNCHANGED <<fileVars, process, state, reading>>

\* The hold timer of a queued request.
HoldExpires(r) ==
    /\ phase[r] = "queued"
    /\ Ends(r, "expired")
    /\ UNCHANGED <<fileVars, process, state, reading>>

\* Nothing is done for r but to remember where it is.
Becomes(r, where) ==
    /\ phase' = [phase EXCEPT ![r] = where]
    /\ UNCHANGED <<statusVars, upstream, retried, activeRequests, activeWriterRequests>>

\* The client goes away: a queued request leaves the queue, an upstream request
\* is destroyed.  A request read to its end no longer tells, and one between its
\* two attempts has nothing to destroy.
ClientAborts(r) ==
    /\ \/ phase[r] = "queued" /\ Ends(r, "cancelled")
       \/ phase[r] = "sent" /\ Settle(r, "failed")
       \/ phase[r] = "sent" /\ "answer" \in UnseenAborts /\ Becomes(r, "unseen")
       \/ phase[r] = "retry" /\ "retry" \in UnseenAborts /\ Becomes(r, "abandoned")
    /\ UNCHANGED <<fileVars, process, state, reading>>

\* Piping an answer to a response that is closed already neither finishes it nor
\* closes it again.
UpstreamAnswers(r) ==
    /\ \/ phase[r] = "sent" /\ Settle(r, "answered")
       \/ phase[r] = "unseen" /\ Becomes(r, "leaked")
    /\ UNCHANGED <<fileVars, process, state, reading>>

UpstreamFails(r) ==
    /\ phase[r] \in {"sent", "unseen"}
    /\ Settle(r, "failed")
    /\ UNCHANGED <<fileVars, process, state, reading>>

\* Mutant: the second attempt is counted again.
StaleSocketRecounted(r) ==
    /\ phase[r] = "sent" /\ r \notin Writers /\ ~retried[r] /\ process = "up"
    /\ phase' = [phase EXCEPT ![r] = "retry"]
    /\ retried' = [retried EXCEPT ![r] = TRUE]
    /\ activeRequests' = activeRequests + 1
    /\ ReportLater
    /\ UNCHANGED <<fileVars, process, state, reading, upstream, activeWriterRequests>>

\* A pooled socket turned out to be closed: a read is tried once more.
StaleSocket(r) ==
    /\ phase[r] = "sent"
    /\ r \notin Writers
    /\ ~retried[r]
    /\ process = "up"
    /\ phase' = [phase EXCEPT ![r] = "retry"]
    /\ retried' = [retried EXCEPT ![r] = TRUE]
    /\ ReportLater
    /\ UNCHANGED <<fileVars, process, state, reading, upstream, activeRequests, activeWriterRequests>>

\* Mutant: the second attempt is never made.
RetryDropped(r) ==
    /\ phase[r] \in {"retry", "abandoned"}
    /\ Becomes(r, IF phase[r] = "abandoned" THEN "leaked" ELSE "hung")
    /\ UNCHANGED <<fileVars, process, state, reading>>

\* attempt(true): it returns without settling when the client is gone or the
\* proxy is closing; in the second case the client is left without an answer.
RetryFires(r) ==
    /\ phase[r] \in {"retry", "abandoned"}
    /\ Becomes(r, IF phase[r] = "abandoned" THEN "leaked"
                  ELSE IF process = "up" THEN "sent" ELSE "hung")
    /\ UNCHANGED <<fileVars, process, state, reading>>

-----------------------------------------------------------------------------
(* The proxy state *)

\* applyState reads the file, and continues when the read completes.
ReadState ==
    /\ process = "up"
    /\ reading = {}
    /\ reading' = {stateFile}
    /\ UNCHANGED <<fileVars, process, state, statusVars, requestVars>>

\* Mutant: only a forwarding proxy flushes its queue.
FlushedInForward(s) == {r \in Queued : s.mode = "forward"}

\* Mutant: the queue is left alone when a state is applied.
FlushesNothing(s) == {}

\* flushQueued: what the new state s lets through is forwarded.
Flushed(s) == {r \in Queued : ~MustQueue(r, s)}

ApplyState ==
    /\ reading # {}
    /\ reading' = {}
    /\ \E s \in reading :
          IF process # "up" \/ s.generation <= state.generation
          THEN UNCHANGED <<state, statusVars, requestVars>>
          ELSE /\ Len(writes) + 2 <= MaxWrites
               /\ state' = s
               /\ Forward(Flushed(s), s)
               /\ writes' = writes \o <<StatusOf(s, activeRequests, activeWriterRequests)>>
                    \o IF s.mode = "hold" THEN <<>>
                       ELSE <<StatusOf(s, activeRequests', activeWriterRequests')>>
               /\ UNCHANGED statusTimer
    /\ UNCHANGED <<fileVars, process>>

-----------------------------------------------------------------------------
(* The process *)

\* Every connection of the process is gone with it.
Disconnected ==
    [r \in Requests |-> IF phase[r] \in {"new"} \union Finished THEN phase[r] ELSE "failed"]

Start ==
    /\ process = "down"
    /\ process' = "up"
    /\ state' = stateFile
    /\ writes' = <<StatusOf(stateFile, 0, 0)>>
    /\ UNCHANGED <<fileVars, reading, statusTimer, requestVars>>

Stopped ==
    /\ process' = "down"
    /\ reading' = {}
    /\ statusTimer' = FALSE
    /\ phase' = Disconnected
    /\ activeRequests' = 0
    /\ activeWriterRequests' = 0
    /\ UNCHANGED <<stateFile, state, upstream, retried>>

Crash ==
    /\ process # "down"
    /\ writes' = <<>>
    /\ UNCHANGED statusFile
    /\ Stopped

\* close: no more reports; once the last of them is written, queued requests are
\* answered 503 and the server stops listening.  Active requests may finish.
Close ==
    /\ process = "up"
    /\ process' = "closing"
    /\ statusTimer' = FALSE
    /\ UNCHANGED <<fileVars, state, reading, writes, requestVars>>

Refuse ==
    /\ process = "closing"
    /\ writes = <<>>
    /\ process' = "stopping"
    /\ phase' = [r \in Requests |-> IF r \in Queued THEN "stopping" ELSE phase[r]]
    /\ UNCHANGED <<fileVars, state, reading, statusVars, upstream, retried,
                   activeRequests, activeWriterRequests>>

\* server.close calls back when no connection is left; a last status is written.
Exit ==
    /\ process = "stopping"
    /\ InFlight = {} /\ Queued = {}
    /\ \A r \in Requests : phase[r] # "hung"
    /\ writes' = <<>>
    /\ statusFile' = StatusOf(state, activeRequests, activeWriterRequests)
    /\ Stopped

\* The release switch publishes the next generation (setProxyMode).
PublishState(mode, port) ==
    /\ stateFile.generation < MaxGeneration
    /\ stateFile' = [generation |-> stateFile.generation + 1, mode |-> mode, port |-> port]
    /\ UNCHANGED <<statusFile, process, state, reading, statusVars, requestVars>>

-----------------------------------------------------------------------------

Init ==
    /\ stateFile \in {[generation |-> 1, mode |-> "forward", port |-> p] : p \in Ports}
    /\ statusFile = StatusOf(stateFile, 0, 0)
    /\ process = "up"
    /\ state = stateFile
    /\ reading = {}
    /\ statusTimer = FALSE
    /\ writes = <<>>
    /\ phase = [r \in Requests |-> "new"]
    /\ upstream = [r \in Requests |-> stateFile.port]
    /\ retried = [r \in Requests |-> FALSE]
    /\ activeRequests = 0
    /\ activeWriterRequests = 0

Next ==
    \/ StatusTimer \/ WriteStatus \/ WriteStatusFails
    \/ ReadState \/ ApplyState
    \/ Start \/ Crash \/ Close \/ Refuse \/ Exit
    \/ \E r \in Requests :
          \/ Arrive(r) \/ HoldExpires(r) \/ ClientAborts(r)
          \/ UpstreamAnswers(r) \/ UpstreamFails(r) \/ StaleSocket(r) \/ RetryFires(r)
    \/ \E mode \in Modes, port \in Ports : PublishState(mode, port)

Spec == Init /\ [][Next]_proxyVars

\* Timers and setImmediate run, the poll completes, an upstream answers or fails
\* what it was sent, and systemd restarts the process, and kills one that does
\* not stop.
Fairness ==
    /\ WF_proxyVars(StatusTimer) /\ WF_proxyVars(WriteStatus)
    /\ WF_proxyVars(ReadState) /\ WF_proxyVars(ApplyState)
    /\ WF_proxyVars(Start) /\ WF_proxyVars(Refuse)
    /\ WF_proxyVars(process = "stopping" /\ (Exit \/ Crash))
    /\ \A r \in Requests :
          /\ WF_proxyVars(HoldExpires(r))
          /\ WF_proxyVars(RetryFires(r))
          /\ WF_proxyVars(UpstreamAnswers(r) \/ UpstreamFails(r))

FairSpec == Spec /\ Fairness

-----------------------------------------------------------------------------
(* Properties *)

\* The files, the process and the requests are well typed.
TypeOK ==
    /\ stateFile \in ProxyState /\ statusFile \in Status
    /\ process \in {"down", "up", "closing", "stopping"}
    /\ state \in ProxyState
    /\ reading \subseteq ProxyState
    /\ statusTimer \in BOOLEAN
    /\ writes \in Seq(Status)
    /\ phase \in [Requests -> Phases]
    /\ upstream \in [Requests -> Ports]
    /\ retried \in [Requests -> BOOLEAN]
    /\ activeRequests \in Nat /\ activeWriterRequests \in Nat

\* The counters the proxy reports are the requests an upstream still has to
\* answer: a request is counted once when it is forwarded and once when it is
\* settled, retries, aborts and failures included.
CountsExact ==
    process = "up" =>
        /\ activeRequests = Cardinality(InFlight)
        /\ activeWriterRequests = Cardinality(InFlight \intersect Writers)

\* No request waits for a state that is already in force: whatever the applied
\* mode lets through has left the queue.
NothingLeftQueued ==
    process = "up" => \A r \in Queued : MustQueue(r, state)

\* What the release switch concludes from the status file is true when it reads
\* it, however late the file is: once the newest state is reported drained of
\* writers, or held and idle, no such request is in flight.
IdleReportsTrue ==
    statusFile.generation = stateFile.generation =>
        /\ statusFile.mode # "forward" /\ statusFile.writers = 0
              => InFlight \intersect Writers = {}
        /\ statusFile.mode = "hold" /\ statusFile.active = 0 => InFlight = {}

\* Every request a client waits for ends: it is answered, refused or expired.
Answered ==
    \A r \in Requests :
        phase[r] \in {"queued", "sent", "retry", "hung"} ~> phase[r] \in Finished

\* A proxy that stays in hold becomes idle, which the switch waits for before it
\* stops a writer, as long as no client has left unnoticed.
HoldDrains ==
    (process = "up" /\ state.mode = "hold")
        ~> \/ activeRequests = 0 \/ process # "up" \/ state.mode # "hold"
           \/ \E r \in Requests : phase[r] = "leaked"

\* A proxy that stays in hold becomes idle, whatever its clients do.
HoldAlwaysDrains ==
    (process = "up" /\ state.mode = "hold")
        ~> (activeRequests = 0 \/ process # "up" \/ state.mode # "hold")

=============================================================================
