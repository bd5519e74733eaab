-------------------------- MODULE ReleaseSwitch --------------------------
(***************************************************************************)
(* A switch of the cloud API release (deploy/release-switch.mjs) together   *)
(* with the hand-off proxy, the two systemd units that may run the API      *)
(* behind one writer lock, and systemd itself.                              *)
(*                                                                          *)
(* The switch is a root process that follows a plan: a sequence of steps,   *)
(* each one call with one durable or external effect.  Any step may throw,  *)
(* before or after its effect, which replaces the plan by a recovery plan;  *)
(* the process may die between any two steps.  What survives is the journal *)
(* (pending-switch.json), the switch state, the current links and the       *)
(* proxy's state file; the next run reconciles them.                        *)
(*                                                                          *)
(* A set of at most one element stands for a value that may be absent.      *)
(***************************************************************************)
EXTENDS ApiHandoffProxy

CONSTANTS
    Webs,           \* web releases
    Apis,           \* API releases
    Installed,      \* the current release before the first switch
    Targets,        \* what the operator may ask for: [web, api]
    MaxFaults       \* bound: errors, deaths, crashes and reboots

ASSUME TargetsAssumption == Targets \subseteq [web : Webs, api : Apis]
ASSUME InstalledAssumption == Installed \in [web : Webs, api : Apis, port : Ports, unit : {"legacy", "active"}]
ASSUME PortsAssumption == Ports = {"legacy", "blue", "green"}
ASSUME FaultsAssumption == MaxFaults \in Nat

VARIABLES
    journal,        \* pending-switch.json
    switchState,    \* switch-state.json: the current release
    webLink,        \* <webRoot>/current
    apiLink,        \* <apiRoot>/current
    running,        \* what each unit runs: an API release on a port
    enabled,        \* units started at boot
    starting,       \* units systemd is about to start by itself
    sw,             \* the switch process
    faults

hostVars   == <<running, enabled, starting>>
linkVars   == <<switchState, webLink, apiLink>>
switchVars == <<journal, switchState, webLink, apiLink, running, enabled, starting, sw, faults>>
vars       == <<proxyVars, switchVars>>

Units  == {"legacy", "active"}
Active == [web : Webs, api : Apis, port : Ports, unit : Units]
Pending == [phase : {"prepared", "publishing", "published", "recovering"},
            base : Active, target : Active]

Listening(p) == \E u \in Units : \E x \in running[u] : x.port = p

LockFree == \A u \in Units : running[u] = {}

-----------------------------------------------------------------------------
(* The units *)

\* Mutant: a recovering journal starts the target.
EntryOfTarget(u) ==
    IF u = "legacy" THEN [api |-> apiLink, port |-> "legacy"]
    ELSE LET chosen == IF journal = {} THEN switchState ELSE (CHOOSE j \in journal : TRUE).target
         IN [api |-> chosen.api, port |-> chosen.port]

\* What the unit's start script would run: api-active-entry.sh follows the journal
\* if there is one; the legacy unit runs the current link.
Entry(u) ==
    IF u = "legacy" THEN [api |-> apiLink, port |-> "legacy"]
    ELSE LET chosen == IF journal = {} THEN switchState
                       ELSE LET j == CHOOSE j \in journal : TRUE
                            IN IF j.phase = "recovering" THEN j.base ELSE j.target
         IN [api |-> chosen.api, port |-> chosen.port]

\* systemctl start: nothing if the unit runs; exit 75, which is not retried, if
\* another unit holds the writer lock.
StartUnit(u) ==
    /\ running' = IF LockFree THEN [running EXCEPT ![u] = {Entry(u)}] ELSE running
    /\ starting' = starting \ {u}
    /\ UNCHANGED enabled

StopUnit(u) ==
    /\ running' = [running EXCEPT ![u] = {}]
    /\ starting' = starting \ {u}
    /\ UNCHANGED enabled

-----------------------------------------------------------------------------
(* Steps and plans *)

SetProxy(mode, to) == <<[do |-> "setProxy", mode |-> mode, port |-> to.port],
                        [do |-> "waitProxy"]>>
Stop(u)      == <<[do |-> "stop", unit |-> u]>>
Begin(u)     == <<[do |-> "start", unit |-> u]>>
Ready(p)     == <<[do |-> "waitReady", port |-> p]>>
\* Mutant: the journal is removed where it should advance to "publishing".
WriteOrClear(ph) == IF ph = "publishing" THEN <<[do |-> "clear"]>>
                    ELSE <<[do |-> "journal", phase |-> ph]>>

Write(ph)    == <<[do |-> "journal", phase |-> ph]>>
Mark(flag)   == <<[do |-> "mark", flag |-> flag]>>

\* Mutant: the links are moved, the switch state is not.
PublishLinks(to) == <<[do |-> "webLink", web |-> to.web], [do |-> "apiLink", api |-> to.api]>>

Publish(to)  == <<[do |-> "webLink", web |-> to.web], [do |-> "apiLink", api |-> to.api],
                  [do |-> "switchState", to |-> to]>>
Enable(u)    == <<[do |-> "enable", unit |-> u]>>
Disable(u)   == <<[do |-> "disable", unit |-> u]>>

\* Mutant: the wait before a stop ignores the readers.
WaitWriters == <<[do |-> "waitWritersIdle"]>>

WaitIdle     == <<[do |-> "waitIdle"]>>
WritersIdle  == <<[do |-> "waitWritersIdle"]>>
WaitLock     == <<[do |-> "waitLock"]>>
Clear        == <<[do |-> "clear"]>>

When(cond, plan) == IF cond THEN plan ELSE <<>>

\* The release the writer is moved back to: always on the active unit.
OnActiveUnit(a) == [a EXCEPT !.unit = "active"]

\* Mutant: an interrupted switch is undone without stopping its writer.
EnsureProxyBeside(current, interrupted) ==
    <<[do |-> "waitProxy"]>> \o SetProxy("hold", current) \o WaitIdle \o Publish(current)
        \o Begin(current.unit) \o Ready(current.port) \o SetProxy("forward", current) \o Clear

\* ensureProxy: the proxy must forward to the current release; an interrupted
\* switch is first finished, or undone, behind a held proxy.
EnsureProxy(current, interrupted) ==
    LET settled == stateFile.mode = "forward" /\ stateFile.port = current.port
        foreign == {j \in interrupted : j.target # current}
        moved   == {j \in interrupted : j.base.unit # current.unit}
        stopped == {j.target.unit : j \in foreign} \union {j.base.unit : j \in moved}
    IN  <<[do |-> "waitProxy"]>>
        \o When(interrupted # {} \/ ~settled,
              SetProxy("hold", current) \o WaitIdle
              \o When("active" \in stopped, Stop("active"))
              \o When("legacy" \in stopped, Stop("legacy"))
              \o When(current.unit \in stopped, WaitLock)
              \o Publish(current) \o Begin(current.unit) \o Ready(current.port)
              \o SetProxy("forward", current) \o Clear)

\* The body of runReleaseSwitch after ensureProxy.
SwitchTo(base, target) ==
    LET moves == base.api # target.api
    IN  When(moves,
              SetProxy("drain", base) \o Mark("drained") \o WritersIdle
              \o SetProxy("hold", base) \o WaitIdle \o Write("prepared")
              \o Mark("oldStop") \o Stop(base.unit) \o WaitLock
              \o Mark("newStart") \o Begin(target.unit) \o Ready(target.port))
        \o Mark("published")
        \o When(moves, Write("publishing"))
        \o Publish(target)
        \o When(moves,
              Write("published")
              \o SetProxy("forward", target) \o Enable(target.unit)
              \o When(base.unit # target.unit, Disable(base.unit)) \o Clear)

\* Mutant: the links and the state are not restored.
RecoveryKeepingLinks(s) ==
    LET restored == OnActiveUnit(s.state)
    IN  When("drained" \in s.marks, SetProxy("hold", s.state) \o WaitIdle)
        \o When("newStart" \in s.marks, Stop(s.target.unit))
        \o When("oldStop" \in s.marks, Write("recovering") \o Stop(s.state.unit) \o Enable("active")
                                      \o Begin("active") \o Ready(restored.port))
        \o When("drained" \in s.marks, SetProxy("forward", restored)) \o Clear

\* The catch block.
Recovery(s) ==
    LET oldStop   == "oldStop" \in s.marks
        drained   == "drained" \in s.marks
        published == "published" \in s.marks
        legacy    == s.state.unit # "active"
        restored  == IF oldStop THEN OnActiveUnit(s.state) ELSE s.state
    IN  When(oldStop /\ s.pending, Write("recovering"))
        \o When(drained, SetProxy("hold", s.state) \o WaitIdle)
        \o When("newStart" \in s.marks, Stop(s.target.unit))
        \o When(oldStop, When(legacy, Stop(s.state.unit)) \o Enable("active")
                         \o When(legacy, Disable(s.state.unit)))
        \o When(published \/ oldStop, Publish(restored))
        \o When(oldStop, Begin("active") \o Ready(restored.port))
        \o When(drained, SetProxy("forward", restored))
        \o When(s.interrupted = {} \/ "recovered" \in s.marks, Clear)

-----------------------------------------------------------------------------
(* The switch process *)

Continue(s) == IF Len(s.todo) <= 1 THEN {} ELSE {[s EXCEPT !.todo = Tail(s.todo)]}

\* An exception: the recovery plan, or the end if that was the plan that failed.
Raise(s) ==
    LET plan == Recovery(s)
    IN  IF "recovering" \in s.marks \/ plan = <<>> THEN {}
        ELSE {[s EXCEPT !.todo = plan, !.marks = @ \union {"recovering"}]}

Fault == faults < MaxFaults /\ faults' = faults + 1

\* A call that had its effect returns, and the process goes on as t; or it throws.
Returns(s, t) ==
    \/ sw' = Continue(t) /\ UNCHANGED faults
    \/ Fault /\ sw' = Raise(s)

\* The process goes on as t after a step that cannot fail once it had its effect.
Proceeds(t) == sw' = Continue(t) /\ UNCHANGED faults

At(s, kind) == Head(s.todo).do = kind

\* Another generation of the proxy state: the one after the last acknowledged.
SetsProxy(s) ==
    /\ At(s, "setProxy")
    /\ s.proxy.generation < MaxGeneration
    /\ stateFile' = [generation |-> s.proxy.generation + 1,
                     mode |-> Head(s.todo).mode, port |-> Head(s.todo).port]
    /\ Proceeds(s)
    /\ UNCHANGED <<statusFile, process, state, reading, statusVars, requestVars,
                   journal, linkVars, hostVars>>

\* waitProxy: the status file shows the state just published, or a later one of
\* the same mode and upstream.
Acknowledged ==
    /\ statusFile.generation >= stateFile.generation
    /\ statusFile.mode = stateFile.mode
    /\ statusFile.port = stateFile.port

Waits(s) ==
    /\ \/ At(s, "waitProxy") /\ Acknowledged /\ Proceeds([s EXCEPT !.proxy = stateFile])
       \/ At(s, "waitIdle") /\ statusFile.active = 0 /\ Proceeds(s)
       \/ At(s, "waitWritersIdle") /\ statusFile.writers = 0 /\ Proceeds(s)
       \/ At(s, "waitLock") /\ LockFree /\ Proceeds(s)
       \/ At(s, "waitReady") /\ Listening(Head(s.todo).port) /\ Proceeds(s)
    /\ UNCHANGED <<proxyVars, journal, linkVars, hostVars>>

\* The proxy has applied another state of this generation, or of a later one: it
\* takes the published one for conflicting or old.
Ignores ==
    /\ process = "up" /\ state.generation >= stateFile.generation
    /\ <<state.mode, state.port>> # <<stateFile.mode, stateFile.port>>

\* A wait that nothing under way can end times out: the lock is held, the API is
\* not there, or the proxy ignores the published state.
Hopeless(s) ==
    \/ At(s, "waitLock") /\ ~LockFree
    \/ At(s, "waitReady") /\ ~Listening(Head(s.todo).port)
    \/ At(s, "waitProxy") /\ Ignores

TimesOut(s) ==
    /\ Hopeless(s)
    /\ sw' = Raise(s)
    /\ UNCHANGED <<proxyVars, journal, linkVars, hostVars, faults>>

\* A call throws without an effect, or a wait times out although it would end: the
\* proxy applies the published state, of whatever mode, only after proxyTimeoutMs.
Throws(s) ==
    /\ Fault
    /\ sw' = Raise(s)
    /\ UNCHANGED <<proxyVars, journal, linkVars, hostVars>>

ControlsUnit(s) ==
    /\ \/ At(s, "stop") /\ StopUnit(Head(s.todo).unit)
       \/ At(s, "start") /\ StartUnit(Head(s.todo).unit)
       \/ /\ At(s, "enable")
          /\ enabled' = enabled \union {Head(s.todo).unit}
          /\ UNCHANGED <<running, starting>>
       \/ /\ At(s, "disable")
          /\ enabled' = enabled \ {Head(s.todo).unit}
          /\ UNCHANGED <<running, starting>>
    /\ Returns(s, s)
    /\ UNCHANGED <<proxyVars, journal, linkVars>>

\* Mutant: a phase is written beside the one before it.
WritesJournalBeside(s) ==
    /\ At(s, "journal")
    /\ journal' = journal \union {[phase |-> Head(s.todo).phase, base |-> s.state, target |-> s.target]}
    /\ Proceeds(s)
    /\ UNCHANGED <<proxyVars, linkVars, hostVars>>

WritesJournal(s) ==
    /\ \/ /\ At(s, "journal")
          /\ IF "recovered" \in s.marks
             THEN /\ journal' = {[phase |-> Head(s.todo).phase, base |-> s.state, target |-> s.target]}
                  /\ Returns(s, [s EXCEPT !.pending = TRUE])
             ELSE /\ journal' = s.interrupted
                  /\ Returns(s, s)
       \/ /\ At(s, "clear")
          /\ journal' = {}
          /\ Proceeds(s)
    /\ UNCHANGED <<proxyVars, linkVars, hostVars>>

\* publishState and its reverse.
PublishesLinks(s) ==
    /\ \/ /\ At(s, "webLink")
          /\ webLink' = Head(s.todo).web
          /\ Proceeds(s)
          /\ UNCHANGED <<apiLink, switchState>>
       \/ /\ At(s, "apiLink")
          /\ apiLink' = Head(s.todo).api
          /\ Proceeds(s)
          /\ UNCHANGED <<webLink, switchState>>
       \/ /\ At(s, "switchState")
          /\ switchState' = Head(s.todo).to
          /\ Returns(s, s)
          /\ UNCHANGED <<webLink, apiLink>>
    /\ UNCHANGED <<proxyVars, journal, hostVars>>

Marks(s) ==
    /\ At(s, "mark")
    /\ LET flag == Head(s.todo).flag
       IN  Proceeds([s EXCEPT !.marks = @ \union {flag},
                              !.todo = @ \o When(flag = "recovered", SwitchTo(s.state, s.target))])
    /\ UNCHANGED <<proxyVars, journal, linkVars, hostVars>>

Step(s) ==
    \/ SetsProxy(s) \/ Waits(s) \/ TimesOut(s) \/ ControlsUnit(s)
    \/ WritesJournal(s) \/ PublishesLinks(s) \/ Marks(s)

-----------------------------------------------------------------------------
(* A run of the command *)

SameLocation(a, b) == a.web = b.web /\ a.api = b.api /\ a.port = b.port

\* reconcileInterruptedSwitch refuses what the journal cannot explain.
Explained ==
    IF journal = {} THEN switchState.web = webLink /\ switchState.api = apiLink
    ELSE \A j \in journal :
            /\ webLink \in {j.base.web, j.target.web}
            /\ apiLink \in {j.base.api, j.target.api}
            /\ SameLocation(switchState, j.base) \/ SameLocation(switchState, j.target)

\* The interrupted switch reached its commit point, and everything agrees with it.
Committed(j) ==
    /\ j.phase = "published"
    /\ switchState = j.target
    /\ webLink = j.target.web /\ apiLink = j.target.api

\* The release to go on from: the current one, or the outcome of the interrupted
\* switch.
Reconciled ==
    IF journal = {} THEN switchState
    ELSE LET j == CHOOSE j \in journal : TRUE
         IN  IF Committed(j) THEN j.target ELSE OnActiveUnit(j.base)

\* publicTarget: another API release moves to the inactive slot.
PublicTarget(t, base) ==
    IF t.api = base.api THEN [base EXCEPT !.web = t.web]
    ELSE [web |-> t.web, api |-> t.api, unit |-> "active",
          port |-> IF base.port = "blue" THEN "green" ELSE "blue"]

Run(t) ==
    LET base        == Reconciled
        target      == PublicTarget(t, base)
        interrupted == {IF Committed(j) THEN j ELSE [j EXCEPT !.phase = "recovering"] : j \in journal}
        noOp        == t.web = base.web /\ t.api = base.api
        plan        == When(interrupted # journal, Write("recovering"))
                       \o EnsureProxy(base, interrupted)
                       \o When(~noOp, Mark("recovered"))
    IN  /\ sw = {}
        /\ Explained
        /\ ~(noOp /\ interrupted = {})
        /\ sw' = {[todo |-> plan, state |-> base, target |-> target,
                   interrupted |-> interrupted, pending |-> FALSE, proxy |-> stateFile,
                   marks |-> {}]}
        /\ UNCHANGED <<proxyVars, journal, linkVars, hostVars, faults>>

-----------------------------------------------------------------------------
(* systemd, the API processes and the host *)

SystemdStarts(u) ==
    /\ u \in starting
    /\ StartUnit(u)
    /\ UNCHANGED <<proxyVars, journal, linkVars, sw, faults>>

\* Restart=on-failure.
ApiCrashes(u) ==
    /\ running[u] # {}
    /\ Fault
    /\ running' = [running EXCEPT ![u] = {}]
    /\ starting' = starting \union {u}
    /\ UNCHANGED <<proxyVars, journal, linkVars, enabled, sw>>

SwitchDies ==
    /\ sw # {}
    /\ Fault
    /\ sw' = {}
    /\ UNCHANGED <<proxyVars, journal, linkVars, hostVars>>

\* The active unit requires the proxy: systemd may restart it with the proxy.
ProxyCrashes ==
    /\ Fault
    /\ Crash
    /\ \/ UNCHANGED <<running, starting>>
       \/ /\ running["active"] # {}
          /\ running' = [running EXCEPT !["active"] = {}]
          /\ starting' = starting \union {"active"}
    /\ UNCHANGED <<journal, linkVars, enabled, sw>>

\* Files survive an orderly reboot; enabled units start again, in any order.
HostReboots ==
    /\ Fault
    /\ Crash
    /\ running' = [u \in Units |-> {}]
    /\ starting' = enabled
    /\ sw' = {}
    /\ UNCHANGED <<journal, linkVars, enabled>>

\* The proxy, behind which a request succeeds if an API listens on its port.
ProxyStep ==
    /\ \/ StatusTimer \/ WriteStatus \/ ReadState \/ ApplyState \/ Start
       \/ \E r \in Requests :
             \/ Arrive(r) \/ HoldExpires(r)
             \/ Listening(upstream[r]) /\ UpstreamAnswers(r)
             \/ ~Listening(upstream[r]) /\ UpstreamFails(r)
    /\ UNCHANGED switchVars

-----------------------------------------------------------------------------

\* The installed release runs and serves.
SwitchInit ==
    /\ Init
    /\ stateFile.port = Installed.port
    /\ switchState = Installed
    /\ webLink = Installed.web /\ apiLink = Installed.api
    /\ running = [u \in Units |-> IF u = Installed.unit
                                  THEN {[api |-> Installed.api, port |-> Installed.port]} ELSE {}]
    /\ enabled = {Installed.unit}
    /\ starting = {}
    /\ journal = {}
    /\ sw = {}
    /\ faults = 0

SwitchStep == \E s \in sw : Step(s)

SwitchNext ==
    \/ ProxyStep
    \/ SwitchStep
    \/ \E s \in sw : Throws(s)
    \/ SwitchDies \/ ProxyCrashes \/ HostReboots
    \/ \E t \in Targets : Run(t)
    \/ \E u \in Units : SystemdStarts(u) \/ ApiCrashes(u)

SwitchSpec == SwitchInit /\ [][SwitchNext]_vars

\* The switch and the proxy run on, systemd starts what it has to, an API answers,
\* and the operator repeats the command until it has nothing left to do.
SwitchFairness ==
    /\ WF_vars(SwitchStep)
    /\ WF_vars(\E t \in Targets : Run(t))
    /\ \A u \in Units : WF_vars(SystemdStarts(u))
    /\ WF_vars(StatusTimer /\ UNCHANGED switchVars)
    /\ WF_vars(WriteStatus /\ UNCHANGED switchVars)
    /\ WF_vars(ReadState /\ UNCHANGED switchVars)
    /\ WF_vars(ApplyState /\ UNCHANGED switchVars)
    /\ WF_vars(Start /\ UNCHANGED switchVars)
    /\ \A r \in Requests :
          WF_vars((UpstreamAnswers(r) \/ UpstreamFails(r)) /\ ProxyStep)

FairSwitchSpec == SwitchSpec /\ SwitchFairness

-----------------------------------------------------------------------------
(* Properties *)

\* The files, the units and the switch process are well typed.
SwitchTypeOK ==
    /\ TypeOK
    /\ journal \subseteq Pending /\ Cardinality(journal) <= 1
    /\ switchState \in Active /\ webLink \in Webs /\ apiLink \in Apis
    /\ running \in [Units -> SUBSET [api : Apis, port : Ports]]
    /\ enabled \subseteq Units /\ starting \subseteq Units
    /\ Cardinality(sw) <= 1
    /\ faults \in 0..MaxFaults

\* The switch never stops an API a proxied request is still waiting for, whichever
\* of its three plans does it and however late the proxy's status is.
StopsIdle ==
    [][\A u \in Units, r \in Requests :
          (\E x \in running[u] : x.port = upstream[r]) /\ running'[u] = {} /\ faults' = faults
             => r \notin InFlight]_vars

\* A request is never served by a release that is not the published one: the
\* proxy reaches a target only after it was published, and the old release again
\* only after it was restored.
ServesPublished ==
    \A r \in InFlight, u \in Units :
        \A x \in running[u] : x.port = upstream[r] => x.api = switchState.api

\* Between runs, and without a journal, the API that runs, if one does, is the published
\* release on the published port.
RunsPublished ==
    sw = {} /\ journal = {} =>
        \A u \in Units : running[u] \subseteq {[api |-> switchState.api, port |-> switchState.port]}

\* The unit that a reboot starts is the one the switch state names.
BootsPublished ==
    sw = {} /\ journal = {} => enabled = {switchState.unit}

\* An interrupted or failed switch can be finished: repeating the command removes
\* the journal.
Finishable == journal # {} ~> journal = {}

Healthy ==
    /\ sw = {} /\ journal = {}
    /\ process = "up" /\ state = stateFile /\ state.mode = "forward"
    /\ Listening(state.port)
    /\ webLink = switchState.web /\ apiLink = switchState.api /\ state.port = switchState.port

\* The recovery published a state under the generation of one that was acknowledged too
\* late: until it is restarted the proxy ignores it, and every run of the command fails.
Stuck == Ignores /\ journal # {}

\* After the last fault the installation ends up forwarding to a running, fully published
\* release, whatever the faults interrupted, or the proxy ignores the recovery's state.
Converges == <>[]Healthy \/ <>[]Stuck

=============================================================================
