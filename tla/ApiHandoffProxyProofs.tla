------------------------ MODULE ApiHandoffProxyProofs ------------------------
(***************************************************************************)
(* Proofs, for every value of the constants, of properties TLC checks on   *)
(* small instances of ApiHandoffProxy.                                     *)
(***************************************************************************)
EXTENDS ApiHandoffProxy, TLAPS, FiniteSetTheorems, SequenceTheorems

-----------------------------------------------------------------------------
(* Type correctness *)

\* A status captured from a typed state and counters.
LEMMA StatusOfType ==
  ASSUME NEW s \in ProxyState, NEW a \in Nat, NEW w \in Nat
  PROVE  StatusOf(s, a, w) \in Status
  BY DEF StatusOf, ProxyState, Status

\* Forwarding counts members of a set of requests.
LEMMA RequestSetsFinite ==
  ASSUME NEW S \in SUBSET Requests
  PROVE  /\ IsFiniteSet(S) /\ Cardinality(S) \in Nat
         /\ IsFiniteSet(S \intersect Writers) /\ Cardinality(S \intersect Writers) \in Nat
  BY RequestsAssumption, FS_Subset, FS_CardinalityType

\* What the handlers that end or forward requests do to the typed state.
LEMMA SettleType ==
  ASSUME TypeOK, NEW r \in Requests, NEW outcome \in Phases, Settle(r, outcome)
  PROVE  /\ phase' \in [Requests -> Phases] /\ upstream' \in [Requests -> Ports]
         /\ retried' \in [Requests -> BOOLEAN]
         /\ activeRequests' \in Nat /\ activeWriterRequests' \in Nat
         /\ statusTimer' \in BOOLEAN /\ writes' = writes
  BY DEF TypeOK, Settle, ReportLater

LEMMA ForwardType ==
  ASSUME TypeOK, NEW S \in SUBSET Requests, NEW s \in ProxyState, Forward(S, s)
  PROVE  /\ phase' \in [Requests -> Phases] /\ upstream' \in [Requests -> Ports]
         /\ retried' \in [Requests -> BOOLEAN]
         /\ activeRequests' \in Nat /\ activeWriterRequests' \in Nat
  <1>1. "sent" \in Phases /\ s.port \in Ports
    BY DEF Phases, ProxyState
  <1>2. Cardinality(S) \in Nat /\ Cardinality(S \intersect Writers) \in Nat
    BY RequestSetsFinite
  <1> QED
    BY <1>1, <1>2 DEF TypeOK, Forward

LEMMA EndsType ==
  ASSUME TypeOK, NEW r \in Requests, NEW outcome \in Phases, Ends(r, outcome)
  PROVE  /\ phase' \in [Requests -> Phases] /\ upstream' \in [Requests -> Ports]
         /\ retried' \in [Requests -> BOOLEAN]
         /\ activeRequests' \in Nat /\ activeWriterRequests' \in Nat
         /\ statusTimer' \in BOOLEAN /\ writes' = writes
  BY DEF TypeOK, Ends, ReportLater

LEMMA BecomesType ==
  ASSUME TypeOK, NEW r \in Requests, NEW where \in Phases, Becomes(r, where)
  PROVE  /\ phase' \in [Requests -> Phases] /\ upstream' \in [Requests -> Ports]
         /\ retried' \in [Requests -> BOOLEAN]
         /\ activeRequests' \in Nat /\ activeWriterRequests' \in Nat
         /\ statusTimer' \in BOOLEAN /\ writes' = writes
  BY DEF TypeOK, Becomes, statusVars

LEMMA InitTypeOK == Init => TypeOK
  <1> SUFFICES ASSUME Init PROVE TypeOK
    OBVIOUS
  <1>1. stateFile \in ProxyState
    BY BoundsAssumption DEF Init, ProxyState, Modes
  <1>2. StatusOf(stateFile, 0, 0) \in Status
    BY <1>1, StatusOfType
  <1>3. "new" \in Phases /\ stateFile.port \in Ports
    BY <1>1 DEF Phases, ProxyState
  <1> QED
    BY <1>1, <1>2, <1>3, EmptySeq DEF Init, TypeOK

LEMMA NextTypeOK == TypeOK /\ [Next]_proxyVars => TypeOK'
  <1> SUFFICES ASSUME TypeOK, [Next]_proxyVars PROVE TypeOK'
    OBVIOUS
  <1> USE DEF fileVars, statusVars, requestVars
  <1>1. CASE StatusTimer
    <2>1. StatusOf(state, activeRequests, activeWriterRequests) \in Status
      BY StatusOfType DEF TypeOK
    <2>2. writes' \in Seq(Status)
      BY <1>1, <2>1, AppendProperties DEF StatusTimer, TypeOK
    <2> QED
      BY <1>1, <2>2 DEF StatusTimer, TypeOK
  <1>2. CASE WriteStatus \/ WriteStatusFails
    <2>1. Head(writes) \in Status /\ writes' \in Seq(Status)
      BY <1>2, HeadTailProperties DEF WriteStatus, WriteStatusFails, TypeOK
    <2> QED
      BY <1>2, <2>1 DEF WriteStatus, WriteStatusFails, TypeOK
  <1>3. CASE ReadState
    BY <1>3 DEF ReadState, TypeOK
  <1>4. CASE ApplyState
    <2>1. PICK s \in reading :
             IF process # "up" \/ s.generation <= state.generation
             THEN UNCHANGED <<state, statusVars, requestVars>>
             ELSE /\ Len(writes) + 2 <= MaxWrites
                  /\ state' = s
                  /\ Forward(Flushed(s), s)
                  /\ writes' = writes \o <<StatusOf(s, activeRequests, activeWriterRequests)>>
                       \o IF s.mode = "hold" THEN <<>>
                          ELSE <<StatusOf(s, activeRequests', activeWriterRequests')>>
                  /\ UNCHANGED statusTimer
      BY <1>4 DEF ApplyState
    <2>2. s \in ProxyState /\ reading' = {} /\ UNCHANGED <<stateFile, statusFile, process>>
      BY <1>4 DEF ApplyState, TypeOK
    <2>3. CASE process # "up" \/ s.generation <= state.generation
      BY <2>1, <2>2, <2>3 DEF TypeOK
    <2>4. CASE ~(process # "up" \/ s.generation <= state.generation)
      <3>1. Flushed(s) \in SUBSET Requests /\ Forward(Flushed(s), s)
        BY <2>1, <2>4 DEF Flushed, Queued
      <3>2. /\ phase' \in [Requests -> Phases] /\ upstream' \in [Requests -> Ports]
            /\ retried' \in [Requests -> BOOLEAN]
            /\ activeRequests' \in Nat /\ activeWriterRequests' \in Nat
        BY <2>2, <3>1, ForwardType
      <3>3. /\ StatusOf(s, activeRequests, activeWriterRequests) \in Status
            /\ StatusOf(s, activeRequests', activeWriterRequests') \in Status
        BY <2>2, <3>2, StatusOfType DEF TypeOK
      <3> DEFINE first == <<StatusOf(s, activeRequests, activeWriterRequests)>>
                 second == IF s.mode = "hold" THEN <<>>
                           ELSE <<StatusOf(s, activeRequests', activeWriterRequests')>>
      <3>4. first \in Seq(Status) /\ second \in Seq(Status)
        BY <3>3
      <3>5. writes' = writes \o first \o second /\ writes \in Seq(Status)
        BY <2>1, <2>4 DEF TypeOK
      <3>6. writes' \in Seq(Status)
        <4> HIDE DEF first, second
        <4> QED BY <3>4, <3>5, ConcatProperties
      <3> QED
        BY <2>1, <2>2, <2>4, <3>2, <3>6 DEF TypeOK
    <2> QED
      BY <2>3, <2>4
  <1>5. CASE Start
    <2>1. StatusOf(stateFile, 0, 0) \in Status
      BY StatusOfType DEF TypeOK
    <2> QED
      BY <1>5, <2>1 DEF Start, TypeOK
  <1>6. ASSUME Stopped, statusFile' \in Status, writes' = <<>> PROVE TypeOK'
    <2>1. Disconnected \in [Requests -> Phases]
      BY DEF Disconnected, TypeOK, Phases, Finished
    <2>2. writes' \in Seq(Status)
      BY <1>6, EmptySeq
    <2>3. /\ phase' \in [Requests -> Phases]
          /\ process' = "down" /\ reading' = {} /\ statusTimer' = FALSE
          /\ activeRequests' = 0 /\ activeWriterRequests' = 0
          /\ UNCHANGED <<stateFile, state, upstream, retried>>
      BY <1>6, <2>1 DEF Stopped
    <2> QED
      BY <1>6, <2>2, <2>3 DEF TypeOK
  <1>7. CASE Crash
    <2>1. Stopped /\ statusFile' = statusFile /\ writes' = <<>>
      BY <1>7 DEF Crash
    <2> QED
      BY <1>6, <2>1 DEF TypeOK
  <1>8. CASE Close
    BY <1>8 DEF Close, TypeOK
  <1>9. CASE Refuse
    <2>1. phase' \in [Requests -> Phases]
      BY <1>9 DEF Refuse, TypeOK, Phases, Finished
    <2> QED
      BY <1>9, <2>1 DEF Refuse, TypeOK
  <1>10. CASE Exit
    <2>1. StatusOf(state, activeRequests, activeWriterRequests) \in Status
      BY StatusOfType DEF TypeOK
    <2> QED
      BY <1>6, <1>10, <2>1 DEF Exit
  <1>11. CASE \E r \in Requests :
                \/ Arrive(r) \/ HoldExpires(r) \/ ClientAborts(r)
                \/ UpstreamAnswers(r) \/ UpstreamFails(r) \/ StaleSocket(r) \/ RetryFires(r)
    <2>1. PICK r \in Requests :
                \/ Arrive(r) \/ HoldExpires(r) \/ ClientAborts(r)
                \/ UpstreamAnswers(r) \/ UpstreamFails(r) \/ StaleSocket(r) \/ RetryFires(r)
      BY <1>11
    <2>2. UNCHANGED <<stateFile, statusFile, process, state, reading>>
      BY <2>1 DEF Arrive, HoldExpires, ClientAborts, UpstreamAnswers, UpstreamFails,
                  StaleSocket, RetryFires
    <2> DEFINE Typed ==
                 /\ phase' \in [Requests -> Phases] /\ upstream' \in [Requests -> Ports]
                 /\ retried' \in [Requests -> BOOLEAN]
                 /\ activeRequests' \in Nat /\ activeWriterRequests' \in Nat
                 /\ statusTimer' \in BOOLEAN /\ writes' = writes
    <2>3. CASE Arrive(r)
      <3>1. CASE MustQueue(r, state) \/ process # "up"
        <4>1. \E outcome \in Phases : Ends(r, outcome)
          BY <2>3, <3>1 DEF Arrive, Phases, Finished
        <4> QED
          BY <2>2, <4>1, EndsType DEF TypeOK
      <3>2. CASE ~(MustQueue(r, state) \/ process # "up")
        <4>1. Forward({r}, state) /\ ReportLater
          BY <2>3, <3>2 DEF Arrive
        <4>2. {r} \in SUBSET Requests /\ state \in ProxyState
          BY DEF TypeOK
        <4> QED
          BY <2>2, <4>1, <4>2, ForwardType DEF TypeOK, ReportLater
      <3> QED
        BY <3>1, <3>2
    <2>4. CASE HoldExpires(r)
      <3>1. "expired" \in Phases /\ Ends(r, "expired")
        BY <2>4 DEF HoldExpires, Phases, Finished
      <3> QED
        BY <2>2, <3>1, EndsType DEF TypeOK
    <2>5. CASE ClientAborts(r)
      <3>1. {"cancelled", "failed", "unseen", "abandoned"} \subseteq Phases
        BY DEF Phases, Finished
      <3>2. Typed
        BY <2>5, <3>1, EndsType, SettleType, BecomesType DEF ClientAborts
      <3> QED
        BY <2>2, <3>2 DEF TypeOK
    <2>6. CASE UpstreamAnswers(r) \/ UpstreamFails(r)
      <3>1. {"answered", "failed", "leaked"} \subseteq Phases
        BY DEF Phases, Finished
      <3>2. Typed
        BY <2>6, <3>1, SettleType, BecomesType DEF UpstreamAnswers, UpstreamFails
      <3> QED
        BY <2>2, <3>2 DEF TypeOK
    <2>7. CASE StaleSocket(r)
      BY <2>7 DEF StaleSocket, ReportLater, TypeOK, Phases
    <2>8. CASE RetryFires(r)
      <3>1. {"leaked", "sent", "hung"} \subseteq Phases
        BY DEF Phases, Finished
      <3>2. Typed
        BY <2>8, <3>1, BecomesType DEF RetryFires
      <3> QED
        BY <2>2, <3>2 DEF TypeOK
    <2> QED
      BY <2>1, <2>3, <2>4, <2>5, <2>6, <2>7, <2>8
  <1>12. CASE \E mode \in Modes, port \in Ports : PublishState(mode, port)
    BY <1>12, BoundsAssumption DEF PublishState, TypeOK, ProxyState
  <1>13. CASE UNCHANGED proxyVars
    BY <1>13 DEF proxyVars, TypeOK
  <1> QED
    BY <1>1, <1>2, <1>3, <1>4, <1>5, <1>7, <1>8, <1>9, <1>10, <1>11, <1>12, <1>13 DEF Next

\* Whatever clients, upstreams, the switch and systemd do, the proxy's files,
\* counters and requests stay well typed.
THEOREM ProxyTypeCorrect == Spec => []TypeOK
  BY InitTypeOK, NextTypeOK, PTL DEF Spec

-----------------------------------------------------------------------------
(* An idle report is true when it is read *)

\* The counters never understate what is in flight.  They overstate it when a
\* client left without the proxy noticing.
CountersCover ==
    /\ Cardinality(InFlight) <= activeRequests
    /\ Cardinality(InFlight \intersect Writers) <= activeWriterRequests

\* The statuses in the file or on their way to it.
Reports == {statusFile} \union {writes[i] : i \in 1..Len(writes)}

\* No generation is applied, read or reported before it is published, none is
\* reported before it is applied, and a process that is down has nothing left.
ReportsOrdered ==
    /\ state.generation <= stateFile.generation
    /\ \A s \in reading : s.generation <= stateFile.generation
    /\ \A v \in Reports : /\ v.generation <= stateFile.generation
                          /\ process # "down" => v.generation <= state.generation
    /\ process = "down" => InFlight = {} /\ reading = {} /\ writes = <<>> /\ ~statusTimer

\* What carries the generation of the published state carries its mode.
SameGeneration ==
    \A v \in {state} \union reading \union Reports :
        v.generation = stateFile.generation => v.mode = stateFile.mode

\* What a status says when it says that nothing is in flight.
SaysTrue(v) ==
    /\ v.mode # "forward" /\ v.writers = 0 => InFlight \intersect Writers = {}
    /\ v.mode = "hold" /\ v.active = 0 => InFlight = {}

ReportsTrue ==
    \A v \in Reports : v.generation = stateFile.generation => SaysTrue(v)

ReportInv == CountersCover /\ ReportsOrdered /\ SameGeneration /\ ReportsTrue

LEMMA InFlightSets ==
  /\ InFlight \in SUBSET Requests
  /\ IsFiniteSet(InFlight) /\ Cardinality(InFlight) \in Nat
  /\ IsFiniteSet(InFlight \intersect Writers)
  /\ Cardinality(InFlight \intersect Writers) \in Nat
  <1>1. InFlight \in SUBSET Requests
    BY DEF InFlight
  <1> QED
    BY <1>1, RequestSetsFinite

\* A counter at zero tells the truth.
LEMMA ZeroMeansNone ==
  ASSUME CountersCover
  PROVE  /\ activeRequests = 0 => InFlight = {}
         /\ activeWriterRequests = 0 => InFlight \intersect Writers = {}
  BY InFlightSets, FS_EmptySet DEF CountersCover

\* No request more in flight, and the counters as they were.
LEMMA NoMoreCounted ==
  ASSUME TypeOK, CountersCover, InFlight' \subseteq InFlight,
         activeRequests' = activeRequests, activeWriterRequests' = activeWriterRequests
  PROVE  CountersCover'
  <1>1. Cardinality(InFlight') <= Cardinality(InFlight)
    BY InFlightSets, FS_Subset
  <1>2. InFlight' \intersect Writers \in SUBSET (InFlight \intersect Writers)
    OBVIOUS
  <1>3. Cardinality(InFlight' \intersect Writers) <= Cardinality(InFlight \intersect Writers)
    BY <1>2, InFlightSets, FS_Subset
  <1>4. /\ Cardinality(InFlight') \in Nat
        /\ Cardinality(InFlight' \intersect Writers) \in Nat
    BY <1>2, InFlightSets, FS_Subset, FS_CardinalityType
  <1>5. activeRequests \in Nat /\ activeWriterRequests \in Nat
    BY DEF TypeOK
  <1> QED
    BY <1>1, <1>3, <1>4, <1>5, InFlightSets DEF CountersCover

LEMMA SettleCounts ==
  ASSUME TypeOK, CountersCover, NEW r \in InFlight,
         NEW outcome \in {"answered", "failed"}, Settle(r, outcome)
  PROVE  CountersCover' /\ InFlight' \subseteq InFlight
  <1>1. InFlight' = InFlight \ {r}
    BY DEF InFlight, Settle, TypeOK
  <1>2. Cardinality(InFlight') = Cardinality(InFlight) - 1
    BY <1>1, InFlightSets, FS_RemoveElement
  <1>3. activeRequests' = activeRequests - 1
    <2>1. activeRequests # 0
      BY ZeroMeansNone
    <2> QED
      BY <2>1 DEF Settle
  <1>4. activeRequests \in Nat /\ activeWriterRequests \in Nat
    BY DEF TypeOK
  <1>5. Cardinality(InFlight') <= activeRequests'
    BY <1>2, <1>3, <1>4, InFlightSets DEF CountersCover
  <1>6. CASE r \in Writers
    <2>1. InFlight' \intersect Writers = (InFlight \intersect Writers) \ {r}
      BY <1>1
    <2>2. Cardinality(InFlight' \intersect Writers) = Cardinality(InFlight \intersect Writers) - 1
      BY <1>6, <2>1, InFlightSets, FS_RemoveElement, ZenonT(60)
    <2>3. activeWriterRequests # 0
      BY <1>6, ZeroMeansNone
    <2>4. activeWriterRequests' = activeWriterRequests - 1
      BY <1>6, <2>3 DEF Settle, TypeOK
    <2>5. Cardinality(InFlight' \intersect Writers) <= activeWriterRequests'
      BY <1>4, <2>2, <2>4, InFlightSets DEF CountersCover
    <2> QED
      BY <1>1, <1>5, <2>5 DEF CountersCover
  <1>7. CASE r \notin Writers
    <2>1. InFlight' \intersect Writers = InFlight \intersect Writers
      BY <1>1, <1>7
    <2>2. activeWriterRequests' = activeWriterRequests
      BY <1>7 DEF Settle
    <2>3. Cardinality(InFlight' \intersect Writers) <= activeWriterRequests'
      BY <2>1, <2>2 DEF CountersCover
    <2> QED
      BY <1>1, <1>5, <2>3 DEF CountersCover
  <1> QED
    BY <1>6, <1>7

\* Counting a set of requests in.
LEMMA UnionBound ==
  ASSUME NEW S \in SUBSET Requests, NEW T \in SUBSET Requests
  PROVE  Cardinality(S \union T) <= Cardinality(S) + Cardinality(T)
  <1>1. IsFiniteSet(S) /\ IsFiniteSet(T) /\ IsFiniteSet(S \intersect T)
    BY RequestsAssumption, FS_Subset
  <1>2. /\ Cardinality(S) \in Nat /\ Cardinality(T) \in Nat
        /\ Cardinality(S \intersect T) \in Nat
    BY <1>1, FS_CardinalityType
  <1>3. Cardinality(S \union T)
          = Cardinality(S) + Cardinality(T) - Cardinality(S \intersect T)
    BY <1>1, FS_Union
  <1> QED
    BY <1>2, <1>3

LEMMA ForwardCounts ==
  ASSUME TypeOK, CountersCover, NEW S \in SUBSET Requests, NEW s, Forward(S, s)
  PROVE  CountersCover' /\ InFlight' = InFlight \union S
  <1>1. InFlight' = InFlight \union S
    BY DEF InFlight, Forward
  <1>2. Cardinality(InFlight \union S) <= Cardinality(InFlight) + Cardinality(S)
    BY InFlightSets, UnionBound
  <1>3. (InFlight \union S) \intersect Writers
          = (InFlight \intersect Writers) \union (S \intersect Writers)
    OBVIOUS
  <1>4. InFlight \intersect Writers \in SUBSET Requests /\ S \intersect Writers \in SUBSET Requests
    BY InFlightSets
  <1>5. Cardinality((InFlight \union S) \intersect Writers)
          <= Cardinality(InFlight \intersect Writers) + Cardinality(S \intersect Writers)
    BY <1>3, <1>4, UnionBound
  <1>6. /\ Cardinality(InFlight \union S) \in Nat
        /\ Cardinality((InFlight \union S) \intersect Writers) \in Nat
    BY InFlightSets, RequestSetsFinite
  <1>7. /\ activeRequests' = activeRequests + Cardinality(S)
        /\ activeWriterRequests' = activeWriterRequests + Cardinality(S \intersect Writers)
    BY DEF Forward
  <1>8. /\ activeRequests \in Nat /\ activeWriterRequests \in Nat
        /\ Cardinality(S) \in Nat /\ Cardinality(S \intersect Writers) \in Nat
    BY RequestSetsFinite DEF TypeOK
  <1>9. /\ Cardinality(InFlight \union S) <= activeRequests'
        /\ Cardinality((InFlight \union S) \intersect Writers) <= activeWriterRequests'
    BY <1>2, <1>5, <1>6, <1>7, <1>8, InFlightSets DEF CountersCover
  <1> QED
    BY <1>1, <1>9 DEF CountersCover

\* A step that touches requests only.
LEMMA RequestStep ==
  ASSUME ReportInv, CountersCover',
         UNCHANGED <<stateFile, statusFile, process, state, reading, writes>>,
         process = "down" => InFlight' = {} /\ ~statusTimer',
         \A v \in Reports : v.generation = stateFile.generation /\ SaysTrue(v) => SaysTrue(v)'
  PROVE  ReportInv'
  <1>1. Reports' = Reports
    BY DEF Reports
  <1>2. ReportsOrdered'
    BY <1>1 DEF ReportInv, ReportsOrdered
  <1>3. SameGeneration'
    BY <1>1 DEF ReportInv, SameGeneration
  <1>4. ReportsTrue'
    BY <1>1 DEF ReportInv, ReportsTrue
  <1> QED
    BY <1>2, <1>3, <1>4 DEF ReportInv

LEMMA ShrinkingStep ==
  ASSUME ReportInv, CountersCover', InFlight' \subseteq InFlight,
         statusTimer' => process = "up" \/ statusTimer,
         UNCHANGED <<stateFile, statusFile, process, state, reading, writes>>
  PROVE  ReportInv'
  <1>1. process = "down" => InFlight' = {} /\ ~statusTimer'
    BY DEF ReportInv, ReportsOrdered
  <1>2. \A v \in Reports : SaysTrue(v) => SaysTrue(v)'
    BY DEF SaysTrue
  <1> QED
    BY <1>1, <1>2, RequestStep

LEMMA InitReportInv == Init => ReportInv
  <1> SUFFICES ASSUME Init PROVE ReportInv
    OBVIOUS
  <1>1. InFlight = {}
    BY DEF Init, InFlight
  <1>2. CountersCover
    BY <1>1, FS_EmptySet DEF Init, CountersCover
  <1>3. Reports = {StatusOf(stateFile, 0, 0)}
    BY DEF Init, Reports
  <1>4. stateFile.generation \in Nat
    BY DEF Init
  <1>5. ReportsOrdered
    BY <1>1, <1>3, <1>4 DEF Init, ReportsOrdered, StatusOf
  <1>6. SameGeneration
    BY <1>3 DEF Init, SameGeneration, StatusOf
  <1>7. ReportsTrue
    BY <1>1 DEF ReportsTrue, SaysTrue
  <1> QED
    BY <1>2, <1>5, <1>6, <1>7 DEF ReportInv

\* A request that ends without having been forwarded, or waits.
LEMMA EndsStep ==
  ASSUME TypeOK, ReportInv, NEW r \in Requests,
         NEW outcome \in {"full", "queued", "hung", "expired", "cancelled"}, Ends(r, outcome),
         UNCHANGED <<fileVars, process, state, reading>>
  PROVE  ReportInv'
  <1>1. InFlight' \subseteq InFlight
    BY DEF Ends, InFlight, TypeOK
  <1>2. CountersCover'
    BY <1>1, NoMoreCounted DEF Ends, ReportInv
  <1> QED
    BY <1>1, <1>2, ShrinkingStep DEF Ends, ReportLater, fileVars

LEMMA SettleStep ==
  ASSUME TypeOK, ReportInv, NEW r \in InFlight,
         NEW outcome \in {"answered", "failed"}, Settle(r, outcome),
         UNCHANGED <<fileVars, process, state, reading>>
  PROVE  ReportInv'
  <1>1. CountersCover' /\ InFlight' \subseteq InFlight
    BY SettleCounts DEF ReportInv
  <1> QED
    BY <1>1, ShrinkingStep DEF Settle, ReportLater, fileVars

LEMMA BecomesStep ==
  ASSUME TypeOK, ReportInv, NEW r \in InFlight, NEW where, Becomes(r, where),
         UNCHANGED <<fileVars, process, state, reading>>
  PROVE  ReportInv'
  <1>1. InFlight' \subseteq InFlight
    BY DEF Becomes, InFlight, TypeOK
  <1>2. CountersCover'
    BY <1>1, NoMoreCounted DEF Becomes, ReportInv
  <1> QED
    BY <1>1, <1>2, ShrinkingStep DEF Becomes, statusVars, fileVars

\* A request that passes at once does not contradict a report of the published
\* state: such a report has the mode that let the request pass.
LEMMA ForwardedStep ==
  ASSUME TypeOK, ReportInv, NEW r \in Requests, process = "up", ~MustQueue(r, state),
         Forward({r}, state), ReportLater,
         UNCHANGED <<fileVars, process, state, reading>>
  PROVE  ReportInv'
  <1>1. CountersCover' /\ InFlight' = InFlight \union {r}
    BY ForwardCounts DEF ReportInv
  <1>2. ASSUME NEW v \in Reports, v.generation = stateFile.generation, SaysTrue(v)
        PROVE  SaysTrue(v)'
    <2>1. v.generation <= state.generation /\ state.generation <= stateFile.generation
      BY DEF ReportInv, ReportsOrdered
    <2>2. state.generation \in Nat /\ stateFile.generation \in Nat
      BY DEF TypeOK, ProxyState
    <2>3. state.generation = stateFile.generation
      BY <1>2, <2>1, <2>2
    <2>4. v.mode = state.mode
      BY <1>2, <2>3 DEF ReportInv, SameGeneration
    <2>5. state.mode # "hold" /\ (state.mode = "drain" => r \notin Writers)
      BY DEF MustQueue
    <2>6. state.mode \in {"forward", "drain", "hold"}
      BY DEF TypeOK, ProxyState, Modes
    <2> QED
      BY <1>1, <1>2, <2>4, <2>5, <2>6 DEF SaysTrue
  <1>3. UNCHANGED <<stateFile, statusFile, process, state, reading, writes>>
    BY DEF ReportLater, fileVars
  <1> QED
    BY <1>1, <1>2, <1>3, RequestStep DEF ReportLater

\* A new state and the reports of it.
LEMMA ApplyStep ==
  ASSUME TypeOK, TypeOK', ReportInv, NEW s \in reading, process = "up",
         s.generation > state.generation,
         state' = s, reading' = {}, Forward(Flushed(s), s),
         writes' = writes \o <<StatusOf(s, activeRequests, activeWriterRequests)>>
                     \o IF s.mode = "hold" THEN <<>>
                        ELSE <<StatusOf(s, activeRequests', activeWriterRequests')>>,
         UNCHANGED <<fileVars, process>>
  PROVE  ReportInv'
  <1> DEFINE before == StatusOf(s, activeRequests, activeWriterRequests)
             after  == StatusOf(s, activeRequests', activeWriterRequests')
  <1>1. s \in ProxyState /\ s.mode \in {"forward", "drain", "hold"}
    BY DEF TypeOK, ProxyState, Modes
  <1>2. /\ stateFile.generation \in Nat /\ state.generation \in Nat /\ s.generation \in Nat
        /\ s.generation <= stateFile.generation
    BY <1>1 DEF TypeOK, ProxyState, ReportInv, ReportsOrdered
  <1>3. CountersCover' /\ InFlight' = InFlight \union Flushed(s)
    <2>1. Flushed(s) \in SUBSET Requests
      BY DEF Flushed, Queued
    <2> QED
      BY <2>1, ForwardCounts DEF ReportInv
  <1>4. ASSUME NEW v \in Reports' PROVE v \in Reports \/ v = before \/ v = after
    <2>1. CASE v = statusFile'
      BY <2>1 DEF Reports, fileVars
    <2>2. CASE \E i \in 1..Len(writes') : v = writes'[i]
      <3>1. PICK i \in 1..Len(writes') : v = writes'[i]
        BY <2>2
      <3>2. writes \in Seq(Status) /\ before \in Status /\ after \in Status
        BY <1>1, StatusOfType DEF TypeOK
      <3>3. CASE s.mode = "hold"
        <4>1. writes' = Append(writes, before)
          BY <3>2, <3>3
        <4> QED
          BY <3>1, <3>2, <4>1 DEF Reports
      <3>4. CASE s.mode # "hold"
        <4>1. writes' = Append(Append(writes, before), after)
          BY <3>2, <3>4
        <4> QED
          BY <3>1, <3>2, <4>1 DEF Reports
      <3> QED
        BY <3>3, <3>4
    <2> QED
      BY <2>1, <2>2 DEF Reports
  <1>5. before.generation = s.generation /\ after.generation = s.generation
        /\ before.mode = s.mode /\ after.mode = s.mode
    BY DEF StatusOf
  <1>6. \A v \in Reports : v.generation <= state.generation /\ v.generation \in Nat
    <2>1. \A v \in Reports : v \in Status
      BY DEF Reports, TypeOK
    <2> QED
      BY <2>1 DEF ReportInv, ReportsOrdered, Status
  <1>7. ReportsOrdered'
    <2>1. ASSUME NEW v \in Reports'
          PROVE  v.generation <= s.generation /\ v.generation <= stateFile.generation
      <3> HIDE DEF before, after
      <3> QED BY <1>2, <1>4, <1>5, <1>6
    <2> QED
      BY <1>2, <2>1 DEF ReportsOrdered, fileVars
  <1>8. SameGeneration'
    <2>1. s.generation = stateFile.generation => s.mode = stateFile.mode
      BY DEF ReportInv, SameGeneration
    <2>2. ASSUME NEW v \in Reports', v.generation = stateFile.generation
          PROVE  v.mode = stateFile.mode
      <3> HIDE DEF before, after
      <3> QED BY <1>2, <1>4, <1>5, <1>6, <2>1, <2>2
    <2> QED
      BY <2>1, <2>2 DEF SameGeneration, fileVars
  <1>9. ReportsTrue'
    <2>1. /\ s.mode = "drain" => Flushed(s) \intersect Writers = {}
          /\ s.mode = "hold" => Flushed(s) = {}
      BY DEF Flushed, MustQueue
    <2>2. /\ activeRequests = 0 => InFlight = {}
          /\ activeWriterRequests = 0 => InFlight \intersect Writers = {}
      BY ZeroMeansNone DEF ReportInv
    <2>3. /\ s.mode # "forward" /\ activeWriterRequests = 0
               => InFlight' \intersect Writers = {}
          /\ s.mode = "hold" /\ activeRequests = 0 => InFlight' = {}
      BY <1>1, <1>3, <2>1, <2>2
    <2>4. /\ activeRequests' = 0 => InFlight' = {}
          /\ activeWriterRequests' = 0 => InFlight' \intersect Writers = {}
      <3>1. InFlight' \in SUBSET Requests
        BY <1>3, InFlightSets DEF Flushed, Queued
      <3>2. /\ IsFiniteSet(InFlight') /\ Cardinality(InFlight') \in Nat
            /\ IsFiniteSet(InFlight' \intersect Writers)
            /\ Cardinality(InFlight' \intersect Writers) \in Nat
        BY <3>1, RequestSetsFinite
      <3>3. /\ Cardinality(InFlight') <= activeRequests'
            /\ Cardinality(InFlight' \intersect Writers) <= activeWriterRequests'
        BY <1>3 DEF CountersCover
      <3>4. /\ Cardinality(InFlight') = 0 => InFlight' = {}
            /\ Cardinality(InFlight' \intersect Writers) = 0 => InFlight' \intersect Writers = {}
        BY <3>2, FS_EmptySet
      <3> QED
        BY <3>2, <3>3, <3>4
    <2>5. ASSUME NEW v \in Reports', v.generation = stateFile.generation
          PROVE  SaysTrue(v)'
      <3>1. v = before \/ v = after
        <4> HIDE DEF before, after
        <4> QED BY <1>2, <1>4, <1>6, <2>5
      <3>2. CASE v = before
        <4>1. v.mode = s.mode /\ v.active = activeRequests /\ v.writers = activeWriterRequests
          BY <3>2 DEF StatusOf
        <4> QED
          BY <2>3, <4>1 DEF SaysTrue
      <3>3. CASE v = after
        <4>1. v.mode = s.mode /\ v.active = activeRequests' /\ v.writers = activeWriterRequests'
          BY <3>3 DEF StatusOf
        <4> QED
          BY <2>4, <4>1 DEF SaysTrue
      <3> QED
        BY <3>1, <3>2, <3>3
    <2> QED
      BY <2>5 DEF ReportsTrue, fileVars
  <1> QED
    BY <1>3, <1>7, <1>8, <1>9 DEF ReportInv

\* A process that stopped has lost everything it counted.
LEMMA StoppedStep ==
  ASSUME TypeOK, ReportInv, Stopped, writes' = <<>>,
         \/ statusFile' = statusFile
         \/ process # "down" /\ \E a, w \in Nat : statusFile' = StatusOf(state, a, w)
  PROVE  ReportInv'
  <1>1. InFlight' = {}
    BY DEF Stopped, Disconnected, InFlight, Finished
  <1>2. CountersCover'
    <2>1. InFlight' \intersect Writers = {} /\ Cardinality({}) = 0
      BY <1>1, FS_EmptySet
    <2>2. activeRequests' = 0 /\ activeWriterRequests' = 0
      BY DEF Stopped
    <2> QED
      BY <1>1, <2>1, <2>2 DEF CountersCover
  <1>3. Reports' = {statusFile'}
    BY DEF Reports
  <1>4. /\ statusFile'.generation <= stateFile.generation
        /\ statusFile'.generation = stateFile.generation => statusFile'.mode = stateFile.mode
    <2>1. CASE statusFile' = statusFile
      BY <2>1 DEF ReportInv, ReportsOrdered, SameGeneration, Reports
    <2>2. CASE \E a, w \in Nat : statusFile' = StatusOf(state, a, w)
      BY <2>2 DEF ReportInv, ReportsOrdered, SameGeneration, StatusOf
    <2> QED
      BY <2>1, <2>2
  <1>5. ReportsOrdered'
    BY <1>1, <1>3, <1>4 DEF Stopped, ReportsOrdered, ReportInv
  <1>6. SameGeneration'
    BY <1>3, <1>4 DEF Stopped, SameGeneration, ReportInv
  <1>7. ReportsTrue'
    BY <1>1 DEF ReportsTrue, SaysTrue
  <1> QED
    BY <1>2, <1>5, <1>6, <1>7 DEF ReportInv

\* A step after which there is no report that was not there, and nothing else
\* that the invariant speaks of has changed but what it does not constrain.
LEMMA QuietStep ==
  ASSUME TypeOK, ReportInv, Reports' \subseteq Reports,
         UNCHANGED <<stateFile, state, InFlight, activeRequests, activeWriterRequests>>,
         reading' \subseteq reading \union {stateFile},
         process = "down" <=> process' = "down",
         process' = "down" => reading' = {} /\ writes' = <<>> /\ ~statusTimer'
  PROVE  ReportInv'
  <1>1. CountersCover'
    BY DEF ReportInv, CountersCover
  <1>2. ReportsOrdered'
    <2>1. stateFile.generation \in Nat
      BY DEF TypeOK, ProxyState
    <2> QED
      BY <2>1 DEF ReportInv, ReportsOrdered
  <1>3. SameGeneration'
    BY DEF ReportInv, SameGeneration
  <1>4. ReportsTrue'
    BY DEF ReportInv, ReportsTrue, SaysTrue
  <1> QED
    BY <1>1, <1>2, <1>3, <1>4 DEF ReportInv

LEMMA NextReportInv == TypeOK /\ TypeOK' /\ ReportInv /\ [Next]_proxyVars => ReportInv'
  <1> SUFFICES ASSUME TypeOK, TypeOK', ReportInv, [Next]_proxyVars PROVE ReportInv'
    OBVIOUS
  <1>1. CASE StatusTimer
    <2> DEFINE new == StatusOf(state, activeRequests, activeWriterRequests)
    <2>1. /\ writes' = Append(writes, new) /\ writes \in Seq(Status) /\ new \in Status
          /\ statusTimer
          /\ UNCHANGED <<stateFile, statusFile, process, state, reading, InFlight,
                         activeRequests, activeWriterRequests>>
      BY <1>1, StatusOfType DEF StatusTimer, TypeOK, fileVars, requestVars, InFlight
    <2>2. ASSUME NEW v \in Reports' PROVE v \in Reports \/ v = new
      <3> HIDE DEF new
      <3> QED BY <2>1 DEF Reports
    <2>3. process # "down" /\ state.generation <= stateFile.generation
      BY <2>1 DEF ReportInv, ReportsOrdered
    <2>4. /\ new.generation = state.generation /\ new.mode = state.mode
          /\ new.active = activeRequests /\ new.writers = activeWriterRequests
      BY DEF StatusOf
    <2>5. CountersCover'
      BY <2>1 DEF ReportInv, CountersCover
    <2>6. state.generation \in Nat
      BY DEF TypeOK, ProxyState
    <2>7. ReportsOrdered'
      <3> HIDE DEF new
      <3> QED BY <2>1, <2>2, <2>3, <2>4, <2>6 DEF ReportInv, ReportsOrdered
    <2>8. SameGeneration'
      <3> HIDE DEF new
      <3> QED BY <2>1, <2>2, <2>4 DEF ReportInv, SameGeneration
    <2>9. ASSUME NEW v \in Reports', v.generation = stateFile.generation
          PROVE  SaysTrue(v)'
      <3>1. CASE v \in Reports
        BY <2>1, <2>9, <3>1 DEF ReportInv, ReportsTrue, SaysTrue
      <3>2. CASE v = new
        <4>1. v.active = activeRequests /\ v.writers = activeWriterRequests
          BY <2>4, <3>2
        <4>2. /\ activeRequests = 0 => InFlight = {}
              /\ activeWriterRequests = 0 => InFlight \intersect Writers = {}
          BY ZeroMeansNone DEF ReportInv
        <4> QED
          BY <2>1, <4>1, <4>2 DEF SaysTrue
      <3> QED
        BY <2>2, <3>1, <3>2
    <2> QED
      BY <2>1, <2>5, <2>7, <2>8, <2>9 DEF ReportInv, ReportsTrue
  <1>2. CASE WriteStatus \/ WriteStatusFails
    <2>1. /\ writes # <<>> /\ writes \in Seq(Status) /\ writes' = Tail(writes)
          /\ statusFile' = statusFile \/ statusFile' = Head(writes)
      BY <1>2 DEF WriteStatus, WriteStatusFails, TypeOK, fileVars
    <2>2. Reports' \subseteq Reports
      BY <2>1, HeadTailProperties DEF Reports
    <2>3. process # "down"
      BY <2>1 DEF ReportInv, ReportsOrdered
    <2> QED
      BY <1>2, <2>2, <2>3, QuietStep
         DEF WriteStatus, WriteStatusFails, fileVars, requestVars, InFlight
  <1>3. CASE ReadState
    BY <1>3, QuietStep DEF ReadState, fileVars, statusVars, requestVars, InFlight, Reports
  <1>4. CASE ApplyState
    <2>1. PICK s \in reading :
             IF process # "up" \/ s.generation <= state.generation
             THEN UNCHANGED <<state, statusVars, requestVars>>
             ELSE /\ Len(writes) + 2 <= MaxWrites
                  /\ state' = s
                  /\ Forward(Flushed(s), s)
                  /\ writes' = writes \o <<StatusOf(s, activeRequests, activeWriterRequests)>>
                       \o IF s.mode = "hold" THEN <<>>
                          ELSE <<StatusOf(s, activeRequests', activeWriterRequests')>>
                  /\ UNCHANGED statusTimer
      BY <1>4 DEF ApplyState
    <2>2. reading' = {} /\ UNCHANGED <<fileVars, process>>
      BY <1>4 DEF ApplyState
    <2>3. CASE process # "up" \/ s.generation <= state.generation
      <3>1. UNCHANGED <<state, statusVars, requestVars>>
        BY <2>1, <2>3
      <3>2. process' = "down" => writes' = <<>> /\ ~statusTimer'
        BY <2>2, <3>1 DEF ReportInv, ReportsOrdered, statusVars
      <3> QED
        BY <2>2, <3>1, <3>2, QuietStep DEF fileVars, statusVars, requestVars, InFlight, Reports
    <2>4. CASE ~(process # "up" \/ s.generation <= state.generation)
      <3>1. s.generation > state.generation
        BY <2>4 DEF TypeOK, ProxyState
      <3> QED
        BY <2>1, <2>2, <2>4, <3>1, ApplyStep
    <2> QED
      BY <2>3, <2>4
  <1>5. CASE Start
    <2>1. InFlight = {} /\ InFlight' = {}
      BY <1>5 DEF Start, ReportInv, ReportsOrdered, InFlight, requestVars
    <2>2. CountersCover'
      BY <1>5, <2>1 DEF Start, ReportInv, CountersCover, requestVars
    <2>3. ASSUME NEW v \in Reports' PROVE v \in Reports \/ v = StatusOf(stateFile, 0, 0)
      BY <1>5 DEF Start, Reports, fileVars
    <2>4. stateFile.generation \in Nat
      BY DEF TypeOK, ProxyState
    <2>5. stateFile' = stateFile /\ state' = stateFile /\ reading' = {} /\ process' = "up"
      BY <1>5 DEF Start, ReportInv, ReportsOrdered, fileVars
    <2>6. ASSUME NEW v \in Reports'
          PROVE  /\ v.generation <= stateFile'.generation
                 /\ v.generation <= state'.generation
                 /\ v.generation = stateFile'.generation => v.mode = stateFile'.mode
      <3>1. CASE v \in Reports
        BY <2>5, <3>1 DEF ReportInv, ReportsOrdered, SameGeneration
      <3>2. CASE v = StatusOf(stateFile, 0, 0)
        BY <2>4, <2>5, <3>2 DEF StatusOf
      <3> QED
        BY <2>3, <3>1, <3>2
    <2>7. ReportsOrdered'
      BY <2>4, <2>5, <2>6 DEF ReportsOrdered
    <2>8. SameGeneration'
      BY <2>5, <2>6 DEF SameGeneration
    <2>9. ReportsTrue'
      BY <2>1 DEF ReportsTrue, SaysTrue
    <2> QED
      BY <2>2, <2>7, <2>8, <2>9 DEF ReportInv
  <1>6. CASE Crash
    BY <1>6, StoppedStep DEF Crash
  <1>7. CASE Close
    BY <1>7, QuietStep DEF Close, fileVars, requestVars, InFlight, Reports
  <1>8. CASE Refuse
    <2>1. InFlight' = InFlight
      BY <1>8 DEF Refuse, InFlight, Queued
    <2> QED
      BY <1>8, <2>1, QuietStep DEF Refuse, fileVars, statusVars, Reports
  <1>9. CASE Exit
    <2>1. activeRequests \in Nat /\ activeWriterRequests \in Nat
      BY DEF TypeOK
    <2> QED
      BY <1>9, <2>1, StoppedStep DEF Exit
  <1>10. CASE \E r \in Requests :
                \/ Arrive(r) \/ HoldExpires(r) \/ ClientAborts(r)
                \/ UpstreamAnswers(r) \/ UpstreamFails(r) \/ StaleSocket(r) \/ RetryFires(r)
    <2>1. PICK r \in Requests :
                \/ Arrive(r) \/ HoldExpires(r) \/ ClientAborts(r)
                \/ UpstreamAnswers(r) \/ UpstreamFails(r) \/ StaleSocket(r) \/ RetryFires(r)
      BY <1>10
    <2>2. phase[r] \in {"sent", "unseen", "retry", "abandoned"} => r \in InFlight
      BY DEF InFlight
    <2>3. CASE Arrive(r)
      <3>1. CASE MustQueue(r, state) \/ process # "up"
        <4>1. \E outcome \in {"full", "queued", "hung"} : Ends(r, outcome)
          BY <2>3, <3>1 DEF Arrive
        <4> QED
          BY <2>3, <4>1, EndsStep DEF Arrive
      <3>2. CASE ~(MustQueue(r, state) \/ process # "up")
        BY <2>3, <3>2, ForwardedStep DEF Arrive
      <3> QED
        BY <3>1, <3>2
    <2>4. CASE HoldExpires(r)
      BY <2>4, EndsStep DEF HoldExpires
    <2>5. CASE ClientAborts(r)
      BY <2>2, <2>5, EndsStep, SettleStep, BecomesStep DEF ClientAborts
    <2>6. CASE UpstreamAnswers(r) \/ UpstreamFails(r)
      BY <2>2, <2>6, SettleStep, BecomesStep DEF UpstreamAnswers, UpstreamFails
    <2>7. CASE StaleSocket(r)
      <3>1. InFlight' = InFlight
        BY <2>7 DEF StaleSocket, InFlight, TypeOK
      <3> QED
        BY <2>7, <3>1, QuietStep DEF StaleSocket, ReportLater, fileVars, Reports
    <2>8. CASE RetryFires(r)
      BY <2>2, <2>8, BecomesStep DEF RetryFires
    <2> QED
      BY <2>1, <2>3, <2>4, <2>5, <2>6, <2>7, <2>8
  <1>11. CASE \E mode \in Modes, port \in Ports : PublishState(mode, port)
    <2>1. /\ stateFile'.generation = stateFile.generation + 1
          /\ UNCHANGED <<statusFile, process, state, reading, statusVars, requestVars>>
      BY <1>11 DEF PublishState
    <2>2. Reports' = Reports /\ InFlight' = InFlight
      BY <2>1 DEF Reports, InFlight, statusVars, requestVars
    <2>3. /\ stateFile.generation \in Nat /\ state.generation \in Nat
          /\ \A s \in reading : s.generation \in Nat
          /\ \A v \in Reports : v.generation \in Nat
      <3>1. \A v \in Reports : v \in Status
        BY DEF Reports, TypeOK
      <3> QED
        BY <3>1, SMTT(30) DEF TypeOK, ProxyState, Status
    <2>4. \A v \in {state} \union reading \union Reports : v.generation < stateFile'.generation
      BY <2>1, <2>3 DEF ReportInv, ReportsOrdered
    <2>5. CountersCover'
      BY <2>1, <2>2 DEF ReportInv, CountersCover, requestVars
    <2>6. ReportsOrdered'
      BY <2>1, <2>2, <2>3, <2>4 DEF ReportInv, ReportsOrdered, statusVars
    <2>7. SameGeneration' /\ ReportsTrue'
      <3>1. \A v \in {state} \union reading \union Reports : v.generation # stateFile'.generation
        BY <2>1, <2>3, <2>4
      <3> QED
        BY <2>1, <2>2, <3>1 DEF SameGeneration, ReportsTrue
    <2> QED
      BY <2>5, <2>6, <2>7 DEF ReportInv
  <1>12. CASE UNCHANGED proxyVars
    BY <1>12, QuietStep DEF proxyVars, InFlight, Reports, ReportInv, ReportsOrdered
  <1> QED
    BY <1>1, <1>2, <1>3, <1>4, <1>5, <1>6, <1>7, <1>8, <1>9, <1>10, <1>11, <1>12 DEF Next

LEMMA ReportInvSuffices == ReportInv => IdleReportsTrue
  BY DEF ReportInv, ReportsTrue, SaysTrue, Reports, IdleReportsTrue

\* Whatever the switch reads from the status file about the state it published
\* last is true when it reads it: a proxy reported drained has no writer in
\* flight, and one reported held and idle has no request in flight.
THEOREM IdleReportsHold == Spec => []IdleReportsTrue
  <1>1. Init => TypeOK /\ ReportInv
    BY InitTypeOK, InitReportInv
  <1>2. TypeOK /\ ReportInv /\ [Next]_proxyVars => (TypeOK /\ ReportInv)'
    BY NextTypeOK, NextReportInv
  <1> QED
    BY <1>1, <1>2, ReportInvSuffices, PTL DEF Spec

=============================================================================
