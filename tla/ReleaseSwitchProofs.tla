------------------------ MODULE ReleaseSwitchProofs ------------------------
(***************************************************************************)
(* What holds of ReleaseSwitch for any releases, targets, requests, number *)
(* of faults and late acknowledgements.                                    *)
(*                                                                         *)
(* The first part is about the proxy behind the switch, which may write a  *)
(* generation twice: Wire says what a status that reports hold is worth.   *)
(* The second is about plans: what the switch may rely on (Facts) before   *)
(* and after each step (Takes), and that every plan it makes keeps the     *)
(* rules (Runs).  The third puts them together.                            *)
(*                                                                         *)
(* The fourth part is about the releases themselves: what is published,    *)
(* what runs and where requests go (ReleaseOK), and that every plan moves  *)
(* them only by rules that keep this (Admits, Outcome, Guides), relying on *)
(* which of its two places is published and which one a start would run.   *)
(***************************************************************************)
EXTENDS ReleaseSwitch, ApiHandoffProxyProofs

-----------------------------------------------------------------------------
(* The proxy behind the switch *)

\* A generation can be written twice, but hold is never replaced under its number.
HoldsNewest(v) == v.generation = stateFile.generation /\ v.mode = "hold"

HoldKept ==
    \A v \in {state} \union reading \union Reports : HoldsNewest(v) => stateFile.mode = "hold"

\* Who reported the newest hold is still in it.
HoldReported ==
    \A v \in Reports : HoldsNewest(v) => process = "down" \/ HoldsNewest(state)

\* After a report of the newest hold there are only others.
InOrder ==
    \A i \in 1..Len(writes) :
        HoldsNewest(statusFile) \/ (\E j \in 1..i : HoldsNewest(writes[j])) => HoldsNewest(writes[i])

HoldTrue ==
    \A v \in Reports : HoldsNewest(v) /\ v.active = 0 => InFlight = {}

Wire == CountersCover /\ ReportsOrdered /\ HoldKept /\ HoldReported /\ InOrder /\ HoldTrue

\* The proxy holds and will go on holding, and its idle reports are true.
Acked ==
    /\ stateFile.mode = "hold"
    /\ process # "down" => state.mode = "hold"
    /\ \A s \in reading : s.mode = "hold" \/ s.generation <= state.generation
    /\ process = "down" => reading = {}
    /\ \A v \in Reports : v.active = 0 => InFlight = {}

\* What the switch waits for: an acknowledged hold holds.
LEMMA HoldAcknowledged ==
  ASSUME TypeOK, Wire, Acknowledged, stateFile.mode = "hold"
  PROVE  Acked
  <1>1. statusFile \in Reports /\ \A i \in 1..Len(writes) : writes[i] \in Reports
    BY DEF Reports
  <1>2. statusFile.generation \in Nat /\ stateFile.generation \in Nat /\ state.generation \in Nat
    BY DEF TypeOK, Status, ProxyState
  <1>3. HoldsNewest(statusFile)
    BY <1>1, <1>2 DEF Acknowledged, Wire, ReportsOrdered, HoldsNewest
  <1>4. \A v \in Reports : HoldsNewest(v)
    BY <1>3 DEF Wire, InOrder, Reports
  <1>5. process # "down" => HoldsNewest(state)
    BY <1>1, <1>3 DEF Wire, HoldReported
  <1>6. \A v \in Reports : v.active = 0 => InFlight = {}
    BY <1>4 DEF Wire, HoldTrue
  <1>7. process = "down" => reading = {}
    BY DEF Wire, ReportsOrdered
  <1>8. \A s \in reading : s.generation <= state.generation
    BY <1>5, <1>7 DEF Wire, ReportsOrdered, HoldsNewest
  <1> QED
    BY <1>5, <1>6, <1>7, <1>8 DEF Acked, HoldsNewest

\* Steps of requests that put nothing in flight.
LEMMA RequestsOnly ==
  ASSUME TypeOK, Wire, CountersCover', InFlight' \subseteq InFlight,
         UNCHANGED <<stateFile, statusFile, process, state, reading, writes>>,
         statusTimer' => process = "up" \/ statusTimer
  PROVE  Wire' /\ (Acked => Acked')
  <1>1. Reports' = Reports /\ \A v : HoldsNewest(v)' <=> HoldsNewest(v)
    BY DEF Reports, HoldsNewest
  <1>2. ReportsOrdered'
    BY <1>1 DEF Wire, ReportsOrdered
  <1>3. HoldKept' /\ HoldReported' /\ HoldTrue'
    BY <1>1 DEF Wire, HoldKept, HoldReported, HoldTrue
  <1>4. InOrder'
    BY <1>1 DEF Wire, InOrder
  <1>5. Acked => Acked'
    BY <1>1 DEF Acked
  <1> QED
    BY <1>2, <1>3, <1>4, <1>5 DEF Wire

\* A request is forwarded only by a proxy that does not hold.
LEMMA ForwardsOne ==
  ASSUME TypeOK, Wire, NEW r \in Requests, process = "up", ~MustQueue(r, state),
         Forward({r}, state), ReportLater, UNCHANGED <<fileVars, process, state, reading>>
  PROVE  Wire' /\ ~Acked
  <1>1. CountersCover'
    BY ForwardCounts DEF Wire
  <1>2. /\ state.mode # "hold" /\ process = "up"
        /\ UNCHANGED <<stateFile, statusFile, process, state, reading, writes>>
    BY DEF MustQueue, ReportLater, fileVars
  <1>3. Reports' = Reports
    BY <1>2 DEF Reports
  <1>4. \A v \in Reports : ~HoldsNewest(v)
    BY <1>2 DEF Wire, HoldReported, HoldsNewest
  <1>5. ReportsOrdered' /\ HoldKept' /\ HoldReported' /\ HoldTrue'
    BY <1>2, <1>3, <1>4 DEF Wire, ReportsOrdered, HoldKept, HoldReported, HoldTrue, HoldsNewest
  <1>6. InOrder'
    BY <1>2 DEF Wire, InOrder, HoldsNewest
  <1> QED
    BY <1>1, <1>2, <1>5, <1>6 DEF Wire, Acked

\* A status is captured.
LEMMA Captures ==
  ASSUME TypeOK, Wire, StatusTimer
  PROVE  Wire' /\ (Acked => Acked') /\ InFlight' = InFlight
  <1> DEFINE new == StatusOf(state, activeRequests, activeWriterRequests)
             n == Len(writes)
  <1>1. /\ writes' = Append(writes, new) /\ writes \in Seq(Status) /\ new \in Status
        /\ statusTimer
        /\ UNCHANGED <<stateFile, statusFile, process, state, reading, phase, activeRequests,
                       activeWriterRequests>>
    BY StatusOfType DEF StatusTimer, TypeOK, fileVars, requestVars
  <1>2. /\ InFlight' = InFlight
        /\ \A v : HoldsNewest(v)' <=> HoldsNewest(v)
    BY <1>1 DEF InFlight, HoldsNewest
  <1>3. process # "down"
    BY <1>1 DEF Wire, ReportsOrdered
  <1>4. /\ new.generation = state.generation /\ new.mode = state.mode
        /\ new.active = activeRequests
    BY DEF StatusOf
  <1>5. HoldsNewest(new) <=> HoldsNewest(state)
    BY <1>4 DEF HoldsNewest
  <1>6. /\ Len(writes') = n + 1 /\ n \in Nat /\ writes'[n + 1] = new
        /\ \A i \in 1..n : writes'[i] = writes[i]
    <2> HIDE DEF new
    <2> QED BY <1>1
  <1> HIDE DEF new
  <1>7. \A v \in Reports' : v \in Reports \/ v = new
    BY <1>1, <1>6 DEF Reports
  <1>8. activeRequests = 0 => InFlight = {}
    BY ZeroMeansNone DEF Wire
  <1>9. CountersCover'
    BY <1>1, <1>2 DEF Wire, CountersCover
  <1>10. ReportsOrdered'
    <2>1. state.generation \in Nat
      BY DEF TypeOK, ProxyState
    <2> QED BY <1>1, <1>2, <1>3, <1>4, <1>7, <2>1 DEF Wire, ReportsOrdered
  <1>11. HoldKept' /\ HoldReported' /\ HoldTrue'
    BY <1>1, <1>2, <1>4, <1>5, <1>7, <1>8 DEF Wire, HoldKept, HoldReported, HoldTrue
  <1>12. InOrder'
    <2> SUFFICES ASSUME NEW i \in 1..(n + 1), HoldsNewest(statusFile) \/ \E j \in 1..i : HoldsNewest(writes'[j])
                 PROVE  HoldsNewest(writes'[i])
      BY <1>1, <1>2, <1>6 DEF InOrder
    <2>1. CASE i \in 1..n
      <3>1. \A j \in 1..i : j \in 1..n
        BY <1>6, <2>1
      <3> QED BY <1>6, <2>1, <3>1 DEF Wire, InOrder
    <2>2. CASE i = n + 1
      <3>1. \A j \in 1..i : j \in 1..n \/ j = n + 1
        BY <1>6, <2>2
      <3>2. (\E v \in Reports : HoldsNewest(v)) \/ HoldsNewest(new)
        BY <1>6, <3>1 DEF Reports
      <3>3. HoldsNewest(new)
        BY <1>3, <1>5, <3>2 DEF Wire, HoldReported
      <3> QED BY <1>6, <2>2, <3>3
    <2> QED BY <1>6, <2>1, <2>2
  <1>13. Acked => Acked'
    BY <1>1, <1>2, <1>4, <1>7, <1>8 DEF Acked
  <1> QED
    BY <1>2, <1>9, <1>10, <1>11, <1>12, <1>13 DEF Wire

\* A status reaches the file.
LEMMA Writes ==
  ASSUME TypeOK, Wire, WriteStatus
  PROVE  Wire' /\ (Acked => Acked') /\ InFlight' = InFlight
  <1>1. /\ writes \in Seq(Status) /\ writes # <<>>
        /\ writes' = Tail(writes) /\ statusFile' = writes[1]
        /\ UNCHANGED <<stateFile, process, state, reading, statusTimer, phase, activeRequests,
                       activeWriterRequests>>
    BY DEF WriteStatus, TypeOK, requestVars
  <1>2. /\ Len(writes) \in Nat \ {0} /\ Len(writes') = Len(writes) - 1
        /\ \A i \in 1..Len(writes') : writes'[i] = writes[i + 1] /\ i + 1 \in 1..Len(writes)
        /\ 1 \in 1..Len(writes)
    BY <1>1
  <1>3. Reports' \subseteq Reports
    BY <1>1, <1>2 DEF Reports
  <1>4. InFlight' = InFlight /\ \A v : HoldsNewest(v)' <=> HoldsNewest(v)
    BY <1>1 DEF InFlight, HoldsNewest
  <1>5. process # "down"
    BY <1>1 DEF Wire, ReportsOrdered
  <1>6. CountersCover' /\ ReportsOrdered' /\ HoldKept' /\ HoldReported' /\ HoldTrue'
    BY <1>1, <1>3, <1>4, <1>5
       DEF Wire, CountersCover, ReportsOrdered, HoldKept, HoldReported, HoldTrue
  <1>7. InOrder'
    <2> SUFFICES ASSUME NEW i \in 1..Len(writes'),
                        HoldsNewest(statusFile') \/ \E j \in 1..i : HoldsNewest(writes'[j])
                 PROVE  HoldsNewest(writes'[i])
      BY <1>4 DEF InOrder
    <2>1. \A j \in 1..i : j + 1 \in 1..(i + 1) /\ writes'[j] = writes[j + 1]
      BY <1>2
    <2>2. 1 \in 1..(i + 1)
      BY <1>2
    <2>3. \E j \in 1..(i + 1) : HoldsNewest(writes[j])
      BY <1>1, <2>1, <2>2
    <2> QED BY <1>2, <2>3 DEF Wire, InOrder
  <1>8. Acked => Acked'
    BY <1>1, <1>3, <1>4 DEF Acked
  <1> QED
    BY <1>4, <1>6, <1>7, <1>8 DEF Wire

\* The proxy reads the state file.
LEMMA Reads ==
  ASSUME TypeOK, Wire, ReadState
  PROVE  Wire' /\ (Acked => Acked') /\ InFlight' = InFlight
  <1>1. /\ process = "up" /\ reading' = {stateFile}
        /\ UNCHANGED <<stateFile, statusFile, process, state, statusTimer, writes, phase,
                       activeRequests, activeWriterRequests>>
    BY DEF ReadState, fileVars, statusVars, requestVars
  <1>2. /\ InFlight' = InFlight /\ Reports' = Reports
        /\ \A v : HoldsNewest(v)' <=> HoldsNewest(v)
    BY <1>1 DEF InFlight, Reports, HoldsNewest
  <1>3. stateFile.generation \in Nat
    BY DEF TypeOK, ProxyState
  <1>4. CountersCover' /\ ReportsOrdered' /\ HoldReported' /\ HoldTrue'
    BY <1>1, <1>2, <1>3 DEF Wire, CountersCover, ReportsOrdered, HoldReported, HoldTrue
  <1>5. HoldKept'
    BY <1>1, <1>2 DEF Wire, HoldKept, HoldsNewest
  <1>6. InOrder'
    BY <1>1, <1>2 DEF Wire, InOrder
  <1>7. Acked => Acked'
    BY <1>1, <1>2 DEF Acked
  <1> QED
    BY <1>2, <1>4, <1>5, <1>6, <1>7 DEF Wire

\* A newer state is applied: the old reports are not of the newest generation.
LEMMA Applies ==
  ASSUME TypeOK, Wire, NEW s \in reading, process = "up",
         s.generation > state.generation,
         state' = s, reading' = {}, Forward(Flushed(s), s),
         writes' = writes \o <<StatusOf(s, activeRequests, activeWriterRequests)>>
                     \o IF s.mode = "hold" THEN <<>>
                        ELSE <<StatusOf(s, activeRequests', activeWriterRequests')>>,
         UNCHANGED <<fileVars, process>>
  PROVE  Wire' /\ (Acked => Acked' /\ InFlight' = InFlight)
  <1> DEFINE before == StatusOf(s, activeRequests, activeWriterRequests)
             after  == StatusOf(s, activeRequests', activeWriterRequests')
             n      == Len(writes)
  <1>1. s \in ProxyState /\ UNCHANGED <<stateFile, statusFile, process>>
    BY DEF TypeOK, fileVars
  <1>2. /\ stateFile.generation \in Nat /\ state.generation \in Nat /\ s.generation \in Nat
        /\ s.generation <= stateFile.generation /\ state.generation < s.generation
    BY <1>1 DEF TypeOK, ProxyState, Wire, ReportsOrdered
  <1>3. CountersCover' /\ InFlight' = InFlight \union Flushed(s)
    <2>1. Flushed(s) \in SUBSET Requests
      BY DEF Flushed, Queued
    <2> QED
      BY <2>1, ForwardCounts DEF Wire
  <1>4. activeRequests' \in Nat /\ activeWriterRequests' \in Nat
    <2>1. Flushed(s) \in SUBSET Requests
      BY DEF Flushed, Queued
    <2> QED
      BY <1>1, <2>1, ForwardType
  <1>5. /\ before.generation = s.generation /\ after.generation = s.generation
        /\ before.mode = s.mode /\ after.mode = s.mode
        /\ before.active = activeRequests
        /\ before \in Status /\ after \in Status
    BY <1>1, <1>4, StatusOfType DEF StatusOf, TypeOK
  <1>6. \/ writes' = Append(writes, before) /\ s.mode = "hold"
        \/ writes' = Append(Append(writes, before), after) /\ s.mode # "hold"
    <2>1. writes \in Seq(Status)
      BY DEF TypeOK
    <2>2. writes' = writes \o <<before>> \o IF s.mode = "hold" THEN <<>> ELSE <<after>>
      OBVIOUS
    <2> HIDE DEF before, after
    <2>3. writes \o <<before>> = Append(writes, before)
      BY <1>5, <2>1
    <2>4. Append(writes, before) \in Seq(Status)
      BY <1>5, <2>1
    <2>5. CASE s.mode = "hold"
      <3>1. writes' = Append(writes, before) \o <<>>
        BY <2>2, <2>3, <2>5
      <3> QED BY <2>4, <2>5, <3>1
    <2>6. CASE s.mode # "hold"
      <3>1. writes' = Append(writes, before) \o <<after>>
        BY <2>2, <2>3, <2>6
      <3>2. Append(writes, before) \o <<after>> = Append(Append(writes, before), after)
        BY <1>5, <2>4
      <3> QED BY <2>6, <3>1, <3>2
    <2> QED
      BY <2>5, <2>6
  <1> HIDE DEF before, after
  <1>7. /\ n \in Nat
        /\ \A i \in 1..Len(writes') :
              \/ i \in 1..n /\ writes'[i] = writes[i]
              \/ writes'[i] = before
              \/ writes'[i] = after /\ s.mode # "hold"
    <2>1. writes \in Seq(Status)
      BY DEF TypeOK
    <2> DEFINE w == Append(writes, before)
    <2>2. w \in Seq(Status) /\ Len(w) = n + 1 /\ n \in Nat /\ w[n + 1] = before
          /\ \A i \in 1..n : w[i] = writes[i]
      BY <1>5, <2>1
    <2> HIDE DEF w
    <2>3. CASE s.mode = "hold"
      <3>1. writes' = w
        BY <1>6, <2>3 DEF w
      <3> QED BY <2>2, <3>1
    <2>4. CASE s.mode # "hold"
      <3>1. writes' = Append(w, after)
        BY <1>6, <2>4 DEF w
      <3>2. /\ Len(writes') = n + 2 /\ writes'[n + 2] = after
            /\ \A i \in 1..(n + 1) : writes'[i] = w[i]
        <4>1. after \in Status
          BY <1>5
        <4>2. Len(w) + 1 = n + 2
          BY <2>2
        <4> HIDE DEF n
        <4> QED BY <2>2, <3>1, <4>1, <4>2
      <3>3. ASSUME NEW i \in 1..(n + 2)
            PROVE  (i \in 1..n /\ writes'[i] = writes[i]) \/ writes'[i] = before \/ writes'[i] = after
        <4>1. i \in 1..n \/ i = n + 1 \/ i = n + 2
          BY <2>2
        <4>2. i # n + 2 => writes'[i] = w[i]
          BY <2>2, <3>2, <4>1
        <4> QED BY <2>2, <3>2, <4>1, <4>2
      <3> QED BY <2>2, <2>4, <3>2, <3>3
    <2> QED
      BY <2>3, <2>4
  <1>8. \A v \in Reports' : v \in Reports \/ v = before \/ (v = after /\ s.mode # "hold")
    BY <1>1, <1>7 DEF Reports
  <1>9. \A v \in Reports : v.generation \in Nat /\ v.generation <= state.generation
    <2>1. \A v \in Reports : v \in Status
      BY DEF Reports, TypeOK
    <2> QED
      BY <2>1 DEF Wire, ReportsOrdered, Status
  <1>10. \A v : HoldsNewest(v)' <=> HoldsNewest(v)
    BY <1>1 DEF HoldsNewest
  <1>11. \A v \in Reports : ~HoldsNewest(v)
    BY <1>2, <1>9 DEF HoldsNewest
  <1>12. HoldsNewest(before) <=> HoldsNewest(s)
    BY <1>5 DEF HoldsNewest
  <1>13. s.mode # "hold" => ~HoldsNewest(after)
    BY <1>5 DEF HoldsNewest
  <1>14. HoldsNewest(s) => s.mode = "hold" /\ stateFile.mode = "hold"
    BY DEF Wire, HoldKept, HoldsNewest
  <1>15. s.mode = "hold" => InFlight' = InFlight
    BY <1>3 DEF Flushed, MustQueue
  <1>16. activeRequests = 0 => InFlight = {}
    BY ZeroMeansNone DEF Wire
  <1>17. ReportsOrdered'
    BY <1>1, <1>2, <1>5, <1>8, <1>9 DEF ReportsOrdered
  <1>18. HoldKept'
    BY <1>1, <1>8, <1>10, <1>11, <1>12, <1>13, <1>14 DEF HoldKept
  <1>19. HoldReported'
    BY <1>1, <1>8, <1>10, <1>11, <1>12, <1>13 DEF HoldReported
  <1>20. HoldTrue'
    <2> SUFFICES ASSUME NEW v \in Reports', HoldsNewest(v), v.active = 0
                 PROVE  InFlight' = {}
      BY <1>10 DEF HoldTrue
    <2>1. v = before
      BY <1>8, <1>11, <1>13
    <2> QED
      BY <1>5, <1>12, <1>14, <1>15, <1>16, <2>1
  <1>21. InOrder'
    <2> SUFFICES ASSUME NEW i \in 1..Len(writes'),
                        HoldsNewest(statusFile) \/ \E j \in 1..i : HoldsNewest(writes'[j])
                 PROVE  HoldsNewest(writes'[i])
      BY <1>1, <1>10 DEF InOrder
    <2>1. Len(writes') \in Nat /\ \A j \in 1..i : j \in 1..Len(writes')
      BY <1>5, <1>6 DEF TypeOK
    <2>2. ~HoldsNewest(statusFile) /\ \A j \in 1..n : ~HoldsNewest(writes[j])
      BY <1>11 DEF Reports
    <2>3. PICK j \in 1..i : HoldsNewest(writes'[j])
      BY <2>2
    <2>4. writes'[j] = before
      BY <1>7, <1>13, <2>1, <2>2, <2>3
    <2>5. writes' = Append(writes, before) /\ HoldsNewest(before)
      BY <1>6, <1>12, <1>14, <2>3, <2>4
    <2>6. j = n + 1 /\ Len(writes') = n + 1
      <3>1. j \in 1..n => writes'[j] = writes[j]
        BY <2>5, <1>5 DEF TypeOK
      <3>2. Len(writes') = n + 1
        BY <2>5, <1>5 DEF TypeOK
      <3> QED
        BY <1>7, <2>1, <2>2, <2>3, <3>1, <3>2
    <2>7. i = n + 1
      BY <1>7, <2>6
    <2> QED
      BY <2>3, <2>6, <2>7
  <1>22. Acked => Acked' /\ InFlight' = InFlight
    <2> SUFFICES ASSUME Acked PROVE Acked' /\ InFlight' = InFlight
      OBVIOUS
    <2>1. s.mode = "hold"
      BY <1>2 DEF Acked
    <2>2. \A v \in Reports' : v.active = 0 => InFlight' = {}
      BY <1>5, <1>8, <1>15, <1>16, <2>1 DEF Acked
    <2> QED
      BY <1>1, <1>15, <2>1, <2>2 DEF Acked
  <1> QED
    BY <1>3, <1>17, <1>18, <1>19, <1>20, <1>21, <1>22 DEF Wire

\* The proxy starts with what the state file holds.
LEMMA Starts ==
  ASSUME TypeOK, Wire, Start
  PROVE  Wire' /\ (Acked => Acked') /\ InFlight' = {}
  <1> DEFINE new == StatusOf(stateFile, 0, 0)
  <1>1. /\ process = "down" /\ process' = "up" /\ state' = stateFile /\ writes' = <<new>>
        /\ UNCHANGED <<stateFile, statusFile, reading, statusTimer, phase,
                       activeRequests, activeWriterRequests>>
    BY DEF Start, fileVars, requestVars
  <1>2. InFlight = {} /\ reading = {} /\ ~statusTimer
    BY <1>1 DEF Wire, ReportsOrdered
  <1>3. InFlight' = {} /\ \A v : HoldsNewest(v)' <=> HoldsNewest(v)
    BY <1>1, <1>2 DEF InFlight, HoldsNewest
  <1>4. \A v \in Reports' : v = statusFile \/ v = new
    <2> HIDE DEF new
    <2> QED BY <1>1 DEF Reports
  <1>5. new.generation = stateFile.generation /\ new.mode = stateFile.mode
    BY DEF StatusOf
  <1> HIDE DEF new
  <1>6. /\ HoldsNewest(new) <=> stateFile.mode = "hold"
        /\ HoldsNewest(stateFile) <=> stateFile.mode = "hold"
        /\ HoldsNewest(statusFile) => stateFile.mode = "hold"
    BY <1>5 DEF HoldsNewest, Wire, HoldKept, Reports
  <1>7. stateFile.generation \in Nat /\ statusFile.generation <= stateFile.generation
    BY DEF TypeOK, ProxyState, Wire, ReportsOrdered, Reports
  <1>8. CountersCover'
    BY <1>1, <1>2, <1>3 DEF Wire, CountersCover
  <1>9. ReportsOrdered'
    BY <1>1, <1>2, <1>4, <1>5, <1>7 DEF ReportsOrdered
  <1>10. HoldKept' /\ HoldReported' /\ HoldTrue'
    BY <1>1, <1>2, <1>3, <1>4, <1>6 DEF HoldKept, HoldReported, HoldTrue
  <1>11. InOrder'
    BY <1>1, <1>3, <1>6 DEF InOrder
  <1>12. Acked => Acked'
    BY <1>1, <1>2, <1>3 DEF Acked
  <1> QED
    BY <1>3, <1>8, <1>9, <1>10, <1>11, <1>12 DEF Wire

\* A crash loses what was captured and not written, and every request.
LEMMA Crashes ==
  ASSUME TypeOK, Wire, Crash
  PROVE  Wire' /\ (Acked => Acked') /\ InFlight' = {}
  <1>1. /\ process' = "down" /\ reading' = {} /\ statusTimer' = FALSE /\ writes' = <<>>
        /\ activeRequests' = 0 /\ activeWriterRequests' = 0
        /\ UNCHANGED <<stateFile, statusFile, state>>
    BY DEF Crash, Stopped
  <1>2. InFlight' = {}
    BY DEF Crash, Stopped, Disconnected, InFlight, Finished
  <1>3. Reports' = {statusFile} /\ statusFile \in Reports
    BY <1>1 DEF Reports
  <1>4. \A v : HoldsNewest(v)' <=> HoldsNewest(v)
    BY <1>1 DEF HoldsNewest
  <1>5. CountersCover'
    <2>1. InFlight' \intersect Writers = {} /\ Cardinality({}) = 0
      BY <1>2, FS_EmptySet
    <2> QED
      BY <1>1, <1>2, <2>1 DEF CountersCover
  <1>6. ReportsOrdered'
    BY <1>1, <1>2, <1>3 DEF Wire, ReportsOrdered
  <1>7. HoldKept' /\ HoldReported' /\ HoldTrue'
    BY <1>1, <1>2, <1>3, <1>4 DEF Wire, HoldKept, HoldReported, HoldTrue
  <1>8. InOrder'
    BY <1>1 DEF InOrder
  <1>9. Acked => Acked'
    BY <1>1, <1>2 DEF Acked
  <1> QED
    BY <1>2, <1>5, <1>6, <1>7, <1>8, <1>9 DEF Wire

\* What a step of the proxy, or of nobody who writes its files, keeps.
Held ==
    /\ Wire' /\ stateFile' = stateFile
    /\ Acked => Acked'
    /\ Acked /\ InFlight = {} => InFlight' = {}

LEMMA ProxyMoves ==
  ASSUME TypeOK, Wire, ProxyStep
  PROVE  Held
  <1>1. CASE StatusTimer
    BY <1>1, Captures DEF Held, StatusTimer, fileVars
  <1>2. CASE WriteStatus
    BY <1>2, Writes DEF Held, WriteStatus
  <1>3. CASE ReadState
    BY <1>3, Reads DEF Held, ReadState, fileVars
  <1>4. CASE ApplyState
    <2>1. PICK s \in reading :
             IF process # "up" \/ s.generation <= state.generation
             THEN UNCHANGED <<state, statusVars, requestVars>>
             ELSE /\ Len(writes) + 2 <= MaxWrites
                  /\ state' = s
                  /\ Forward(Flushed(s), s)
                  /\ writes' = writes \o <<StatusOf(s, activeRequests, activeWriterRequests)>>
                       \o IF s.mode = "hold" THEN <<>>
                          ELSE <<StatusOf(s, activeRequests', activeWriterRequests')>>
                  /\ UNCHANGED statusTimer
      BY <1>4 DEF ApplyState
    <2>2. reading' = {} /\ UNCHANGED <<fileVars, process>>
      BY <1>4 DEF ApplyState
    <2>3. CASE process # "up" \/ s.generation <= state.generation
      <3>1. UNCHANGED <<state, statusVars, requestVars>>
        BY <2>1, <2>3
      <3>2. /\ InFlight' = InFlight /\ Reports' = Reports
            /\ \A v : HoldsNewest(v)' <=> HoldsNewest(v)
        BY <2>2, <3>1 DEF fileVars, statusVars, requestVars, InFlight, Reports, HoldsNewest
      <3>3. CountersCover' /\ ReportsOrdered' /\ HoldReported' /\ HoldTrue' /\ HoldKept'
        BY <2>2, <3>1, <3>2
           DEF Wire, CountersCover, ReportsOrdered, HoldReported, HoldTrue, HoldKept,
               fileVars, statusVars, requestVars
      <3>4. InOrder'
        BY <2>2, <3>1, <3>2 DEF Wire, InOrder, fileVars, statusVars
      <3>5. Acked => Acked'
        BY <2>2, <3>1, <3>2 DEF Acked, fileVars
      <3> QED
        BY <2>2, <3>2, <3>3, <3>4, <3>5 DEF Held, Wire, fileVars
    <2>4. CASE ~(process # "up" \/ s.generation <= state.generation)
      <3>1. s.generation > state.generation
        BY <2>4 DEF TypeOK, ProxyState
      <3>2. Wire' /\ (Acked => Acked' /\ InFlight' = InFlight)
        BY <2>1, <2>2, <2>4, <3>1, Applies
      <3> QED
        BY <2>2, <3>2 DEF Held, fileVars
    <2> QED
      BY <2>3, <2>4
  <1>5. CASE Start
    BY <1>5, Starts DEF Held, Start, fileVars
  <1>6. ASSUME NEW r \in Requests,
               \/ Arrive(r) \/ HoldExpires(r)
               \/ Listening(upstream[r]) /\ UpstreamAnswers(r)
               \/ ~Listening(upstream[r]) /\ UpstreamFails(r)
        PROVE  Held
    <2>1. UNCHANGED <<stateFile, statusFile, process, state, reading>>
      BY <1>6 DEF Arrive, HoldExpires, UpstreamAnswers, UpstreamFails, fileVars
    <2>2. ASSUME NEW outcome \in {"full", "queued", "hung", "expired"}, Ends(r, outcome)
          PROVE  Held
      <3>1. InFlight' \subseteq InFlight
        BY <2>2 DEF Ends, InFlight, TypeOK
      <3>2. CountersCover'
        BY <2>2, <3>1, NoMoreCounted DEF Ends, Wire
      <3>3. UNCHANGED writes /\ (statusTimer' => process = "up" \/ statusTimer)
        BY <2>2 DEF Ends, ReportLater
      <3> QED
        BY <2>1, <3>1, <3>2, <3>3, RequestsOnly DEF Held
    <2>3. ASSUME NEW outcome \in {"answered", "failed"}, Settle(r, outcome), r \in InFlight
          PROVE  Held
      <3>1. CountersCover' /\ InFlight' \subseteq InFlight
        BY <2>3, SettleCounts DEF Wire
      <3>2. UNCHANGED writes /\ (statusTimer' => process = "up" \/ statusTimer)
        BY <2>3 DEF Settle, ReportLater
      <3> QED
        BY <2>1, <3>1, <3>2, RequestsOnly DEF Held
    <2>4. ASSUME phase[r] = "unseen", Becomes(r, "leaked")
          PROVE  Held
      <3>1. InFlight' \subseteq InFlight
        BY <2>4 DEF Becomes, InFlight, TypeOK
      <3>2. CountersCover'
        BY <2>4, <3>1, NoMoreCounted DEF Becomes, Wire
      <3>3. UNCHANGED writes /\ statusTimer' = statusTimer
        BY <2>4 DEF Becomes, statusVars
      <3> QED
        BY <2>1, <3>1, <3>2, <3>3, RequestsOnly DEF Held
    <2>5. CASE Arrive(r)
      <3>1. CASE MustQueue(r, state) \/ process # "up"
        <4>1. \E outcome \in {"full", "queued", "hung"} : Ends(r, outcome)
          BY <2>5, <3>1 DEF Arrive
        <4> QED
          BY <2>2, <4>1
      <3>2. CASE ~(MustQueue(r, state) \/ process # "up")
        <4>1. Forward({r}, state) /\ ReportLater /\ UNCHANGED <<fileVars, process, state, reading>>
          BY <2>5, <3>2 DEF Arrive
        <4>2. Wire' /\ ~Acked
          BY <3>2, <4>1, ForwardsOne
        <4> QED
          BY <2>1, <4>2 DEF Held
      <3> QED
        BY <3>1, <3>2
    <2>6. CASE HoldExpires(r)
      BY <2>2, <2>6 DEF HoldExpires
    <2>7. CASE UpstreamAnswers(r) \/ UpstreamFails(r)
      <3>1. phase[r] \in {"sent", "unseen"} => r \in InFlight
        BY DEF InFlight
      <3> QED
        BY <2>3, <2>4, <2>7, <3>1 DEF UpstreamAnswers, UpstreamFails
    <2> QED
      BY <1>6, <2>5, <2>6, <2>7
  <1> QED
    BY <1>1, <1>2, <1>3, <1>4, <1>5, <1>6 DEF ProxyStep

LEMMA ProxyRests ==
  ASSUME Wire, UNCHANGED proxyVars
  PROVE  Held
  <1>1. /\ InFlight' = InFlight /\ Reports' = Reports
        /\ \A v : HoldsNewest(v)' <=> HoldsNewest(v)
    BY DEF proxyVars, InFlight, Reports, HoldsNewest
  <1>2. /\ CountersCover' /\ ReportsOrdered' /\ HoldReported' /\ HoldTrue' /\ HoldKept'
        /\ InOrder' /\ (Acked => Acked')
    BY <1>1
       DEF proxyVars, Wire, CountersCover, ReportsOrdered, HoldReported, HoldTrue, HoldKept,
           InOrder, Acked
  <1> QED
    BY <1>1, <1>2 DEF Held, Wire, proxyVars

\* The switch publishes a new generation, or hold under the number it used last.
LEMMA Publishes ==
  ASSUME TypeOK, Wire,
         \/ stateFile'.generation = stateFile.generation + 1
         \/ stateFile'.generation = stateFile.generation /\ stateFile'.mode = "hold",
         UNCHANGED <<statusFile, process, state, reading, statusVars, requestVars>>
  PROVE  Wire'
  <1>1. UNCHANGED <<statusFile, process, state, reading, statusTimer, writes, phase,
                    activeRequests, activeWriterRequests>>
    BY DEF statusVars, requestVars
  <1>2. InFlight' = InFlight /\ Reports' = Reports
    BY <1>1 DEF InFlight, Reports
  <1>3. /\ stateFile.generation \in Nat /\ state.generation \in Nat
        /\ \A s \in reading : s.generation \in Nat
        /\ \A v \in Reports : v.generation \in Nat
    <2>1. \A v \in Reports : v \in Status
      BY DEF Reports, TypeOK
    <2> QED
      BY <2>1 DEF TypeOK, ProxyState, Status
  <1>4. CountersCover'
    BY <1>1, <1>2 DEF Wire, CountersCover
  <1>5. ReportsOrdered'
    <2>1. \A g \in Nat : g <= stateFile.generation => g <= stateFile'.generation
      BY <1>3
    <2> QED
      BY <1>1, <1>2, <1>3, <2>1 DEF Wire, ReportsOrdered
  <1>6. CASE stateFile'.generation = stateFile.generation + 1
    <2>1. \A v \in {state} \union reading \union Reports : v.generation # stateFile'.generation
      BY <1>3, <1>6 DEF Wire, ReportsOrdered
    <2>2. \A v \in {state} \union reading \union Reports : ~HoldsNewest(v)'
      BY <2>1 DEF HoldsNewest
    <2>3. HoldKept' /\ HoldReported' /\ HoldTrue'
      BY <1>1, <1>2, <2>2 DEF HoldKept, HoldReported, HoldTrue
    <2>4. InOrder'
      <3>1. Len(writes) \in Nat
        BY DEF TypeOK
      <3>2. /\ statusFile.generation # stateFile'.generation
            /\ \A i \in 1..Len(writes) : writes[i].generation # stateFile'.generation
        BY <2>1 DEF Reports
      <3>3. \A i \in 1..Len(writes) : \A j \in 1..i : j \in 1..Len(writes)
        BY <3>1
      <3> QED
        BY <1>1, <3>2, <3>3 DEF InOrder, HoldsNewest
    <2> QED
      BY <1>4, <1>5, <2>3, <2>4 DEF Wire
  <1>7. CASE stateFile'.generation = stateFile.generation /\ stateFile'.mode = "hold"
    <2>1. \A v : HoldsNewest(v)' <=> HoldsNewest(v)
      BY <1>7 DEF HoldsNewest
    <2>2. HoldKept' /\ HoldReported' /\ HoldTrue'
      BY <1>1, <1>2, <1>7, <2>1 DEF Wire, HoldKept, HoldReported, HoldTrue
    <2>3. InOrder'
      BY <1>1, <2>1 DEF Wire, InOrder
    <2> QED
      BY <1>4, <1>5, <2>2, <2>3 DEF Wire
  <1> QED
    BY <1>6, <1>7

LEMMA InitWire == Init => Wire
  <1> SUFFICES ASSUME Init PROVE Wire
    OBVIOUS
  <1>1. InFlight = {}
    BY DEF Init, InFlight
  <1>2. CountersCover
    BY <1>1, FS_EmptySet DEF Init, CountersCover
  <1>3. Reports = {StatusOf(stateFile, 0, 0)}
    BY DEF Init, Reports
  <1>4. stateFile.generation \in Nat /\ stateFile.mode = "forward" /\ state = stateFile
    BY DEF Init
  <1>5. ReportsOrdered
    BY <1>1, <1>3, <1>4 DEF Init, ReportsOrdered, StatusOf
  <1>6. HoldKept /\ HoldReported /\ HoldTrue
    BY <1>1, <1>3, <1>4 DEF Init, HoldKept, HoldReported, HoldTrue, HoldsNewest, StatusOf
  <1>7. InOrder
    BY DEF Init, InOrder
  <1> QED
    BY <1>2, <1>5, <1>6, <1>7 DEF Wire

-----------------------------------------------------------------------------
(* Plans *)

\* What the switch may rely on about the releases (see below).
ReleaseFacts ==
    {"atBase", "atOther", "toBase", "toOther", "onlyBase", "onlyOther", "quiet", "none",
     "begun", "torn", "pending", "old", "started", "calm", "still"}

\* What the switch may rely on at a point of a plan: the last generation is
\* acknowledged; it holds; the proxy acknowledged the hold; nothing is in flight;
\* this run drained the proxy.
Facts == {"fresh", "hold", "acked", "idle", "drained"} \union ReleaseFacts
Flags == {"drained", "oldStop", "newStart", "published"}

Steps ==
    [do : {"setProxy"}, mode : Modes, port : Ports]
    \union [do : {"waitProxy", "waitIdle", "waitWritersIdle", "waitLock", "clear"}]
    \union [do : {"waitReady"}, port : Ports]
    \union [do : {"stop", "start", "enable", "disable"}, unit : Units]
    \union [do : {"journal"}, phase : {"prepared", "publishing", "published", "recovering"}]
    \union [do : {"mark"}, flag : Flags]
    \union [do : {"webLink"}, web : Webs]
    \union [do : {"apiLink"}, api : Apis]
    \union [do : {"switchState"}, to : Active]

\* After a step: publishing a proxy state forgets what was known of the last one,
\* its acknowledgement makes it known, and waiting for idle means something only
\* behind an acknowledged hold.
Effect(st, K) ==
    IF st.do = "setProxy"
    THEN (K \intersect {"drained"}) \union (IF st.mode = "hold" THEN {"hold"} ELSE {})
    ELSE K \union (IF st.do = "waitProxy" THEN {"fresh"} ELSE {})
           \union (IF st.do = "waitProxy" /\ "hold" \in K THEN {"acked"} ELSE {})
           \union (IF st.do = "waitIdle" /\ "acked" \in K THEN {"idle"} ELSE {})
           \union (IF st.do = "mark" /\ st.flag = "drained" THEN {"drained"} ELSE {})

\* The rules: a unit is stopped when the proxy is idle, only hold is published
\* while the last generation is not acknowledged, and the marks are in order.
Allowed(st, K) ==
    /\ st.do = "stop" => "idle" \in K
    /\ st.do = "setProxy" /\ st.mode # "hold" => "fresh" \in K
    /\ st.do = "mark" /\ st.flag \in {"oldStop", "newStart"} => "drained" \in K

Takes(st, A, B) == st \in Steps /\ Allowed(st, A) /\ B \subseteq Effect(st, A)

\* One step by the rules R, which are triples of a step, what it relies on and what
\* is known after it.
Under(R, st, A, B) == \E C \in SUBSET Facts : <<st, A, C>> \in R /\ B \subseteq C

\* Relying on A, the plan can be carried out by the rules R, and B holds after it.
Carries(R, p, A, B) ==
    /\ p \in Seq(Steps)
    /\ \E known \in [1..(Len(p) + 1) -> SUBSET Facts] :
          /\ known[1] \subseteq A
          /\ known[Len(p) + 1] = B
          /\ \A i \in 1..Len(p) : Under(R, p[i], known[i], known[i + 1])

LEMMA CarriesNothing ==
  ASSUME NEW R, NEW A \in SUBSET Facts, NEW B \in SUBSET A
  PROVE  Carries(R, <<>>, A, B)
  <1> DEFINE known == [i \in 1..1 |-> B]
  <1>1. known \in [1..(Len(<<>>) + 1) -> SUBSET Facts]
    OBVIOUS
  <1>2. <<>> \in Seq(Steps) /\ Len(<<>>) = 0
    OBVIOUS
  <1>3. known[1] = B /\ known[Len(<<>>) + 1] = B
    BY <1>2
  <1> HIDE DEF known
  <1> QED
    BY <1>1, <1>2, <1>3 DEF Carries

LEMMA CarriesStep ==
  ASSUME NEW R, NEW A \in SUBSET Facts, NEW B \in SUBSET Facts, NEW st \in Steps, Under(R, st, A, B)
  PROVE  Carries(R, <<st>>, A, B)
  <1> DEFINE known == [i \in 1..2 |-> IF i = 1 THEN A ELSE B]
  <1>2. <<st>> \in Seq(Steps) /\ Len(<<st>>) = 1 /\ <<st>>[1] = st
    OBVIOUS
  <1>3. known \in [1..(Len(<<st>>) + 1) -> SUBSET Facts]
    BY <1>2
  <1>4. known[1] = A /\ known[2] = B
    OBVIOUS
  <1> HIDE DEF known
  <1>5. \A i \in 1..Len(<<st>>) : Under(R, <<st>>[i], known[i], known[i + 1])
    <2> SUFFICES ASSUME NEW i \in 1..1 PROVE Under(R, <<st>>[i], known[i], known[i + 1])
      BY <1>2
    <2>1. i = 1 /\ i + 1 = 2
      OBVIOUS
    <2> QED BY <1>2, <1>4, <2>1
  <1>6. known[1] \subseteq A /\ known[Len(<<st>>) + 1] = B
    BY <1>2, <1>4
  <1> QED
    BY <1>2, <1>3, <1>5, <1>6 DEF Carries

\* One plan after another.
LEMMA CarriesThen ==
  ASSUME NEW R, NEW A, NEW B, NEW C, NEW p, NEW q, Carries(R, p, A, B), Carries(R, q, B, C)
  PROVE  Carries(R, p \o q, A, C)
  <1>1. PICK kp \in [1..(Len(p) + 1) -> SUBSET Facts] :
          /\ kp[1] \subseteq A
          /\ kp[Len(p) + 1] = B
          /\ \A i \in 1..Len(p) : Under(R, p[i], kp[i], kp[i + 1])
    BY DEF Carries
  <1>2. PICK kq \in [1..(Len(q) + 1) -> SUBSET Facts] :
          /\ kq[1] \subseteq B
          /\ kq[Len(q) + 1] = C
          /\ \A i \in 1..Len(q) : Under(R, q[i], kq[i], kq[i + 1])
    BY DEF Carries
  <1> DEFINE m == Len(p)
             n == Len(q)
             known == [i \in 1..(m + n + 1) |-> IF i <= m THEN kp[i] ELSE kq[i - m]]
  <1>3. /\ p \in Seq(Steps) /\ q \in Seq(Steps) /\ m \in Nat /\ n \in Nat
        /\ p \o q \in Seq(Steps) /\ Len(p \o q) = m + n
        /\ \A i \in 1..(m + n) : (p \o q)[i] = IF i <= m THEN p[i] ELSE q[i - m]
    BY DEF Carries
  <1>4. known \in [1..(Len(p \o q) + 1) -> SUBSET Facts]
    <2>1. ASSUME NEW i \in 1..(m + n + 1) PROVE known[i] \in SUBSET Facts
      <3>1. CASE i <= m
        <4>1. i \in 1..(Len(p) + 1)
          BY <1>3, <3>1
        <4> QED BY <1>1, <3>1, <4>1
      <3>2. CASE ~(i <= m)
        <4>1. i - m \in 1..(Len(q) + 1)
          BY <1>3, <3>2
        <4> QED BY <1>2, <3>2, <4>1
      <3> QED BY <3>1, <3>2
    <2> QED BY <1>3, <2>1
  <1>5. known[1] \subseteq A
    <2>1. CASE m = 0
      BY <1>1, <1>2, <1>3, <2>1
    <2>2. CASE m # 0
      <3>1. 1 <= m /\ 1 \in 1..(m + n + 1)
        BY <1>3, <2>2
      <3> QED BY <1>1, <3>1
    <2> QED BY <2>1, <2>2
  <1>6. known[Len(p \o q) + 1] = C
    <2>1. m + n + 1 \in 1..(m + n + 1) /\ ~(m + n + 1 <= m) /\ (m + n + 1) - m = n + 1
      BY <1>3
    <2> QED BY <1>2, <1>3, <2>1
  <1>7. \A i \in 1..Len(p \o q) : Under(R, (p \o q)[i], known[i], known[i + 1])
    <2> SUFFICES ASSUME NEW i \in 1..(m + n)
                 PROVE  Under(R, (p \o q)[i], known[i], known[i + 1])
      BY <1>3
    <2>1. i \in 1..(m + n + 1) /\ i + 1 \in 1..(m + n + 1)
      BY <1>3
    <2>2. CASE i < m
      <3>1. i <= m /\ i + 1 <= m /\ i \in 1..m
        BY <1>3, <2>2
      <3>2. known[i] = kp[i] /\ known[i + 1] = kp[i + 1] /\ (p \o q)[i] = p[i]
        BY <1>3, <2>1, <3>1
      <3> HIDE DEF known
      <3> QED BY <1>1, <3>1, <3>2
    <2>3. CASE i = m
      <3>1. i <= m /\ ~(i + 1 <= m) /\ i + 1 - m = 1 /\ i \in 1..m
        BY <1>3, <2>3
      <3>2. known[i] = kp[i] /\ known[i + 1] = kq[1] /\ (p \o q)[i] = p[i]
        BY <1>3, <2>1, <3>1
      <3>3. Under(R, p[i], kp[i], B)
        BY <1>1, <2>3, <3>1
      <3> HIDE DEF known
      <3> QED BY <1>2, <3>2, <3>3 DEF Under
    <2>4. CASE i > m
      <3>1. /\ ~(i <= m) /\ ~(i + 1 <= m) /\ i - m \in 1..n
            /\ (i + 1) - m = (i - m) + 1
        BY <1>3, <2>4
      <3>2. /\ known[i] = kq[i - m] /\ known[i + 1] = kq[(i - m) + 1]
            /\ (p \o q)[i] = q[i - m]
        BY <1>3, <2>1, <3>1
      <3> HIDE DEF known
      <3> QED BY <1>2, <3>1, <3>2
    <2> QED BY <1>3, <2>2, <2>3, <2>4
  <1> HIDE DEF known
  <1> QED
    BY <1>3, <1>4, <1>5, <1>6, <1>7 DEF Carries

\* The first step of a plan, and the rest.
LEMMA CarriesOn ==
  ASSUME NEW R, NEW A, NEW B, NEW p, Carries(R, p, A, B), p # <<>>
  PROVE  /\ p \in Seq(Steps) /\ Head(p) \in Steps
         /\ \E K, C \in SUBSET Facts :
               K \subseteq A /\ Under(R, Head(p), K, C) /\ Carries(R, Tail(p), C, B)
  <1>1. PICK known \in [1..(Len(p) + 1) -> SUBSET Facts] :
          /\ known[1] \subseteq A
          /\ known[Len(p) + 1] = B
          /\ \A i \in 1..Len(p) : Under(R, p[i], known[i], known[i + 1])
    BY DEF Carries
  <1>2. p \in Seq(Steps)
    BY DEF Carries
  <1> DEFINE n == Len(p)
             rest == [i \in 1..n |-> known[i + 1]]
  <1>3. /\ n \in Nat \ {0} /\ Head(p) = p[1] /\ Tail(p) \in Seq(Steps)
        /\ Len(Tail(p)) = n - 1
        /\ \A i \in 1..(n - 1) : Tail(p)[i] = p[i + 1]
    BY <1>2
  <1>4. 1 \in 1..n /\ 1 + 1 = 2 /\ 2 \in 1..(n + 1) /\ n \in 1..n
    BY <1>3
  <1>5. Under(R, Head(p), known[1], known[2])
    BY <1>1, <1>3, <1>4
  <1>6. Carries(R, Tail(p), known[2], B)
    <2>1. \A i \in 1..n : i + 1 \in 1..(n + 1)
      BY <1>3
    <2>2. n - 1 + 1 = n
      BY <1>3
    <2>3. rest \in [1..(Len(Tail(p)) + 1) -> SUBSET Facts]
      BY <1>1, <1>3, <2>1, <2>2
    <2>4. rest[1] = known[2] /\ rest[Len(Tail(p)) + 1] = B
      BY <1>1, <1>3, <1>4, <2>2
    <2>5. \A i \in 1..Len(Tail(p)) : Under(R, Tail(p)[i], rest[i], rest[i + 1])
      <3> SUFFICES ASSUME NEW i \in 1..(n - 1)
                   PROVE  Under(R, Tail(p)[i], rest[i], rest[i + 1])
        BY <1>3
      <3>1. i \in 1..n /\ i + 1 \in 1..n
        BY <1>3
      <3>2. rest[i] = known[i + 1] /\ rest[i + 1] = known[(i + 1) + 1]
        BY <3>1
      <3> HIDE DEF rest
      <3> QED BY <1>1, <1>3, <3>1, <3>2
    <2> HIDE DEF rest
    <2> QED BY <1>3, <2>3, <2>4, <2>5 DEF Carries
  <1>7. known[1] \in SUBSET Facts /\ known[2] \in SUBSET Facts
    <2>1. 1 \in 1..(Len(p) + 1) /\ 2 \in 1..(Len(p) + 1)
      BY <1>3, <1>4
    <2> QED BY <1>1, <2>1
  <1>8. Head(p) \in Steps
    BY <1>2
  <1> QED
    BY <1>1, <1>2, <1>5, <1>6, <1>7, <1>8

LEMMA CarriesWhen ==
  ASSUME NEW R, NEW A \in SUBSET Facts, NEW B, NEW p, NEW cond \in BOOLEAN,
         cond => Carries(R, p, A, B), ~cond => B \subseteq A
  PROVE  Carries(R, When(cond, p), A, B)
  BY CarriesNothing DEF When

LEMMA StepTypes ==
  ASSUME NEW st \in Steps
  PROVE  /\ st.do = "setProxy" => st.mode \in Modes /\ st.port \in Ports
         /\ st.do \in {"stop", "start", "enable", "disable"} => st.unit \in Units
         /\ st.do = "journal" => st.phase \in {"prepared", "publishing", "published", "recovering"}
         /\ st.do = "mark" => st.flag \in Flags
         /\ st.do = "webLink" => st.web \in Webs
         /\ st.do = "apiLink" => st.api \in Apis
         /\ st.do = "switchState" => st.to \in Active
  BY DEF Steps

\* The step after which the body of the command is planned.
Recovered == [do |-> "mark", flag |-> "recovered"]

\* The plan can be carried out by the rules R from A; where the body follows, E holds
\* before it.
Plans(R, plan, A, E) ==
    \/ \E B \in SUBSET Facts : Carries(R, plan, A, B)
    \/ \E p \in Seq(Steps) : plan = p \o <<Recovered>> /\ Carries(R, p, A, E)

\* The first step of a plan, and the rest.
LEMMA PlansOn ==
  ASSUME NEW R, NEW A, NEW E, NEW plan, plan # <<>>, Plans(R, plan, A, E), Head(plan) # Recovered
  PROVE  /\ Head(plan) \in Steps
         /\ \E K, C \in SUBSET Facts :
               K \subseteq A /\ Under(R, Head(plan), K, C) /\ Plans(R, Tail(plan), C, E)
  <1>1. CASE \E B \in SUBSET Facts : Carries(R, plan, A, B)
    <2>1. PICK B \in SUBSET Facts : Carries(R, plan, A, B)
      BY <1>1
    <2>2. /\ Head(plan) \in Steps
          /\ \E K, C \in SUBSET Facts :
                K \subseteq A /\ Under(R, Head(plan), K, C) /\ Carries(R, Tail(plan), C, B)
      BY <2>1, CarriesOn
    <2> QED
      BY <2>2 DEF Plans
  <1>2. CASE \E p \in Seq(Steps) : plan = p \o <<Recovered>> /\ Carries(R, p, A, E)
    <2>1. PICK p \in Seq(Steps) : plan = p \o <<Recovered>> /\ Carries(R, p, A, E)
      BY <1>2
    <2> DEFINE T == Steps \union {Recovered}
               last == <<Recovered>>
    <2>2. p \in Seq(T) /\ last \in Seq(T) /\ Len(last) = 1 /\ last[1] = Recovered
      OBVIOUS
    <2> HIDE DEF last
    <2>3. /\ p \o last \in Seq(T) /\ Len(p \o last) = Len(p) + 1
          /\ \A i \in 1..(Len(p) + 1) : (p \o last)[i] = IF i <= Len(p) THEN p[i] ELSE last[i - Len(p)]
      <3> HIDE DEF T
      <3>1. /\ p \o last \in Seq(T) /\ Len(p \o last) = Len(p) + Len(last)
            /\ \A i \in 1..(Len(p) + Len(last)) :
                  (p \o last)[i] = IF i <= Len(p) THEN p[i] ELSE last[i - Len(p)]
        BY <2>2, ConcatProperties
      <3> QED BY <2>2, <3>1
    <2>4. plan = p \o last
      BY <2>1 DEF last
    <2>5. p # <<>>
      <3> SUFFICES ASSUME p = <<>> PROVE FALSE
        OBVIOUS
      <3>1. Len(p) = 0
        OBVIOUS
      <3>2. Head(p \o last) = (p \o last)[1] /\ (p \o last)[1] = last[1 - 0]
        BY <2>3, <3>1
      <3> QED BY <2>2, <2>4, <3>2
    <2>6. Head(p \o last) = Head(p) /\ Tail(p \o last) = Tail(p) \o last
      <3> DEFINE u == Tail(p \o last)
                 v == Tail(p) \o last
      <3>1. Len(p) \in Nat \ {0} /\ Tail(p) \in Seq(Steps) /\ Len(Tail(p)) = Len(p) - 1
            /\ \A i \in 1..(Len(p) - 1) : Tail(p)[i] = p[i + 1]
        BY <2>5
      <3>2. Head(p \o last) = (p \o last)[1] /\ Head(p) = p[1] /\ (p \o last)[1] = p[1]
        BY <2>3, <2>5, <3>1
      <3>3. /\ u \in Seq(T) /\ Len(u) = Len(p)
            /\ \A i \in 1..Len(p) : u[i] = (p \o last)[i + 1]
        BY <2>3, <3>1
      <3>4. Tail(p) \in Seq(T)
        BY <2>2, <2>5
      <3>5. /\ v \in Seq(T) /\ Len(v) = Len(p)
            /\ \A i \in 1..Len(p) : v[i] = IF i <= Len(p) - 1 THEN Tail(p)[i]
                                           ELSE last[i - (Len(p) - 1)]
        <4> DEFINE q == Tail(p)
        <4>1. q \in Seq(T) /\ Len(q) = Len(p) - 1 /\ Len(p) \in Nat
          BY <3>1, <3>4
        <4>2. last \in Seq(T) /\ Len(last) = 1
          BY <2>2
        <4> HIDE DEF q, T
        <4>3. /\ q \o last \in Seq(T) /\ Len(q \o last) = Len(q) + Len(last)
              /\ \A i \in 1..(Len(q) + Len(last)) :
                    (q \o last)[i] = IF i <= Len(q) THEN q[i] ELSE last[i - Len(q)]
          BY <4>1, <4>2, ConcatProperties
        <4>4. Len(q) + Len(last) = Len(p)
          BY <4>1, <4>2
        <4>5. v = q \o last
          BY DEF q
        <4> HIDE DEF v
        <4> QED BY <4>1, <4>3, <4>4, <4>5 DEF q
      <3> HIDE DEF u, v
      <3>6. ASSUME NEW i \in 1..Len(u) PROVE u[i] = v[i]
        <4>1. i \in 1..Len(p) /\ i + 1 \in 1..(Len(p) + 1)
          BY <3>1, <3>3
        <4>2. CASE i <= Len(p) - 1
          BY <2>3, <3>1, <3>3, <3>5, <4>1, <4>2
        <4>3. CASE ~(i <= Len(p) - 1)
          <5>1. ASSUME NEW n \in Nat, i \in 1..n, ~(i <= n - 1)
                PROVE  i = n /\ (i + 1) - n = 1 /\ i - (n - 1) = 1 /\ ~(i + 1 <= n)
            BY <5>1
          <5>2. /\ i = Len(p) /\ (i + 1) - Len(p) = 1 /\ i - (Len(p) - 1) = 1
                /\ ~(i + 1 <= Len(p))
            BY <3>1, <4>1, <4>3, <5>1
          <5> QED BY <2>3, <3>3, <3>5, <4>1, <4>3, <5>2
        <4> QED BY <4>2, <4>3
      <3>7. u = v
        BY <3>3, <3>5, <3>6, SeqEqual
      <3> QED BY <3>2, <3>7 DEF u, v
    <2>7. PICK K \in SUBSET Facts, C \in SUBSET Facts :
             K \subseteq A /\ Under(R, Head(p), K, C) /\ Carries(R, Tail(p), C, E)
      BY <2>1, <2>5, CarriesOn
    <2>8. Plans(R, Tail(plan), C, E)
      <3>1. Tail(p) \in Seq(Steps)
        BY <2>5
      <3> QED BY <2>4, <2>6, <2>7, <3>1 DEF Plans, last
    <2>9. Head(plan) \in Steps
      BY <2>4, <2>5, <2>6
    <2> QED
      BY <2>4, <2>6, <2>7, <2>8, <2>9
  <1> QED
    BY <1>1, <1>2 DEF Plans

LEMMA RecoveredIsNoStep == Recovered \notin Steps
  <1>1. Recovered.do = "mark" /\ Recovered.flag \notin Flags
    BY DEF Recovered, Flags
  <1> QED
    BY <1>1, StepTypes

\* Before the body nothing else is planned.
LEMMA PlansEnd ==
  ASSUME NEW R, NEW A, NEW E, NEW plan, plan # <<>>, Plans(R, plan, A, E), Head(plan) = Recovered
  PROVE  plan = <<Recovered>> /\ E \subseteq A
  <1>1. ~\E B \in SUBSET Facts : Carries(R, plan, A, B)
    BY CarriesOn, RecoveredIsNoStep
  <1>2. PICK p \in Seq(Steps) : plan = p \o <<Recovered>> /\ Carries(R, p, A, E)
    BY <1>1 DEF Plans
  <1>3. p = <<>>
    <2> SUFFICES ASSUME p # <<>> PROVE FALSE
      OBVIOUS
    <2> DEFINE T == Steps \union {Recovered}
               last == <<Recovered>>
    <2>1. p \in Seq(T) /\ last \in Seq(T) /\ Len(last) = 1
      OBVIOUS
    <2> HIDE DEF last
    <2>2. /\ Len(p) \in Nat \ {0} /\ 1 <= Len(p) /\ p[1] \in Steps
          /\ 1 \in 1..(Len(p) + Len(last))
      BY <2>1
    <2>3. (p \o last)[1] = p[1] /\ Head(p \o last) = (p \o last)[1]
      BY <2>1, <2>2, ConcatProperties
    <2> QED BY <1>2, <2>2, <2>3, RecoveredIsNoStep DEF last
  <1>4. plan = <<Recovered>>
    <2>1. <<Recovered>> \in Seq({Recovered})
      OBVIOUS
    <2> QED BY <1>2, <1>3, <2>1, ConcatEmptySeq
  <1>5. E \subseteq A
    <2>1. Len(<<>>) = 0
      OBVIOUS
    <2>2. \E known : known[1] \subseteq A /\ known[0 + 1] = E
      BY <1>2, <1>3, <2>1 DEF Carries
    <2> QED BY <2>2
  <1> QED BY <1>4, <1>5

\* The rules of the proxy.
ProxyRules ==
    {x \in Steps \X (SUBSET Facts) \X (SUBSET Facts) : Takes(x[1], x[2], x[3])}

LEMMA ProxyRule ==
  ASSUME NEW st, NEW A \in SUBSET Facts, NEW B \in SUBSET Facts
  PROVE  Under(ProxyRules, st, A, B) <=> Takes(st, A, B)
  <1>1. ASSUME NEW C \in SUBSET Facts
        PROVE  <<st, A, C>> \in ProxyRules <=> Takes(st, A, C)
    BY DEF ProxyRules, Takes
  <1>2. ASSUME NEW C \in SUBSET Facts, Takes(st, A, C), B \subseteq C PROVE Takes(st, A, B)
    BY <1>2 DEF Takes
  <1> QED
    BY <1>1, <1>2 DEF Under

Runs(p, A, B) == Carries(ProxyRules, p, A, B)

LEMMA RunsStep ==
  ASSUME NEW A \in SUBSET Facts, NEW B \in SUBSET Facts, NEW st, Takes(st, A, B)
  PROVE  Runs(<<st>>, A, B)
  BY ProxyRule, CarriesStep DEF Runs, Takes

LEMMA RunsThen ==
  ASSUME NEW A, NEW B, NEW C, NEW p, NEW q, Runs(p, A, B), Runs(q, B, C)
  PROVE  Runs(p \o q, A, C)
  BY CarriesThen DEF Runs

\* What is known at the stages of a plan, with D what is known throughout.
Forwarding(D) == D \union {"fresh"}
Holding(D)    == D \union {"fresh", "hold", "acked"}
Idling(D)     == D \union {"fresh", "hold", "acked", "idle"}

LEMMA Stages ==
  ASSUME NEW D \in SUBSET {"drained"}
  PROVE  /\ D \in SUBSET Facts /\ Forwarding(D) \in SUBSET Facts
         /\ Holding(D) \in SUBSET Facts /\ Idling(D) \in SUBSET Facts
         /\ "idle" \in Idling(D) /\ "fresh" \in Idling(D) /\ "fresh" \in Forwarding(D)
         /\ D \subseteq Idling(D) /\ D \subseteq Forwarding(D)
  BY DEF Facts, ReleaseFacts, Forwarding, Holding, Idling

\* A sequence after its first element.
LEMMA AfterFirst ==
  ASSUME NEW T, NEW x \in T, NEW next \in Seq(T)
  PROVE  <<x>> \o next \in Seq(T) /\ Tail(<<x>> \o next) = next
  <1> DEFINE first == <<x>>
             u     == first \o next
  <1>1. first \in Seq(T) /\ Len(first) = 1 /\ next \in Seq(T)
    OBVIOUS
  <1> HIDE DEF first
  <1>0. Len(next) \in Nat
    OBVIOUS
  <1>2. /\ u \in Seq(T) /\ Len(u) = 1 + Len(next) /\ Len(next) \in Nat
        /\ \A i \in 1..(1 + Len(next)) : u[i] = IF i <= 1 THEN first[i] ELSE next[i - 1]
    <2>1. /\ u \in Seq(T) /\ Len(u) = Len(first) + Len(next)
          /\ \A i \in 1..(Len(first) + Len(next)) :
                u[i] = IF i <= Len(first) THEN first[i] ELSE next[i - Len(first)]
      BY <1>1, ConcatProperties
    <2> HIDE DEF u
    <2> QED BY <1>0, <1>1, <2>1
  <1> HIDE DEF u
  <1>3. u # <<>>
    <2>1. Len(u) # 0
      BY <1>2
    <2> QED BY <2>1, EmptySeq
  <1>4. /\ Tail(u) \in Seq(T) /\ Len(Tail(u)) = Len(next)
        /\ \A i \in 1..Len(next) : Tail(u)[i] = u[i + 1]
    BY <1>2, <1>3, HeadTailProperties
  <1>5. ASSUME NEW i \in 1..Len(next) PROVE Tail(u)[i] = next[i]
    <2>1. i + 1 \in 1..(1 + Len(next)) /\ ~(i + 1 <= 1) /\ (i + 1) - 1 = i
      BY <1>2
    <2> QED BY <1>2, <1>4, <2>1
  <1>6. Tail(u) = next
    BY <1>1, <1>4, <1>5, SeqEqual
  <1> QED BY <1>2, <1>6 DEF u, first

\* A joined plan is as long as its parts.
LEMMA JoinedLength ==
  ASSUME NEW S, NEW p \in Seq(S), NEW q \in Seq(S), Len(q) = 1
  PROVE  p \o q \in Seq(S) /\ Len(p \o q) = Len(p) + 1
  <1>1. p \o q \in Seq(S)
    OBVIOUS
  <1>2. Len(p \o q) = Len(p) + Len(q)
    BY ConcatProperties
  <1> QED BY <1>1, <1>2

\* Plans are written as tuples and joined.
LEMMA Joined ==
  ASSUME NEW S, NEW a \in S, NEW b \in S, NEW c \in S
  PROVE  <<a>> \o <<b>> = <<a, b>> /\ <<a>> \o <<b>> \o <<c>> = <<a, b, c>>
  <1> DEFINE s == <<a>> \o <<b>>
  <1>1. \A x \in S : <<x>> \in Seq(S) /\ Len(<<x>>) = 1 /\ <<x>>[1] = x
    OBVIOUS
  <1>2. s \in Seq(S) /\ Len(s) = 2 /\ s[1] = a /\ s[2] = b
    BY <1>1
  <1>3. <<a, b>> \in Seq(S) /\ Len(<<a, b>>) = 2
    OBVIOUS
  <1>4. \A i \in 1..2 : s[i] = <<a, b>>[i]
    BY <1>2
  <1> HIDE DEF s
  <1>5. s = <<a, b>>
    BY <1>2, <1>3, <1>4, SeqEqual
  <1> DEFINE last == <<c>>
             t    == s \o last
  <1>11. last \in Seq(S) /\ Len(last) = 1 /\ last[1] = c
    BY <1>1
  <1> HIDE DEF last
  <1>12. /\ t \in Seq(S) /\ Len(t) = Len(s) + Len(last)
         /\ \A i \in 1..(Len(s) + Len(last)) : t[i] = IF i <= Len(s) THEN s[i] ELSE last[i - Len(s)]
    BY <1>2, <1>11, ConcatProperties
  <1> HIDE DEF t
  <1>6. t \in Seq(S) /\ Len(t) = 3
    BY <1>2, <1>11, <1>12
  <1>7. t[1] = a /\ t[2] = b /\ t[3] = c
    BY <1>2, <1>11, <1>12
  <1>8. <<a, b, c>> \in Seq(S) /\ Len(<<a, b, c>>) = 3
    OBVIOUS
  <1>9. \A i \in 1..3 : t[i] = <<a, b, c>>[i]
    BY <1>7
  <1>10. t = <<a, b, c>>
    BY <1>6, <1>8, <1>9, SeqEqual
  <1> QED
    BY <1>5, <1>10 DEF s, last, t

LEMMA RunsWhen ==
  ASSUME NEW A \in SUBSET Facts, NEW B, NEW p, NEW cond \in BOOLEAN,
         cond => Runs(p, A, B), ~cond => B \subseteq A
  PROVE  Runs(When(cond, p), A, B)
  BY CarriesWhen DEF Runs

\* A step that publishes no proxy state keeps what is known.
LEMMA RunsKeeping ==
  ASSUME NEW A \in SUBSET Facts, NEW st \in Steps, st.do # "setProxy", Allowed(st, A)
  PROVE  Runs(<<st>>, A, A)
  <1>1. A \subseteq Effect(st, A)
    BY DEF Effect
  <1> QED
    BY <1>1, RunsStep DEF Takes

\* The calls whose only rule is that they are well typed.
LEMMA RunsCall ==
  ASSUME NEW A \in SUBSET Facts
  PROVE  /\ Runs(WaitIdle, A, A) /\ Runs(WritersIdle, A, A) /\ Runs(WaitLock, A, A)
         /\ Runs(Clear, A, A)
         /\ Runs(<<[do |-> "waitProxy"]>>, A, A)
         /\ \A p \in Ports : Runs(Ready(p), A, A)
         /\ \A u \in Units : /\ Runs(Begin(u), A, A)
                             /\ Runs(Enable(u), A, A) /\ Runs(Disable(u), A, A)
         /\ \A ph \in {"prepared", "publishing", "published", "recovering"} : Runs(Write(ph), A, A)
         /\ \A to \in Active : Runs(Publish(to), A, A)
         /\ Runs(Mark("drained"), A, A) /\ Runs(Mark("published"), A, A)
  <1> DEFINE Calls == {"waitProxy", "waitIdle", "waitWritersIdle", "waitLock", "clear", "waitReady",
                       "start", "enable", "disable", "journal", "webLink", "apiLink", "switchState"}
  <1>1. ASSUME NEW st \in Steps, st.do \in Calls PROVE Runs(<<st>>, A, A)
    <2>1. Allowed(st, A) /\ st.do # "setProxy"
      BY <1>1 DEF Allowed
    <2> QED BY <2>1, RunsKeeping
  <1> HIDE DEF Calls
  <1>2. Runs(<<[do |-> "waitProxy"]>>, A, A) /\ Runs(WaitIdle, A, A) /\ Runs(WritersIdle, A, A)
    <2>1. [do |-> "waitProxy"] \in Steps /\ [do |-> "waitIdle"] \in Steps
          /\ [do |-> "waitWritersIdle"] \in Steps
      BY DEF Steps
    <2> QED BY <1>1, <2>1 DEF Calls, WaitIdle, WritersIdle
  <1>3. Runs(WaitLock, A, A) /\ Runs(Clear, A, A)
    <2>1. [do |-> "waitLock"] \in Steps /\ [do |-> "clear"] \in Steps
      BY DEF Steps
    <2> QED BY <1>1, <2>1 DEF Calls, WaitLock, Clear
  <1>4. ASSUME NEW p \in Ports PROVE Runs(Ready(p), A, A)
    <2>1. [do |-> "waitReady", port |-> p] \in Steps
      BY DEF Steps
    <2> QED BY <1>1, <2>1 DEF Calls, Ready
  <1>5. ASSUME NEW u \in Units
        PROVE  Runs(Begin(u), A, A) /\ Runs(Enable(u), A, A) /\ Runs(Disable(u), A, A)
    <2>1. /\ [do |-> "start", unit |-> u] \in Steps /\ [do |-> "enable", unit |-> u] \in Steps
          /\ [do |-> "disable", unit |-> u] \in Steps
      BY DEF Steps
    <2> QED BY <1>1, <2>1 DEF Calls, Begin, Enable, Disable
  <1>6. ASSUME NEW ph \in {"prepared", "publishing", "published", "recovering"}
        PROVE  Runs(Write(ph), A, A)
    <2>1. [do |-> "journal", phase |-> ph] \in Steps
      BY DEF Steps
    <2> QED BY <1>1, <2>1 DEF Calls, Write
  <1>7. ASSUME NEW to \in Active PROVE Runs(Publish(to), A, A)
    <2> DEFINE web == [do |-> "webLink", web |-> to.web]
               api == [do |-> "apiLink", api |-> to.api]
               st  == [do |-> "switchState", to |-> to]
    <2>1. web \in Steps /\ api \in Steps /\ st \in Steps
      BY DEF Steps, Active
    <2>2. web.do \in Calls /\ api.do \in Calls /\ st.do \in Calls
      BY DEF Calls
    <2>3. Publish(to) = <<web, api, st>>
      BY DEF Publish
    <2> HIDE DEF web, api, st
    <2>4. Runs(<<web>>, A, A) /\ Runs(<<api>>, A, A) /\ Runs(<<st>>, A, A)
      BY <1>1, <2>1, <2>2
    <2>5. Runs(<<web>> \o <<api>>, A, A)
      BY <2>4, RunsThen
    <2>6. Runs(<<web>> \o <<api>> \o <<st>>, A, A)
      BY <2>4, <2>5, RunsThen
    <2>7. <<web>> \o <<api>> \o <<st>> = <<web, api, st>>
      BY <2>1, Joined
    <2> QED BY <2>3, <2>6, <2>7
  <1>8. Runs(Mark("drained"), A, A) /\ Runs(Mark("published"), A, A)
    <2>1. ASSUME NEW flag \in {"drained", "published"}
          PROVE  Runs(<<[do |-> "mark", flag |-> flag]>>, A, A)
      <3>1. [do |-> "mark", flag |-> flag] \in Steps
        BY DEF Steps, Flags
      <3>2. Allowed([do |-> "mark", flag |-> flag], A)
        BY DEF Allowed
      <3> QED BY <3>1, <3>2, RunsKeeping
    <2> QED BY <2>1 DEF Mark
  <1> QED
    BY <1>2, <1>3, <1>4, <1>5, <1>6, <1>7, <1>8

LEMMA RunsStop ==
  ASSUME NEW A \in SUBSET Facts, NEW u \in Units, "idle" \in A
  PROVE  Runs(Stop(u), A, A)
  <1>1. [do |-> "stop", unit |-> u] \in Steps
    BY DEF Steps
  <1>2. Allowed([do |-> "stop", unit |-> u], A)
    BY DEF Allowed
  <1> QED
    BY <1>1, <1>2, RunsKeeping DEF Stop

LEMMA RunsMark ==
  ASSUME NEW A \in SUBSET Facts, NEW flag \in Flags, "drained" \in A
  PROVE  Runs(Mark(flag), A, A)
  <1>1. [do |-> "mark", flag |-> flag] \in Steps
    BY DEF Steps
  <1>2. Allowed([do |-> "mark", flag |-> flag], A)
    BY DEF Allowed
  <1> QED
    BY <1>1, <1>2, RunsKeeping DEF Mark

\* The proxy is told to hold, whatever was known of it.
LEMMA RunsHold ==
  ASSUME NEW D \in SUBSET {"drained"}, NEW A \in SUBSET Facts, D \subseteq A, NEW to \in Active
  PROVE  Runs(SetProxy("hold", to), A, Holding(D))
  <1> DEFINE set  == [do |-> "setProxy", mode |-> "hold", port |-> to.port]
             wait == [do |-> "waitProxy"]
             H    == D \union {"hold"}
  <1>1. set \in Steps /\ wait \in Steps
    BY DEF Steps, Modes, Active
  <1>2. Takes(set, A, H)
    BY <1>1 DEF Takes, Allowed, Effect
  <1>3. Takes(wait, H, Holding(D))
    BY <1>1 DEF Takes, Allowed, Effect, Holding
  <1>4. SetProxy("hold", to) = <<set, wait>>
    BY DEF SetProxy
  <1>5. H \in SUBSET Facts /\ Holding(D) \in SUBSET Facts
    BY Stages DEF Facts
  <1> HIDE DEF set, wait, H
  <1>6. Runs(<<set>>, A, H) /\ Runs(<<wait>>, H, Holding(D))
    BY <1>2, <1>3, <1>5, RunsStep
  <1>7. Runs(<<set>> \o <<wait>>, A, Holding(D))
    BY <1>6, RunsThen
  <1>8. <<set>> \o <<wait>> = <<set, wait>>
    BY <1>1, Joined
  <1> QED
    BY <1>4, <1>7, <1>8

\* ... and waited for.
LEMMA RunsIdle ==
  ASSUME NEW D \in SUBSET {"drained"}
  PROVE  Runs(WaitIdle, Holding(D), Idling(D))
  <1>1. Holding(D) \in SUBSET Facts /\ Idling(D) \in SUBSET Facts
    BY Stages
  <1>2. Takes([do |-> "waitIdle"], Holding(D), Idling(D))
    <2>1. [do |-> "waitIdle"] \in Steps
      BY DEF Steps
    <2> QED BY <2>1 DEF Takes, Allowed, Effect, Holding, Idling
  <1> QED
    BY <1>1, <1>2, RunsStep DEF WaitIdle

\* Another mode follows only an acknowledged generation.
LEMMA RunsForward ==
  ASSUME NEW D \in SUBSET {"drained"}, NEW A \in SUBSET Facts, D \subseteq A, "fresh" \in A,
         NEW mode \in Modes, NEW to \in Active
  PROVE  Runs(SetProxy(mode, to), A, Forwarding(D))
  <1> DEFINE set  == [do |-> "setProxy", mode |-> mode, port |-> to.port]
             wait == [do |-> "waitProxy"]
  <1>1. set \in Steps /\ wait \in Steps
    BY DEF Steps, Active
  <1>2. Takes(set, A, D)
    BY <1>1 DEF Takes, Allowed, Effect
  <1>3. Takes(wait, D, Forwarding(D))
    BY <1>1 DEF Takes, Allowed, Effect, Forwarding
  <1>4. SetProxy(mode, to) = <<set, wait>>
    BY DEF SetProxy
  <1>5. D \in SUBSET Facts /\ Forwarding(D) \in SUBSET Facts
    BY Stages
  <1> HIDE DEF set, wait
  <1>6. Runs(<<set>>, A, D) /\ Runs(<<wait>>, D, Forwarding(D))
    BY <1>2, <1>3, <1>5, RunsStep
  <1>7. Runs(<<set>> \o <<wait>>, A, Forwarding(D))
    BY <1>6, RunsThen
  <1>8. <<set>> \o <<wait>> = <<set, wait>>
    BY <1>1, Joined
  <1> QED
    BY <1>4, <1>7, <1>8

\* ensureProxy: whatever it has to undo, it undoes behind an idle proxy.
LEMMA EnsureProxyRuns ==
  ASSUME NEW current \in Active, NEW interrupted
  PROVE  /\ Runs(EnsureProxy(current, interrupted), {"fresh"}, {"fresh"})
         /\ EnsureProxy(current, interrupted) # <<>>
  <1> DEFINE settled == stateFile.mode = "forward" /\ stateFile.port = current.port
             foreign == {j \in interrupted : j.target # current}
             moved   == {j \in interrupted : j.base.unit # current.unit}
             stopped == {j.target.unit : j \in foreign} \union {j.base.unit : j \in moved}
             N == {}
             F == Forwarding(N)
             I == Idling(N)
             p1 == SetProxy("hold", current) \o WaitIdle
             p2 == p1 \o When("active" \in stopped, Stop("active"))
             p3 == p2 \o When("legacy" \in stopped, Stop("legacy"))
             p4 == p3 \o When(current.unit \in stopped, WaitLock)
             p5 == p4 \o Publish(current)
             p6 == p5 \o Begin(current.unit)
             p7 == p6 \o Ready(current.port)
             p8 == p7 \o SetProxy("forward", current)
             p9 == p8 \o Clear
  <1>1. EnsureProxy(current, interrupted)
          = <<[do |-> "waitProxy"]>> \o When(interrupted # {} \/ ~settled, p9)
    BY DEF EnsureProxy
  <1>2. current.unit \in Units /\ current.port \in Ports /\ {"active", "legacy"} \subseteq Units
    BY DEF Active, Units
  <1>3. /\ N \in SUBSET {"drained"} /\ F = {"fresh"}
        /\ F \in SUBSET Facts /\ I \in SUBSET Facts /\ Holding(N) \in SUBSET Facts
        /\ N \subseteq F /\ N \subseteq I /\ "idle" \in I /\ "fresh" \in I
    BY Stages DEF Forwarding
  <1>4. Runs(SetProxy("hold", current), F, Holding(N)) /\ Runs(WaitIdle, Holding(N), I)
    BY <1>3, RunsHold, RunsIdle
  <1>5. Runs(Stop("active"), I, I) /\ Runs(Stop("legacy"), I, I)
    BY <1>2, <1>3, RunsStop
  <1>6. Runs(SetProxy("forward", current), I, F)
    <2>1. "forward" \in Modes
      BY DEF Modes
    <2> QED BY <1>3, <2>1, RunsForward
  <1>7. /\ Runs(WaitLock, I, I) /\ Runs(Publish(current), I, I) /\ Runs(Begin(current.unit), I, I)
        /\ Runs(Ready(current.port), I, I)
        /\ Runs(Clear, F, F) /\ Runs(<<[do |-> "waitProxy"]>>, F, F)
    BY <1>2, <1>3, RunsCall
  <1>8. /\ Runs(When("active" \in stopped, Stop("active")), I, I)
        /\ Runs(When("legacy" \in stopped, Stop("legacy")), I, I)
        /\ Runs(When(current.unit \in stopped, WaitLock), I, I)
    <2> HIDE DEF stopped, I
    <2>1. \A u : (u \in stopped) \in BOOLEAN
      OBVIOUS
    <2> QED BY <1>3, <1>5, <1>7, <2>1, RunsWhen
  <1> HIDE DEF N, F, I, stopped, settled
  <1>9. Runs(p1, F, I)
    BY <1>4, RunsThen
  <1>10. Runs(p2, F, I)
    <2> HIDE DEF p1
    <2> QED BY <1>8, <1>9, RunsThen
  <1>11. Runs(p3, F, I)
    <2> HIDE DEF p2
    <2> QED BY <1>8, <1>10, RunsThen
  <1>12. Runs(p4, F, I)
    <2> HIDE DEF p3
    <2> QED BY <1>8, <1>11, RunsThen
  <1>13. Runs(p5, F, I)
    <2> HIDE DEF p4
    <2> QED BY <1>7, <1>12, RunsThen
  <1>14. Runs(p6, F, I)
    <2> HIDE DEF p5
    <2> QED BY <1>7, <1>13, RunsThen
  <1>15. Runs(p7, F, I)
    <2> HIDE DEF p6
    <2> QED BY <1>7, <1>14, RunsThen
  <1>16. Runs(p8, F, F)
    <2> HIDE DEF p7
    <2> QED BY <1>6, <1>15, RunsThen
  <1>17. Runs(p9, F, F)
    <2> HIDE DEF p8
    <2> QED BY <1>7, <1>16, RunsThen
  <1>18. Runs(When(interrupted # {} \/ ~settled, p9), F, F)
    <2> HIDE DEF p9
    <2>1. (interrupted # {} \/ ~settled) \in BOOLEAN
      OBVIOUS
    <2> QED BY <1>3, <1>17, <2>1, RunsWhen
  <1>19. Runs(<<[do |-> "waitProxy"]>> \o When(interrupted # {} \/ ~settled, p9), F, F)
    <2> HIDE DEF p9
    <2> QED BY <1>7, <1>18, RunsThen
  <1>20. <<[do |-> "waitProxy"]>> \o When(interrupted # {} \/ ~settled, p9) # <<>>
    <2> DEFINE first == <<[do |-> "waitProxy"]>>
               rest  == When(interrupted # {} \/ ~settled, p9)
    <2> HIDE DEF first, rest
    <2>1. first \in Seq(Steps) /\ rest \in Seq(Steps)
      BY <1>7, <1>18 DEF Runs, Carries, first, rest
    <2>2. Len(first) = 1
      BY DEF first
    <2>3. Len(first \o rest) = 1 + Len(rest) /\ Len(rest) \in Nat
      BY <2>1, <2>2, ConcatProperties
    <2> QED BY <2>3 DEF first, rest
  <1> QED
    BY <1>1, <1>3, <1>19, <1>20

\* The switch itself.
LEMMA SwitchToRuns ==
  ASSUME NEW base \in Active, NEW target \in Active
  PROVE  Runs(SwitchTo(base, target), {"fresh"}, {"fresh"})
  <1> DEFINE moves == base.api # target.api
             D == {"drained"}
             N == {}
             F == Forwarding(N)
             I == Idling(D)
             a1 == SetProxy("drain", base) \o Mark("drained")
             a2 == a1 \o WritersIdle
             a3 == a2 \o SetProxy("hold", base)
             a4 == a3 \o WaitIdle
             a5 == a4 \o Write("prepared")
             a6 == a5 \o Mark("oldStop")
             a7 == a6 \o Stop(base.unit)
             a8 == a7 \o WaitLock
             a9 == a8 \o Mark("newStart")
             a10 == a9 \o Begin(target.unit)
             a11 == a10 \o Ready(target.port)
             b1 == Write("published") \o SetProxy("forward", target)
             b2 == b1 \o Enable(target.unit)
             b3 == b2 \o When(base.unit # target.unit, Disable(base.unit))
             b4 == b3 \o Clear
             J == IF moves THEN I ELSE F
  <1>1. SwitchTo(base, target)
          = When(moves, a11) \o Mark("published") \o When(moves, Write("publishing"))
              \o Publish(target) \o When(moves, b4)
    BY DEF SwitchTo
  <1>2. /\ base.unit \in Units /\ target.unit \in Units /\ target.port \in Ports
        /\ {"forward", "drain"} \subseteq Modes /\ {"oldStop", "newStart"} \subseteq Flags
    BY DEF Active, Modes, Flags
  <1>3. /\ N \in SUBSET {"drained"} /\ D \in SUBSET {"drained"} /\ F = {"fresh"}
        /\ F \in SUBSET Facts /\ I \in SUBSET Facts /\ J \in SUBSET Facts
        /\ Holding(D) \in SUBSET Facts /\ Forwarding(D) \in SUBSET Facts
        /\ N \subseteq F /\ N \subseteq I /\ "idle" \in I /\ "fresh" \in I /\ "fresh" \in F
        /\ "drained" \in I /\ D \subseteq Forwarding(D) /\ F \subseteq I
    BY Stages DEF Forwarding, Idling
  <1>4. Runs(SetProxy("drain", base), F, F)
    BY <1>2, <1>3, RunsForward
  <1>5. Runs(Mark("drained"), F, Forwarding(D))
    <2>1. Takes([do |-> "mark", flag |-> "drained"], F, Forwarding(D))
      <3>1. [do |-> "mark", flag |-> "drained"] \in Steps
        BY DEF Steps, Flags
      <3> QED BY <3>1 DEF Takes, Allowed, Effect, Forwarding
    <2> QED BY <1>3, <2>1, RunsStep DEF Mark
  <1>6. /\ Runs(SetProxy("hold", base), Forwarding(D), Holding(D))
        /\ Runs(WaitIdle, Holding(D), I)
    BY <1>3, RunsHold, RunsIdle
  <1>7. Runs(Mark("oldStop"), I, I) /\ Runs(Mark("newStart"), I, I)
    BY <1>2, <1>3, RunsMark
  <1>8. Runs(Stop(base.unit), I, I)
    BY <1>2, <1>3, RunsStop
  <1>9. /\ Runs(WritersIdle, Forwarding(D), Forwarding(D))
        /\ Runs(Write("prepared"), I, I) /\ Runs(WaitLock, I, I) /\ Runs(Begin(target.unit), I, I)
        /\ Runs(Ready(target.port), I, I) /\ Runs(Write("published"), I, I)
        /\ Runs(Enable(target.unit), F, F) /\ Runs(Disable(base.unit), F, F) /\ Runs(Clear, F, F)
        /\ Runs(Mark("published"), J, J) /\ Runs(Write("publishing"), J, J)
        /\ Runs(Publish(target), J, J)
    BY <1>2, <1>3, RunsCall
  <1>10. Runs(SetProxy("forward", target), I, F)
    BY <1>2, <1>3, RunsForward
  <1>11. /\ Runs(When(base.unit # target.unit, Disable(base.unit)), F, F)
         /\ Runs(When(moves, Write("publishing")), J, J)
    <2> HIDE DEF J, F, moves
    <2>1. moves \in BOOLEAN /\ (base.unit # target.unit) \in BOOLEAN
      BY DEF moves
    <2> QED BY <1>3, <1>9, <2>1, RunsWhen
  <1> HIDE DEF N, D, F, I, J
  <1>12. Runs(a1, F, Forwarding(D))
    BY <1>4, <1>5, RunsThen
  <1>13. Runs(a2, F, Forwarding(D))
    <2> HIDE DEF a1
    <2> QED BY <1>9, <1>12, RunsThen
  <1>14. Runs(a3, F, Holding(D))
    <2> HIDE DEF a2
    <2> QED BY <1>6, <1>13, RunsThen
  <1>15. Runs(a4, F, I)
    <2> HIDE DEF a3
    <2> QED BY <1>6, <1>14, RunsThen
  <1>16. Runs(a5, F, I)
    <2> HIDE DEF a4
    <2> QED BY <1>9, <1>15, RunsThen
  <1>17. Runs(a6, F, I)
    <2> HIDE DEF a5
    <2> QED BY <1>7, <1>16, RunsThen
  <1>18. Runs(a7, F, I)
    <2> HIDE DEF a6
    <2> QED BY <1>8, <1>17, RunsThen
  <1>19. Runs(a8, F, I)
    <2> HIDE DEF a7
    <2> QED BY <1>9, <1>18, RunsThen
  <1>20. Runs(a9, F, I)
    <2> HIDE DEF a8
    <2> QED BY <1>7, <1>19, RunsThen
  <1>21. Runs(a10, F, I)
    <2> HIDE DEF a9
    <2> QED BY <1>9, <1>20, RunsThen
  <1>22. Runs(a11, F, I)
    <2> HIDE DEF a10
    <2> QED BY <1>9, <1>21, RunsThen
  <1>23. Runs(b1, I, F)
    BY <1>9, <1>10, RunsThen
  <1>24. Runs(b2, I, F)
    <2> HIDE DEF b1
    <2> QED BY <1>9, <1>23, RunsThen
  <1>25. Runs(b3, I, F)
    <2> HIDE DEF b2
    <2> QED BY <1>11, <1>24, RunsThen
  <1>26. Runs(b4, I, F)
    <2> HIDE DEF b3
    <2> QED BY <1>9, <1>25, RunsThen
  <1> HIDE DEF a11, b4
  <1>27. Runs(When(moves, a11), F, J) /\ Runs(When(moves, b4), J, F)
    <2>1. moves => J = I
      BY DEF J
    <2>2. ~moves => J = F
      BY DEF J
    <2> HIDE DEF moves
    <2>3. moves \in BOOLEAN
      BY DEF moves
    <2> QED BY <1>3, <1>22, <1>26, <2>1, <2>2, <2>3, RunsWhen
  <1> HIDE DEF moves
  <1>28. Runs(When(moves, a11) \o Mark("published"), F, J)
    BY <1>9, <1>27, RunsThen
  <1>29. Runs(When(moves, a11) \o Mark("published") \o When(moves, Write("publishing")), F, J)
    BY <1>11, <1>28, RunsThen
  <1>30. Runs(When(moves, a11) \o Mark("published") \o When(moves, Write("publishing"))
                \o Publish(target), F, J)
    BY <1>9, <1>29, RunsThen
  <1>31. Runs(When(moves, a11) \o Mark("published") \o When(moves, Write("publishing"))
                \o Publish(target) \o When(moves, b4), F, F)
    BY <1>27, <1>30, RunsThen
  <1> QED
    BY <1>1, <1>3, <1>31

\* The catch block, after any step that failed: what it knows is whether the run
\* got so far as to drain the proxy, and without that it stops nothing.
LEMMA RecoveryRuns ==
  ASSUME NEW s, s.state \in Active, s.target \in Active, s.pending \in BOOLEAN,
         "oldStop" \in s.marks \/ "newStart" \in s.marks => "drained" \in s.marks,
         NEW N, N = (IF "drained" \in s.marks THEN {"drained"} ELSE {})
  PROVE  \E B \in SUBSET Facts : Runs(Recovery(s), N, B)
  <1> DEFINE oldStop   == "oldStop" \in s.marks
             newStart  == "newStart" \in s.marks
             drained   == "drained" \in s.marks
             published == "published" \in s.marks
             legacy    == s.state.unit # "active"
             restored  == IF oldStop THEN OnActiveUnit(s.state) ELSE s.state
             last      == s.interrupted = {} \/ "recovered" \in s.marks
             I  == IF drained THEN Idling(N) ELSE N
             B  == IF drained THEN Forwarding(N) ELSE N
             hold == SetProxy("hold", s.state) \o WaitIdle
             b1 == When(legacy, Stop(s.state.unit)) \o Enable("active")
             b2 == b1 \o When(legacy, Disable(s.state.unit))
             c1 == Begin("active") \o Ready(restored.port)
             p1 == When(oldStop /\ s.pending, Write("recovering")) \o When(drained, hold)
             p2 == p1 \o When(newStart, Stop(s.target.unit))
             p3 == p2 \o When(oldStop, b2)
             p4 == p3 \o When(published \/ oldStop, Publish(restored))
             p5 == p4 \o When(oldStop, c1)
             p6 == p5 \o When(drained, SetProxy("forward", restored))
             p7 == p6 \o When(last, Clear)
  <1>1. Recovery(s) = p7
    BY DEF Recovery
  <1>2. /\ restored \in Active /\ restored.port \in Ports
        /\ s.state.unit \in Units /\ s.target.unit \in Units /\ "active" \in Units
        /\ "forward" \in Modes
    <2>1. OnActiveUnit(s.state) \in Active
      BY DEF OnActiveUnit, Active, Units
    <2> QED BY <2>1 DEF Active, Units, Modes
  <1>3. /\ N \in SUBSET {"drained"} /\ N \in SUBSET Facts
        /\ I \in SUBSET Facts /\ B \in SUBSET Facts
        /\ Holding(N) \in SUBSET Facts
        /\ N \subseteq I /\ N \subseteq B
        /\ drained => "idle" \in I /\ "fresh" \in I /\ I = Idling(N) /\ B = Forwarding(N)
        /\ ~drained => I = N /\ B = N
    BY Stages
  <1>4. /\ oldStop \in BOOLEAN /\ newStart \in BOOLEAN /\ drained \in BOOLEAN /\ legacy \in BOOLEAN
        /\ last \in BOOLEAN /\ (published \/ oldStop) \in BOOLEAN
        /\ (oldStop /\ s.pending) \in BOOLEAN
        /\ oldStop \/ newStart => drained
    OBVIOUS
  <1> HIDE DEF I, B, oldStop, newStart, drained, published, legacy, restored, last
  <1>5. drained => Runs(hold, N, I)
    <2>1. Runs(SetProxy("hold", s.state), N, Holding(N)) /\ Runs(WaitIdle, Holding(N), Idling(N))
      BY <1>3, RunsHold, RunsIdle
    <2> QED BY <1>3, <2>1, RunsThen
  <1>6. drained => /\ Runs(Stop(s.target.unit), I, I) /\ Runs(Stop(s.state.unit), I, I)
                   /\ Runs(SetProxy("forward", restored), I, B)
    BY <1>2, <1>3, RunsStop, RunsForward
  <1>7. /\ Runs(Write("recovering"), N, N)
        /\ Runs(Enable("active"), I, I) /\ Runs(Disable(s.state.unit), I, I)
        /\ Runs(Publish(restored), I, I) /\ Runs(Begin("active"), I, I)
        /\ Runs(Ready(restored.port), I, I) /\ Runs(Clear, B, B)
    BY <1>2, <1>3, RunsCall
  <1>8. Runs(When(oldStop /\ s.pending, Write("recovering")), N, N)
    BY <1>3, <1>4, <1>7, RunsWhen
  <1>9. Runs(When(drained, hold), N, I)
    <2> HIDE DEF hold
    <2> QED BY <1>3, <1>4, <1>5, RunsWhen
  <1>10. Runs(When(newStart, Stop(s.target.unit)), I, I)
    BY <1>3, <1>4, <1>6, RunsWhen
  <1>11. Runs(When(oldStop, b2), I, I)
    <2>1. ASSUME oldStop PROVE Runs(b2, I, I)
      <3>1. Runs(When(legacy, Stop(s.state.unit)), I, I)
        BY <1>3, <1>4, <1>6, <2>1, RunsWhen
      <3>2. Runs(When(legacy, Disable(s.state.unit)), I, I)
        BY <1>3, <1>4, <1>7, RunsWhen
      <3>3. Runs(b1, I, I)
        BY <1>7, <3>1, RunsThen
      <3> HIDE DEF b1
      <3> QED BY <3>2, <3>3, RunsThen
    <2> HIDE DEF b2
    <2> QED BY <1>3, <1>4, <2>1, RunsWhen
  <1>12. Runs(When(published \/ oldStop, Publish(restored)), I, I)
    BY <1>3, <1>4, <1>7, RunsWhen
  <1>13. Runs(When(oldStop, c1), I, I)
    <2>1. Runs(c1, I, I)
      BY <1>7, RunsThen
    <2> HIDE DEF c1
    <2> QED BY <1>3, <1>4, <2>1, RunsWhen
  <1>14. Runs(When(drained, SetProxy("forward", restored)), I, B)
    BY <1>3, <1>4, <1>6, RunsWhen
  <1>15. Runs(When(last, Clear), B, B)
    BY <1>3, <1>4, <1>7, RunsWhen
  <1> HIDE DEF hold, b2, c1
  <1>16. Runs(p1, N, I)
    BY <1>8, <1>9, RunsThen
  <1>17. Runs(p2, N, I)
    <2> HIDE DEF p1
    <2> QED BY <1>10, <1>16, RunsThen
  <1>18. Runs(p3, N, I)
    <2> HIDE DEF p2
    <2> QED BY <1>11, <1>17, RunsThen
  <1>19. Runs(p4, N, I)
    <2> HIDE DEF p3
    <2> QED BY <1>12, <1>18, RunsThen
  <1>20. Runs(p5, N, I)
    <2> HIDE DEF p4
    <2> QED BY <1>13, <1>19, RunsThen
  <1>21. Runs(p6, N, B)
    <2> HIDE DEF p5
    <2> QED BY <1>14, <1>20, RunsThen
  <1>22. Runs(p7, N, B)
    <2> HIDE DEF p6
    <2> QED BY <1>15, <1>21, RunsThen
  <1> HIDE DEF p7
  <1> QED
    BY <1>1, <1>3, <1>22

-----------------------------------------------------------------------------
(* The switch process *)

Process ==
    [todo : Seq(Steps \union {Recovered}), state : Active, target : Active,
     interrupted : SUBSET Pending, pending : BOOLEAN, proxy : ProxyState,
     marks : SUBSET (Flags \union {"recovered", "recovering"})]

\* What the facts mean for the process s.
Known(s, K) ==
    /\ "fresh" \in K => s.proxy.generation = stateFile.generation
    /\ "hold" \in K => stateFile.mode = "hold"
    /\ "acked" \in K => Acked
    /\ "idle" \in K => Acked /\ InFlight = {}
    /\ "drained" \in K => "drained" \in s.marks

\* The rest of the plan can be carried out from there.
Planned(plan, K) == Plans(ProxyRules, plan, K, {"fresh"})

MarksInOrder(s) == "oldStop" \in s.marks \/ "newStart" \in s.marks => "drained" \in s.marks

\* The process published the newest generation, or last acknowledged the one before.
UpToDate(s) == s.proxy.generation = stateFile.generation \/ s.proxy.generation + 1 = stateFile.generation

ProcessOK(s) ==
    /\ s \in Process /\ s.todo # <<>>
    /\ \A i, j \in s.interrupted : i = j
    /\ UpToDate(s) /\ MarksInOrder(s)
    /\ \E K \in SUBSET Facts : Known(s, K) /\ Planned(s.todo, K)

HostOK ==
    /\ journal \subseteq Pending /\ \A i, j \in journal : i = j
    /\ switchState \in Active /\ webLink \in Webs /\ apiLink \in Apis
    /\ running \in [Units -> SUBSET [api : Apis, port : Ports]]
    /\ enabled \subseteq Units /\ starting \subseteq Units
    /\ faults \in 0..MaxFaults

ProcessesOK == \A s \in sw : ProcessOK(s) /\ \A t \in sw : s = t

SwitchInv == TypeOK /\ Wire /\ HostOK /\ ProcessesOK

\* What the first step of the plan may rely on, and the rest after it.
LEMMA HeadTaken ==
  ASSUME NEW s, ProcessOK(s), Head(s.todo) # Recovered
  PROVE  /\ Head(s.todo) \in Steps
         /\ \E K, C \in SUBSET Facts :
               Known(s, K) /\ Takes(Head(s.todo), K, C) /\ Planned(Tail(s.todo), C)
  <1>1. PICK A \in SUBSET Facts : Known(s, A) /\ Planned(s.todo, A)
    BY DEF ProcessOK
  <1>2. \A K \in SUBSET A : Known(s, K)
    BY <1>1 DEF Known
  <1>3. /\ Head(s.todo) \in Steps
        /\ \E K, C \in SUBSET Facts :
              /\ K \subseteq A /\ Under(ProxyRules, Head(s.todo), K, C)
              /\ Plans(ProxyRules, Tail(s.todo), C, {"fresh"})
    BY <1>1, PlansOn DEF ProcessOK, Planned
  <1> QED
    BY <1>2, <1>3, ProxyRule DEF Planned

LEMMA LongerThanOne ==
  ASSUME NEW S, NEW q \in Seq(S), Len(q) > 1
  PROVE  Tail(q) \in Seq(S) /\ Tail(q) # <<>>
  <1>1. q # <<>> /\ Len(q) \in Nat
    OBVIOUS
  <1>2. Tail(q) \in Seq(S) /\ Len(Tail(q)) = Len(q) - 1
    BY <1>1, HeadTailProperties
  <1> DEFINE r == Tail(q)
             n == Len(q)
  <1>3. n > 1 /\ n \in Nat /\ Len(r) = n - 1
    BY <1>1, <1>2
  <1> HIDE DEF n, r
  <1>4. Len(r) # 0
    BY <1>3
  <1>5. r # <<>>
    BY <1>4, EmptySeq
  <1> QED
    BY <1>2, <1>5 DEF r

\* The process goes on to the rest of its plan.
LEMMA Advances ==
  ASSUME NEW t, t \in Process, \A i, j \in t.interrupted : i = j,
         UpToDate(t)', MarksInOrder(t),
         \E K \in SUBSET Facts : Known(t, K)' /\ Planned(Tail(t.todo), K),
         sw' = Continue(t)
  PROVE  ProcessesOK'
  <1> SUFFICES ASSUME Len(t.todo) > 1 PROVE ProcessesOK'
    BY DEF Continue, ProcessesOK, Process
  <1> DEFINE x == [t EXCEPT !.todo = Tail(t.todo)]
  <1>1. sw' = {x}
    BY DEF Continue, Process
  <1>2. Tail(t.todo) \in Seq(Steps \union {Recovered}) /\ Tail(t.todo) # <<>>
    <2>1. t.todo \in Seq(Steps \union {Recovered})
      BY DEF Process
    <2> QED BY <2>1, LongerThanOne
  <1>3. /\ x \in Process /\ x.todo = Tail(t.todo) /\ x.interrupted = t.interrupted
        /\ x.proxy = t.proxy /\ x.marks = t.marks
    BY <1>2 DEF Process
  <1> HIDE DEF x
  <1>4. ProcessOK(x)'
    BY <1>2, <1>3 DEF ProcessOK, UpToDate, MarksInOrder, Known
  <1> QED
    BY <1>1, <1>4 DEF ProcessesOK

\* The process goes on to its recovery plan, or ends.
LEMMA Raises ==
  ASSUME NEW s, ProcessOK(s), stateFile' = stateFile, sw' = Raise(s)
  PROVE  ProcessesOK'
  <1> SUFFICES ASSUME sw' # {} PROVE ProcessesOK'
    BY DEF ProcessesOK
  <1> DEFINE plan == Recovery(s)
             x    == [s EXCEPT !.todo = plan, !.marks = @ \union {"recovering"}]
             N    == IF "drained" \in s.marks THEN {"drained"} ELSE {}
  <1>1. sw' = {x} /\ plan # <<>>
    BY DEF Raise
  <1>2. s \in Process /\ MarksInOrder(s)
    BY DEF ProcessOK
  <1>3. PICK B \in SUBSET Facts : Runs(plan, N, B)
    BY <1>2, RecoveryRuns DEF Process, MarksInOrder
  <1> HIDE DEF plan
  <1>4. plan \in Seq(Steps \union {Recovered})
    <2>1. plan \in Seq(Steps)
      BY <1>3 DEF Runs, Carries
    <2> QED BY <2>1
  <1>5. /\ x \in Process /\ x.todo = plan /\ x.interrupted = s.interrupted /\ x.proxy = s.proxy
        /\ x.marks = s.marks \union {"recovering"}
    BY <1>2, <1>4 DEF Process
  <1> HIDE DEF x
  <1>6. N \in SUBSET Facts /\ Known(x, N)'
    BY <1>5 DEF Known, Facts, ReleaseFacts
  <1>7. UpToDate(x)' /\ MarksInOrder(x)
    BY <1>5 DEF ProcessOK, UpToDate, MarksInOrder
  <1>8. Planned(plan, N)
    BY <1>3 DEF Planned, Plans, Runs
  <1> HIDE DEF N
  <1>9. ProcessOK(x)'
    BY <1>1, <1>5, <1>6, <1>7, <1>8 DEF ProcessOK, MarksInOrder
  <1> QED
    BY <1>1, <1>9 DEF ProcessesOK

\* A step of somebody else.
LEMMA Waiting ==
  ASSUME Held, ProcessesOK, sw' \subseteq sw
  PROVE  ProcessesOK'
  <1>1. ASSUME NEW s \in sw PROVE ProcessOK(s)'
    <2>1. ProcessOK(s)
      BY DEF ProcessesOK
    <2>2. \A K \in SUBSET Facts : Known(s, K) => Known(s, K)'
      BY DEF Held, Known
    <2> QED
      BY <2>1, <2>2 DEF Held, ProcessOK, UpToDate, MarksInOrder
  <1> QED
    BY <1>1 DEF ProcessesOK

\* A step of the process that teaches it nothing, and publishes no proxy state.
LEMMA Continues ==
  ASSUME Held, NEW s, ProcessOK(s), Head(s.todo) # Recovered,
         Head(s.todo).do \notin {"setProxy", "waitProxy", "waitIdle"},
         Head(s.todo).do = "mark" => Head(s.todo).flag # "drained",
         NEW t, t \in {s, [s EXCEPT !.pending = TRUE]}, sw' = Continue(t)
  PROVE  ProcessesOK'
  <1>1. PICK K \in SUBSET Facts, C \in SUBSET Facts :
           Known(s, K) /\ Takes(Head(s.todo), K, C) /\ Planned(Tail(s.todo), C)
    BY HeadTaken
  <1>2. C \subseteq K
    BY <1>1 DEF Takes, Effect
  <1>3. s \in Process
    BY DEF ProcessOK
  <1>4. /\ t \in Process /\ t.todo = s.todo /\ t.interrupted = s.interrupted /\ t.proxy = s.proxy
        /\ t.marks = s.marks
    BY <1>3 DEF Process
  <1>5. Known(t, C)'
    BY <1>1, <1>2, <1>4 DEF Held, Known
  <1>6. UpToDate(t)' /\ MarksInOrder(t)
    BY <1>4 DEF Held, ProcessOK, UpToDate, MarksInOrder
  <1>7. \A i, j \in t.interrupted : i = j
    BY <1>4 DEF ProcessOK
  <1>8. Planned(Tail(t.todo), C)
    BY <1>1, <1>4
  <1> QED
    BY <1>4, <1>5, <1>6, <1>7, <1>8, Advances

-----------------------------------------------------------------------------
(* The steps *)

\* A step that leaves the proxy and its files alone.
LEMMA Resting ==
  ASSUME SwitchInv, UNCHANGED proxyVars
  PROVE  TypeOK' /\ Wire' /\ Held
  <1>1. TypeOK'
    BY NextTypeOK DEF SwitchInv
  <1>2. Held
    BY ProxyRests DEF SwitchInv
  <1> QED
    BY <1>1, <1>2 DEF Held

LEMMA SetsProxyStep ==
  ASSUME SwitchInv, NEW s \in sw, SetsProxy(s)
  PROVE  SwitchInv'
  <1>1. ProcessOK(s) /\ s \in Process
    BY DEF SwitchInv, ProcessesOK, ProcessOK
  <1>2. Head(s.todo) # Recovered
    BY DEF SetsProxy, At, Recovered
  <1>3. PICK K \in SUBSET Facts, C \in SUBSET Facts :
           Known(s, K) /\ Takes(Head(s.todo), K, C) /\ Planned(Tail(s.todo), C)
    BY <1>1, <1>2, HeadTaken
  <1> DEFINE st == Head(s.todo)
  <1>4. st \in Steps /\ st.do = "setProxy" /\ st.mode \in Modes /\ st.port \in Ports
    BY <1>1, <1>2, HeadTaken, StepTypes DEF SetsProxy, At
  <1> HIDE DEF st
  <1>5. /\ stateFile' = [generation |-> s.proxy.generation + 1, mode |-> st.mode, port |-> st.port]
        /\ s.proxy.generation < MaxGeneration
        /\ UNCHANGED <<statusFile, process, state, reading, statusVars, requestVars,
                       journal, linkVars, hostVars>>
        /\ sw' = Continue(s) /\ faults' = faults
    BY DEF SetsProxy, Proceeds, st
  <1>6. s.proxy.generation \in 1..MaxGeneration /\ stateFile.generation \in 1..MaxGeneration
    BY <1>1 DEF Process, ProxyState, SwitchInv, TypeOK
  <1>7. stateFile' \in ProxyState
    <2>1. s.proxy.generation + 1 \in 1..MaxGeneration
      BY <1>5, <1>6, BoundsAssumption
    <2> QED BY <1>4, <1>5, <2>1 DEF ProxyState
  <1>8. TypeOK'
    BY <1>5, <1>7 DEF SwitchInv, TypeOK, statusVars, requestVars
  <1>9. s.proxy.generation # stateFile.generation => st.mode = "hold"
    BY <1>3, <1>4 DEF Takes, Allowed, Known, st
  <1>10. Wire'
    <2>1. /\ stateFile'.generation = s.proxy.generation + 1 /\ stateFile'.mode = st.mode
      BY <1>5
    <2>2. \/ stateFile'.generation = stateFile.generation + 1
          \/ stateFile'.generation = stateFile.generation /\ stateFile'.mode = "hold"
      BY <1>1, <1>6, <1>9, <2>1 DEF ProcessOK, UpToDate
    <2> QED BY <1>5, <2>2, Publishes DEF SwitchInv
  <1>11. HostOK'
    BY <1>5 DEF SwitchInv, HostOK, linkVars, hostVars
  <1>12. ProcessesOK'
    <2>1. UpToDate(s)'
      BY <1>5 DEF UpToDate
    <2>2. C \subseteq {"drained"} \union (IF st.mode = "hold" THEN {"hold"} ELSE {})
      BY <1>3, <1>4 DEF Takes, Effect, st
    <2>3. "drained" \in C => "drained" \in s.marks
      BY <1>3, <1>4 DEF Takes, Effect, Known, st
    <2>4. Known(s, C)'
      BY <1>5, <2>2, <2>3 DEF Known
    <2> QED
      BY <1>1, <1>3, <1>5, <2>1, <2>4, Advances DEF ProcessOK
  <1> QED
    BY <1>8, <1>10, <1>11, <1>12 DEF SwitchInv

LEMMA WaitsStep ==
  ASSUME SwitchInv, NEW s \in sw, Waits(s)
  PROVE  SwitchInv'
  <1>1. ProcessOK(s) /\ s \in Process
    BY DEF SwitchInv, ProcessesOK, ProcessOK
  <1>2. /\ UNCHANGED <<proxyVars, journal, linkVars, hostVars>> /\ faults' = faults
        /\ Head(s.todo).do \in {"waitProxy", "waitIdle", "waitWritersIdle", "waitLock", "waitReady"}
    BY DEF Waits, At, Proceeds
  <1>3. Head(s.todo) # Recovered
    BY <1>2 DEF Recovered
  <1>4. TypeOK' /\ Wire' /\ Held
    BY <1>2, Resting
  <1>5. HostOK'
    BY <1>2 DEF SwitchInv, HostOK, linkVars, hostVars
  <1>6. PICK K \in SUBSET Facts, C \in SUBSET Facts :
           Known(s, K) /\ Takes(Head(s.todo), K, C) /\ Planned(Tail(s.todo), C)
    BY <1>1, <1>3, HeadTaken
  <1>7. CASE At(s, "waitProxy") /\ Acknowledged /\ Proceeds([s EXCEPT !.proxy = stateFile])
    <2>1. PICK t \in Process : /\ t.todo = s.todo /\ t.interrupted = s.interrupted
                               /\ t.proxy = stateFile /\ t.marks = s.marks
                               /\ sw' = Continue(t)
      <3>1. [s EXCEPT !.proxy = stateFile] \in Process
        BY <1>1 DEF Process, SwitchInv, TypeOK
      <3> QED BY <1>1, <1>7, <3>1 DEF Process, Proceeds
    <2>2. C \subseteq K \union {"fresh"} \union (IF "hold" \in K THEN {"acked"} ELSE {})
      BY <1>6, <1>7 DEF Takes, Effect, At
    <2>3. "hold" \in K => Acked
      BY <1>6, <1>7, HoldAcknowledged DEF Known, SwitchInv
    <2>4. Known(t, C)'
      BY <1>4, <1>6, <2>1, <2>2, <2>3 DEF Known, Held
    <2>5. UpToDate(t)' /\ MarksInOrder(t) /\ \A i, j \in t.interrupted : i = j
      BY <1>1, <1>4, <2>1 DEF Held, ProcessOK, UpToDate, MarksInOrder
    <2>6. Planned(Tail(t.todo), C)
      BY <1>6, <2>1
    <2>7. ProcessesOK'
      BY <2>1, <2>4, <2>5, <2>6, Advances
    <2> QED
      BY <1>4, <1>5, <2>7 DEF SwitchInv
  <1>8. CASE At(s, "waitIdle") /\ statusFile.active = 0 /\ Proceeds(s)
    <2>1. C \subseteq K \union (IF "acked" \in K THEN {"idle"} ELSE {})
      BY <1>6, <1>8 DEF Takes, Effect, At
    <2>2. "acked" \in K => Acked /\ InFlight = {}
      BY <1>6, <1>8 DEF Known, Acked, Reports
    <2>3. Known(s, C)'
      BY <1>4, <1>6, <2>1, <2>2 DEF Known, Held
    <2>4. UpToDate(s)' /\ MarksInOrder(s) /\ \A i, j \in s.interrupted : i = j
      BY <1>1, <1>4 DEF Held, ProcessOK, UpToDate, MarksInOrder
    <2>5. ProcessesOK'
      BY <1>1, <1>6, <1>8, <2>3, <2>4, Advances DEF Proceeds
    <2> QED
      BY <1>4, <1>5, <2>5 DEF SwitchInv
  <1>9. CASE Head(s.todo).do \in {"waitWritersIdle", "waitLock", "waitReady"} /\ Proceeds(s)
    <2>1. ProcessesOK'
      BY <1>1, <1>3, <1>4, <1>9, Continues DEF Proceeds
    <2> QED
      BY <1>4, <1>5, <2>1 DEF SwitchInv
  <1> QED
    BY <1>7, <1>8, <1>9 DEF Waits, At

LEMMA FaultCounted ==
  ASSUME HostOK, Fault
  PROVE  faults' \in 0..MaxFaults
  BY FaultsAssumption DEF HostOK, Fault

LEMMA ThrowsStep ==
  ASSUME SwitchInv, NEW s \in sw, TimesOut(s) \/ Throws(s)
  PROVE  SwitchInv'
  <1>1. ProcessOK(s)
    BY DEF SwitchInv, ProcessesOK
  <1>2. UNCHANGED <<proxyVars, journal, linkVars, hostVars>> /\ sw' = Raise(s)
    BY DEF TimesOut, Throws
  <1>3. TypeOK' /\ Wire' /\ Held
    BY <1>2, Resting
  <1>4. faults' \in 0..MaxFaults
    BY FaultCounted DEF TimesOut, Throws, SwitchInv, HostOK
  <1>5. HostOK'
    BY <1>2, <1>4 DEF SwitchInv, HostOK, linkVars, hostVars
  <1>6. ProcessesOK'
    BY <1>1, <1>2, <1>3, Raises DEF Held
  <1> QED
    BY <1>3, <1>5, <1>6 DEF SwitchInv

\* A call that returns, or throws.
LEMMA ReturnsStep ==
  ASSUME SwitchInv, NEW s \in sw, Head(s.todo) # Recovered,
         Head(s.todo).do \notin {"setProxy", "waitProxy", "waitIdle", "mark"},
         UNCHANGED proxyVars,
         NEW t, t \in {s, [s EXCEPT !.pending = TRUE]}, Returns(s, t)
  PROVE  ProcessesOK' /\ faults' \in 0..MaxFaults
  <1>1. ProcessOK(s)
    BY DEF SwitchInv, ProcessesOK
  <1>2. Held
    BY Resting
  <1>3. CASE sw' = Continue(t) /\ UNCHANGED faults
    <2>1. faults' \in 0..MaxFaults
      BY <1>3 DEF SwitchInv, HostOK
    <2> QED BY <1>1, <1>2, <1>3, <2>1, Continues
  <1>4. CASE Fault /\ sw' = Raise(s)
    <2>1. faults' \in 0..MaxFaults
      BY <1>4, FaultCounted DEF SwitchInv
    <2> QED BY <1>1, <1>2, <1>4, <2>1, Raises DEF Held
  <1> QED
    BY <1>3, <1>4 DEF Returns

\* What a unit would run is a release on a port.
LEMMA EntryType ==
  ASSUME HostOK, NEW u \in Units
  PROVE  Entry(u) \in [api : Apis, port : Ports]
  <1>1. CASE u = "legacy"
    BY <1>1, PortsAssumption DEF Entry, HostOK
  <1>2. CASE u # "legacy" /\ journal = {}
    BY <1>2 DEF Entry, HostOK, Active
  <1>3. CASE u # "legacy" /\ journal # {}
    <2> DEFINE j == CHOOSE j \in journal : TRUE
    <2>1. j \in journal
      BY <1>3
    <2>2. j.base \in Active /\ j.target \in Active
      BY <2>1 DEF HostOK, Pending
    <2>3. Entry(u) = LET chosen == IF j.phase = "recovering" THEN j.base ELSE j.target
                     IN  [api |-> chosen.api, port |-> chosen.port]
      BY <1>3 DEF Entry
    <2> HIDE DEF j
    <2> QED BY <2>2, <2>3 DEF Active
  <1> QED
    BY <1>1, <1>2, <1>3

LEMMA StartUnitType ==
  ASSUME HostOK, NEW u \in Units, StartUnit(u)
  PROVE  /\ running' \in [Units -> SUBSET [api : Apis, port : Ports]]
         /\ starting' \subseteq Units /\ enabled' = enabled
  <1>1. Entry(u) \in [api : Apis, port : Ports]
    BY EntryType
  <1>2. {Entry(u)} \in SUBSET [api : Apis, port : Ports]
    BY <1>1
  <1> QED
    BY <1>2 DEF StartUnit, HostOK

LEMMA ControlsUnitStep ==
  ASSUME SwitchInv, NEW s \in sw, ControlsUnit(s)
  PROVE  SwitchInv'
  <1>1. /\ UNCHANGED <<proxyVars, journal, linkVars>> /\ Returns(s, s)
        /\ Head(s.todo).do \in {"stop", "start", "enable", "disable"}
    BY DEF ControlsUnit, At
  <1>2. Head(s.todo) # Recovered
    BY <1>1 DEF Recovered
  <1>3. Head(s.todo).unit \in Units
    BY <1>1, <1>2, HeadTaken, StepTypes DEF SwitchInv, ProcessesOK
  <1>4. TypeOK' /\ Wire'
    BY <1>1, Resting
  <1>5. ProcessesOK' /\ faults' \in 0..MaxFaults
    BY <1>1, <1>2, ReturnsStep
  <1>6. /\ running' \in [Units -> SUBSET [api : Apis, port : Ports]]
        /\ starting' \subseteq Units /\ enabled' \subseteq Units
    <2>1. CASE StopUnit(Head(s.todo).unit)
      BY <1>3, <2>1 DEF StopUnit, SwitchInv, HostOK
    <2>2. CASE StartUnit(Head(s.todo).unit)
      BY <1>3, <2>2, StartUnitType DEF SwitchInv, HostOK
    <2>3. CASE /\ enabled' \in {enabled \union {Head(s.todo).unit}, enabled \ {Head(s.todo).unit}}
               /\ UNCHANGED <<running, starting>>
      BY <1>3, <2>3 DEF SwitchInv, HostOK
    <2> QED BY <2>1, <2>2, <2>3 DEF ControlsUnit
  <1>7. HostOK'
    BY <1>1, <1>5, <1>6 DEF SwitchInv, HostOK, linkVars
  <1> QED
    BY <1>4, <1>5, <1>7 DEF SwitchInv

LEMMA WritesJournalStep ==
  ASSUME SwitchInv, NEW s \in sw, WritesJournal(s)
  PROVE  SwitchInv'
  <1>1. ProcessOK(s) /\ s \in Process
    BY DEF SwitchInv, ProcessesOK, ProcessOK
  <1>2. /\ UNCHANGED <<proxyVars, linkVars, hostVars>>
        /\ Head(s.todo).do \in {"journal", "clear"}
    BY DEF WritesJournal, At
  <1>3. Head(s.todo) # Recovered
    BY <1>2 DEF Recovered
  <1>4. TypeOK' /\ Wire'
    BY <1>2, Resting
  <1>5. ProcessesOK' /\ faults' \in 0..MaxFaults
    <2>1. \E t \in {s, [s EXCEPT !.pending = TRUE]} : Returns(s, t)
      BY DEF WritesJournal, Returns, Proceeds
    <2> QED BY <1>2, <1>3, <2>1, ReturnsStep
  <1>6. journal' \subseteq Pending /\ \A i, j \in journal' : i = j
    <2>1. CASE At(s, "journal") /\ "recovered" \in s.marks
      <3>1. Head(s.todo).phase \in {"prepared", "publishing", "published", "recovering"}
        BY <1>1, <1>3, <2>1, HeadTaken, StepTypes DEF At
      <3>2. s.state \in Active /\ s.target \in Active
        BY <1>1 DEF Process
      <3>3. journal' = {[phase |-> Head(s.todo).phase, base |-> s.state, target |-> s.target]}
        BY <2>1 DEF WritesJournal, At
      <3> QED BY <3>1, <3>2, <3>3 DEF Pending
    <2>2. CASE At(s, "journal") /\ "recovered" \notin s.marks
      <3>1. journal' = s.interrupted
        BY <2>2 DEF WritesJournal, At
      <3> QED BY <1>1, <3>1 DEF Process, ProcessOK
    <2>3. CASE At(s, "clear")
      BY <2>3 DEF WritesJournal, At
    <2> QED BY <2>1, <2>2, <2>3 DEF WritesJournal
  <1>7. HostOK'
    BY <1>2, <1>5, <1>6 DEF SwitchInv, HostOK, linkVars, hostVars
  <1> QED
    BY <1>4, <1>5, <1>7 DEF SwitchInv

LEMMA PublishesLinksStep ==
  ASSUME SwitchInv, NEW s \in sw, PublishesLinks(s)
  PROVE  SwitchInv'
  <1>1. /\ UNCHANGED <<proxyVars, journal, hostVars>>
        /\ Head(s.todo).do \in {"webLink", "apiLink", "switchState"}
        /\ Returns(s, s)
    BY DEF PublishesLinks, At, Returns, Proceeds
  <1>2. Head(s.todo) # Recovered
    BY <1>1 DEF Recovered
  <1>3. Head(s.todo) \in Steps
    BY <1>2, HeadTaken DEF SwitchInv, ProcessesOK
  <1>4. TypeOK' /\ Wire'
    BY <1>1, Resting
  <1>5. ProcessesOK' /\ faults' \in 0..MaxFaults
    BY <1>1, <1>2, ReturnsStep
  <1>6. switchState' \in Active /\ webLink' \in Webs /\ apiLink' \in Apis
    BY <1>3, StepTypes DEF PublishesLinks, At, SwitchInv, HostOK
  <1>7. HostOK'
    BY <1>1, <1>5, <1>6 DEF SwitchInv, HostOK, hostVars
  <1> QED
    BY <1>4, <1>5, <1>7 DEF SwitchInv

LEMMA MarksStep ==
  ASSUME SwitchInv, NEW s \in sw, Marks(s)
  PROVE  SwitchInv'
  <1>1. ProcessOK(s) /\ s \in Process
    BY DEF SwitchInv, ProcessesOK, ProcessOK
  <1>2. /\ UNCHANGED <<proxyVars, journal, linkVars, hostVars>> /\ faults' = faults
        /\ Head(s.todo).do = "mark"
    BY DEF Marks, At, Proceeds
  <1>3. TypeOK' /\ Wire' /\ Held
    BY <1>2, Resting
  <1>4. HostOK'
    BY <1>2 DEF SwitchInv, HostOK, linkVars, hostVars
  <1> DEFINE flag == Head(s.todo).flag
             plan == s.todo \o When(flag = "recovered", SwitchTo(s.state, s.target))
             t    == [s EXCEPT !.marks = @ \union {flag}, !.todo = plan]
  <1>5. sw' = Continue(t)
    BY DEF Marks, Proceeds
  <1>6. CASE Head(s.todo) # Recovered
    <2>1. PICK K \in SUBSET Facts, C \in SUBSET Facts :
             Known(s, K) /\ Takes(Head(s.todo), K, C) /\ Planned(Tail(s.todo), C)
      BY <1>1, <1>6, HeadTaken
    <2>2. flag \in Flags /\ flag # "recovered"
      BY <1>1, <1>2, <1>6, HeadTaken, StepTypes DEF Flags
    <2> HIDE DEF flag
    <2>3. plan = s.todo
      <3>1. s.todo \in Seq(Steps \union {Recovered}) /\ When(flag = "recovered", SwitchTo(s.state, s.target)) = <<>>
        BY <1>1, <2>2 DEF Process, When
      <3> QED BY <3>1, ConcatEmptySeq
    <2> HIDE DEF plan
    <2>4. /\ t \in Process /\ t.todo = s.todo /\ t.interrupted = s.interrupted
          /\ t.proxy = s.proxy /\ t.marks = s.marks \union {flag}
      BY <1>1, <2>2, <2>3 DEF Process
    <2> HIDE DEF t
    <2>5. C \subseteq K \union (IF flag = "drained" THEN {"drained"} ELSE {})
      BY <1>2, <2>1 DEF Takes, Effect, flag
    <2>6. Known(t, C)'
      BY <1>3, <2>1, <2>4, <2>5 DEF Known, Held
    <2>7. flag \in {"oldStop", "newStart"} => "drained" \in s.marks
      BY <1>2, <2>1 DEF Takes, Allowed, Known, flag
    <2>8. UpToDate(t)' /\ MarksInOrder(t) /\ \A i, j \in t.interrupted : i = j
      BY <1>1, <1>3, <2>4, <2>7 DEF Held, ProcessOK, UpToDate, MarksInOrder
    <2>9. Planned(Tail(t.todo), C)
      BY <2>1, <2>4
    <2>10. ProcessesOK'
      BY <1>5, <2>4, <2>6, <2>8, <2>9, Advances
    <2> QED
      BY <1>3, <1>4, <2>10 DEF SwitchInv
  <1>7. CASE Head(s.todo) = Recovered
    <2>1. PICK A \in SUBSET Facts : Known(s, A) /\ Planned(s.todo, A)
      BY <1>1 DEF ProcessOK
    <2>2. s.todo = <<Recovered>> /\ "fresh" \in A
      <3>1. s.todo # <<>> /\ Plans(ProxyRules, s.todo, A, {"fresh"})
        BY <1>1, <2>1 DEF ProcessOK, Planned
      <3> QED BY <1>7, <3>1, PlansEnd
    <2> DEFINE next == SwitchTo(s.state, s.target)
    <2>3. s.state \in Active /\ s.target \in Active
      BY <1>1 DEF Process
    <2>4. Runs(next, {"fresh"}, {"fresh"})
      BY <2>3, SwitchToRuns
    <2> HIDE DEF next
    <2>5. next \in Seq(Steps)
      BY <2>4 DEF Runs, Carries
    <2>6. flag = "recovered" /\ plan = <<Recovered>> \o next
      BY <1>7, <2>2 DEF Recovered, When, next
    <2> HIDE DEF flag, plan
    <2>7. plan \in Seq(Steps \union {Recovered}) /\ Tail(plan) = next
      <3> DEFINE T == Steps \union {Recovered}
      <3>1. next \in Seq(T) /\ Recovered \in T
        BY <2>5
      <3> HIDE DEF T
      <3>2. <<Recovered>> \o next \in Seq(T) /\ Tail(<<Recovered>> \o next) = next
        BY <3>1, AfterFirst
      <3> QED BY <2>6, <3>2 DEF T
    <2>8. /\ t \in Process /\ t.todo = plan /\ t.interrupted = s.interrupted
          /\ t.proxy = s.proxy /\ t.marks = s.marks \union {"recovered"}
      BY <1>1, <2>6, <2>7 DEF Process
    <2> HIDE DEF t
    <2> DEFINE F == {"fresh"}
    <2>9. F \in SUBSET Facts /\ Known(t, F)'
      BY <1>3, <2>1, <2>2, <2>8 DEF Known, Held, Facts, ReleaseFacts
    <2>10. UpToDate(t)' /\ MarksInOrder(t) /\ \A i, j \in t.interrupted : i = j
      BY <1>1, <1>3, <2>8 DEF Held, ProcessOK, UpToDate, MarksInOrder
    <2>11. Planned(Tail(t.todo), F)
      <3>1. F \in SUBSET Facts
        BY DEF Facts, ReleaseFacts
      <3> QED BY <2>4, <2>7, <2>8, <3>1 DEF Planned, Plans, Runs
    <2>12. ProcessesOK'
      <3> HIDE DEF F
      <3> QED BY <1>5, <2>8, <2>9, <2>10, <2>11, Advances
    <2> QED
      BY <1>3, <1>4, <2>12 DEF SwitchInv
  <1> QED
    BY <1>6, <1>7

\* What the next run goes on from.
LEMMA ReconciledType ==
  ASSUME HostOK
  PROVE  Reconciled \in Active
  <1>1. CASE journal = {}
    BY <1>1 DEF Reconciled, HostOK
  <1>2. CASE journal # {}
    <2> DEFINE j == CHOOSE j \in journal : TRUE
    <2>1. j \in Pending
      BY <1>2 DEF HostOK
    <2>2. j.base \in Active /\ j.target \in Active /\ OnActiveUnit(j.base) \in Active
      BY <2>1 DEF Pending, OnActiveUnit, Active, Units
    <2>3. Reconciled = IF Committed(j) THEN j.target ELSE OnActiveUnit(j.base)
      BY <1>2 DEF Reconciled
    <2> HIDE DEF j
    <2> QED BY <2>2, <2>3
  <1> QED
    BY <1>1, <1>2

LEMMA PublicTargetType ==
  ASSUME NEW t \in Targets, NEW base \in Active
  PROVE  PublicTarget(t, base) \in Active
  BY TargetsAssumption, PortsAssumption DEF PublicTarget, Active, Units

LEMMA RunStep ==
  ASSUME SwitchInv, NEW t \in Targets, Run(t)
  PROVE  SwitchInv'
  <1> DEFINE base        == Reconciled
             target      == PublicTarget(t, base)
             after(j)    == IF Committed(j) THEN j ELSE [j EXCEPT !.phase = "recovering"]
             interrupted == {after(j) : j \in journal}
             noOp        == t.web = base.web /\ t.api = base.api
             start       == When(interrupted # journal, Write("recovering"))
                              \o EnsureProxy(base, interrupted)
             plan        == start \o When(~noOp, Mark("recovered"))
             F           == {"fresh"}
             new         == [todo |-> plan, state |-> base, target |-> target,
                             interrupted |-> interrupted, pending |-> FALSE, proxy |-> stateFile,
                             marks |-> {}]
  <1>1. /\ sw' = {new}
        /\ UNCHANGED <<proxyVars, journal, linkVars, hostVars, faults>>
    BY DEF Run
  <1>2. TypeOK' /\ Wire' /\ stateFile' = stateFile /\ stateFile \in ProxyState
    BY <1>1, Resting DEF Held, SwitchInv, TypeOK
  <1>3. HostOK'
    BY <1>1 DEF SwitchInv, HostOK, linkVars, hostVars
  <1>4. base \in Active /\ target \in Active
    BY ReconciledType, PublicTargetType DEF SwitchInv
  <1>5. interrupted \in SUBSET Pending /\ \A i, j \in interrupted : i = j
    <2>1. ASSUME NEW j \in journal PROVE after(j) \in Pending
      BY DEF SwitchInv, HostOK, Pending
    <2> QED BY <2>1 DEF SwitchInv, HostOK
  <1>6. F \in SUBSET Facts
    BY DEF Facts, ReleaseFacts
  <1>7. Runs(start, F, F) /\ start # <<>>
    <2> HIDE DEF base, interrupted
    <2>1. Runs(EnsureProxy(base, interrupted), F, F) /\ EnsureProxy(base, interrupted) # <<>>
      BY <1>4, EnsureProxyRuns
    <2>2. Runs(When(interrupted # journal, Write("recovering")), F, F)
      <3>1. Runs(Write("recovering"), F, F) /\ (interrupted # journal) \in BOOLEAN
        BY <1>6, RunsCall
      <3> HIDE DEF F
      <3> QED BY <1>6, <3>1, RunsWhen
    <2>3. Runs(start, F, F)
      BY <2>1, <2>2, RunsThen
    <2> DEFINE p == When(interrupted # journal, Write("recovering"))
               q == EnsureProxy(base, interrupted)
    <2>4. p \in Seq(Steps) /\ q \in Seq(Steps) /\ q # <<>> /\ start = p \o q
      BY <2>1, <2>2 DEF Runs, Carries
    <2> HIDE DEF p, q, start
    <2>5. Len(p \o q) = Len(p) + Len(q) /\ Len(p) \in Nat /\ Len(q) \in Nat \ {0}
      BY <2>4
    <2>6. Len(start) # 0
      BY <2>4, <2>5
    <2>7. start # <<>>
      BY <2>6, EmptySeq
    <2> QED BY <2>3, <2>7
  <1> HIDE DEF start
  <1>8. /\ plan \in Seq(Steps \union {Recovered}) /\ plan # <<>>
        /\ Planned(plan, F)
    <2> DEFINE T == Steps \union {Recovered}
    <2>1. start \in Seq(Steps) /\ start \in Seq(T) /\ Len(start) \in Nat \ {0}
      <3>1. start \in Seq(Steps)
        BY <1>7 DEF Runs, Carries
      <3> QED BY <1>7, <3>1
    <2>2. CASE noOp
      <3>1. plan = start
        <4>1. plan = start \o <<>>
          BY <2>2 DEF When
        <4> HIDE DEF plan
        <4> QED BY <2>1, <4>1, ConcatEmptySeq
      <3> HIDE DEF plan
      <3> QED BY <1>6, <1>7, <2>1, <3>1 DEF Planned, Plans, Runs
    <2>3. CASE ~noOp
      <3> DEFINE last == <<Recovered>>
      <3>1. plan = start \o last
        BY <2>3 DEF When, Mark, Recovered
      <3>2. last \in Seq(T) /\ Len(last) = 1
        OBVIOUS
      <3>3. Planned(plan, F)
        <4> HIDE DEF plan
        <4> QED BY <1>7, <2>1, <3>1 DEF Planned, Plans, Runs
      <3> HIDE DEF plan, last
      <3>4. plan \in Seq(T) /\ Len(plan) = Len(start) + 1
        <4>1. start \o last \in Seq(T) /\ Len(start \o last) = Len(start) + 1
          <5> HIDE DEF T
          <5> QED BY <2>1, <3>2, JoinedLength
        <4> HIDE DEF T
        <4> QED BY <3>1, <4>1
      <3>5. Len(plan) # 0
        BY <2>1, <3>4
      <3>6. plan # <<>>
        BY <3>5, EmptySeq
      <3> QED BY <3>3, <3>4, <3>6
    <2> QED BY <2>2, <2>3
  <1> HIDE DEF plan, interrupted, target, base
  <1>9. PICK x \in Process :
           /\ sw' = {x} /\ x.todo = plan /\ x.interrupted = interrupted
           /\ x.proxy = stateFile /\ x.marks = {}
    <2>1. new \in Process
      BY <1>2, <1>4, <1>5, <1>8 DEF Process
    <2> QED BY <1>1, <2>1
  <1>10. UpToDate(x)' /\ MarksInOrder(x) /\ Known(x, F)'
    BY <1>2, <1>9 DEF UpToDate, MarksInOrder, Known
  <1> HIDE DEF F
  <1>11. /\ \A i, j \in x.interrupted : i = j
         /\ x.todo # <<>> /\ Planned(x.todo, F)
    BY <1>5, <1>8, <1>9
  <1>12. ProcessOK(x)'
    BY <1>6, <1>9, <1>10, <1>11 DEF ProcessOK
  <1>13. ProcessesOK'
    BY <1>9, <1>12 DEF ProcessesOK
  <1> QED
    BY <1>2, <1>3, <1>13 DEF SwitchInv

\* systemd, crashes and reboots.
LEMMA EnvironmentStep ==
  ASSUME SwitchInv,
         \/ ProxyStep \/ SwitchDies \/ ProxyCrashes \/ HostReboots
         \/ \E u \in Units : SystemdStarts(u) \/ ApiCrashes(u)
  PROVE  SwitchInv'
  <1>1. CASE ProxyStep
    <2>1. Next
      BY <1>1 DEF ProxyStep, Next
    <2>2. TypeOK'
      BY <2>1, NextTypeOK DEF SwitchInv
    <2>3. Held
      BY <1>1, ProxyMoves DEF SwitchInv
    <2>4. HostOK' /\ sw' = sw
      BY <1>1 DEF ProxyStep, switchVars, SwitchInv, HostOK
    <2>5. ProcessesOK'
      BY <2>3, <2>4, Waiting DEF SwitchInv
    <2> QED BY <2>2, <2>3, <2>4, <2>5 DEF SwitchInv, Held
  <1>2. CASE SwitchDies
    <2>1. TypeOK' /\ Wire' /\ Held /\ sw' = {}
      BY <1>2, Resting DEF SwitchDies
    <2>2. HostOK'
      BY <1>2, FaultCounted DEF SwitchDies, SwitchInv, HostOK, linkVars, hostVars
    <2>3. ProcessesOK'
      BY <2>1 DEF ProcessesOK
    <2> QED BY <2>1, <2>2, <2>3 DEF SwitchInv
  <1>3. CASE ProxyCrashes \/ HostReboots
    <2>1. Crash /\ Fault /\ sw' \subseteq sw
      BY <1>3 DEF ProxyCrashes, HostReboots
    <2>2. TypeOK'
      BY <2>1, NextTypeOK DEF SwitchInv, Next
    <2>3. Held
      BY <2>1, Crashes DEF SwitchInv, Held, Crash, Stopped
    <2>4. faults' \in 0..MaxFaults
      BY <2>1, FaultCounted DEF SwitchInv
    <2>5. /\ running' \in [Units -> SUBSET [api : Apis, port : Ports]]
          /\ starting' \subseteq Units
      BY <1>3 DEF ProxyCrashes, HostReboots, SwitchInv, HostOK, Units
    <2>6. HostOK'
      BY <1>3, <2>4, <2>5 DEF ProxyCrashes, HostReboots, SwitchInv, HostOK, linkVars
    <2>7. ProcessesOK'
      BY <2>1, <2>3, Waiting DEF SwitchInv
    <2> QED BY <2>2, <2>3, <2>6, <2>7 DEF SwitchInv, Held
  <1>4. ASSUME NEW u \in Units, SystemdStarts(u) \/ ApiCrashes(u)
        PROVE  SwitchInv'
    <2>1. UNCHANGED <<proxyVars, journal, linkVars>> /\ sw' = sw
      BY <1>4 DEF SystemdStarts, ApiCrashes
    <2>2. TypeOK' /\ Wire' /\ Held
      BY <2>1, Resting
    <2>3. /\ running' \in [Units -> SUBSET [api : Apis, port : Ports]]
          /\ starting' \subseteq Units /\ enabled' = enabled
      BY <1>4, StartUnitType DEF SystemdStarts, ApiCrashes, SwitchInv, HostOK
    <2>4. faults' \in 0..MaxFaults
      BY <1>4, FaultCounted DEF SystemdStarts, ApiCrashes, SwitchInv, HostOK
    <2>5. HostOK'
      BY <2>1, <2>3, <2>4 DEF SwitchInv, HostOK, linkVars
    <2>6. ProcessesOK'
      BY <2>1, <2>2, Waiting DEF SwitchInv
    <2> QED BY <2>2, <2>5, <2>6 DEF SwitchInv
  <1> QED
    BY <1>1, <1>2, <1>3, <1>4

LEMMA InitSwitchInv == SwitchInit => SwitchInv
  <1> SUFFICES ASSUME SwitchInit PROVE SwitchInv
    OBVIOUS
  <1>1. TypeOK /\ Wire
    BY InitTypeOK, InitWire DEF SwitchInit
  <1>2. /\ Installed \in Active
        /\ Installed.web \in Webs /\ Installed.api \in Apis /\ Installed.port \in Ports
        /\ Installed.unit \in Units
    BY InstalledAssumption DEF Active, Units
  <1>3. running \in [Units -> SUBSET [api : Apis, port : Ports]]
    BY <1>2 DEF SwitchInit
  <1>4. HostOK
    BY <1>2, <1>3, FaultsAssumption DEF SwitchInit, HostOK
  <1>5. ProcessesOK
    BY DEF SwitchInit, ProcessesOK
  <1> QED
    BY <1>1, <1>4, <1>5 DEF SwitchInv

LEMMA NextSwitchInv == SwitchInv /\ [SwitchNext]_vars => SwitchInv'
  <1> SUFFICES ASSUME SwitchInv, [SwitchNext]_vars PROVE SwitchInv'
    OBVIOUS
  <1>1. ASSUME NEW s \in sw, Step(s) \/ Throws(s) PROVE SwitchInv'
    BY <1>1, SetsProxyStep, WaitsStep, ThrowsStep, ControlsUnitStep, WritesJournalStep,
       PublishesLinksStep, MarksStep DEF Step
  <1>2. CASE \E t \in Targets : Run(t)
    BY <1>2, RunStep
  <1>3. CASE UNCHANGED vars
    <2>1. TypeOK' /\ Wire' /\ Held /\ sw' = sw
      BY <1>3, Resting DEF vars, switchVars
    <2>2. HostOK'
      BY <1>3 DEF vars, switchVars, SwitchInv, HostOK
    <2>3. ProcessesOK'
      BY <2>1, Waiting DEF SwitchInv
    <2> QED BY <2>1, <2>2, <2>3 DEF SwitchInv
  <1> QED
    BY <1>1, <1>2, <1>3, EnvironmentStep DEF SwitchNext, SwitchStep

\* At most one element.
LEMMA AtMostOne ==
  ASSUME NEW S, \A i, j \in S : i = j
  PROVE  Cardinality(S) <= 1
  <1>1. CASE S = {}
    BY <1>1, FS_EmptySet
  <1>2. CASE S # {}
    <2>1. PICK x \in S : TRUE
      BY <1>2
    <2>2. S = {x}
      BY <2>1
    <2>3. Cardinality({x}) = 1
      BY FS_Singleton
    <2> QED BY <2>2, <2>3
  <1> QED
    BY <1>1, <1>2

LEMMA SwitchInvTypes == SwitchInv => SwitchTypeOK
  <1> SUFFICES ASSUME SwitchInv PROVE SwitchTypeOK
    OBVIOUS
  <1>1. Cardinality(journal) <= 1
    BY AtMostOne DEF SwitchInv, HostOK
  <1>2. Cardinality(sw) <= 1
    BY AtMostOne DEF SwitchInv, ProcessesOK
  <1> QED
    BY <1>1, <1>2 DEF SwitchInv, HostOK, SwitchTypeOK

\* Whatever fails, dies or reboots, and however often, the files, the units and the
\* switch process stay well typed, and there is at most one journal and one run.
THEOREM SwitchTypes == SwitchSpec => []SwitchTypeOK
  <1>1. SwitchInit => SwitchInv
    BY InitSwitchInv
  <1>2. SwitchInv /\ [SwitchNext]_vars => SwitchInv'
    BY NextSwitchInv
  <1> QED
    BY <1>1, <1>2, SwitchInvTypes, PTL DEF SwitchSpec

-----------------------------------------------------------------------------
(* No API is stopped under a request *)

LEMMA StopsBehindHold ==
  ASSUME SwitchInv, [SwitchNext]_vars,
         NEW u \in Units, running[u] # {}, running'[u] = {}, faults' = faults
  PROVE  InFlight = {}
  <1>1. ~Fault
    BY DEF Fault, SwitchInv, HostOK
  <1>2. ASSUME NEW v \in Units, StartUnit(v) PROVE FALSE
    <2>1. running' = running \/ LockFree
      BY <1>2 DEF StartUnit
    <2> QED BY <2>1 DEF LockFree
  <1>3. running' # running
    OBVIOUS
  <1>4. PICK s \in sw : ControlsUnit(s)
    <2>1. ~(UNCHANGED vars) /\ ~ProxyStep
      BY <1>3 DEF vars, switchVars, ProxyStep
    <2>2. ~SwitchDies /\ ~ProxyCrashes /\ ~HostReboots /\ \A s \in sw : ~Throws(s)
      BY <1>1 DEF SwitchDies, ProxyCrashes, HostReboots, Throws
    <2>3. \A t \in Targets : ~Run(t)
      BY <1>3 DEF Run, hostVars
    <2>4. \A v \in Units : ~SystemdStarts(v) /\ ~ApiCrashes(v)
      BY <1>1, <1>2 DEF SystemdStarts, ApiCrashes
    <2>5. \A s \in sw : ~SetsProxy(s) /\ ~Waits(s) /\ ~TimesOut(s) /\ ~WritesJournal(s)
                        /\ ~PublishesLinks(s) /\ ~Marks(s)
      BY <1>3 DEF SetsProxy, Waits, TimesOut, WritesJournal, PublishesLinks, Marks, hostVars
    <2> QED BY <2>1, <2>2, <2>3, <2>4, <2>5 DEF SwitchNext, SwitchStep, Step
  <1>5. ProcessOK(s)
    BY DEF SwitchInv, ProcessesOK
  <1>6. Head(s.todo).do \in {"stop", "start"} /\ Head(s.todo) # Recovered
    BY <1>3, <1>4 DEF ControlsUnit, At, Recovered
  <1>7. Head(s.todo).unit \in Units
    BY <1>5, <1>6, HeadTaken, StepTypes
  <1>8. At(s, "stop")
    BY <1>2, <1>3, <1>4, <1>7 DEF ControlsUnit
  <1>9. PICK K \in SUBSET Facts, C \in SUBSET Facts : Known(s, K) /\ Takes(Head(s.todo), K, C)
    BY <1>5, <1>6, HeadTaken
  <1> QED
    BY <1>8, <1>9 DEF At, Takes, Allowed, Known

\* Whichever of its plans stops an API, after whatever faults and however late the
\* proxy's status is, the switch stops it behind a proxy that holds and has nothing in
\* flight: no proxied request loses its API to the switch.
THEOREM StopsOnlyIdle == SwitchSpec => StopsIdle
  <1> DEFINE Idle == \A u \in Units, r \in Requests :
                        (\E x \in running[u] : x.port = upstream[r]) /\ running'[u] = {} /\ faults' = faults
                           => r \notin InFlight
  <1>1. SwitchInit => SwitchInv
    BY InitSwitchInv
  <1>2. SwitchInv /\ [SwitchNext]_vars => SwitchInv'
    BY NextSwitchInv
  <1>3. SwitchInv /\ [SwitchNext]_vars => [Idle]_vars
    <2> SUFFICES ASSUME SwitchInv, [SwitchNext]_vars,
                        NEW u \in Units, NEW r \in Requests, running[u] # {},
                        running'[u] = {}, faults' = faults
                 PROVE  r \notin InFlight
      OBVIOUS
    <2> QED BY StopsBehindHold
  <1> QED
    BY <1>1, <1>2, <1>3, PTL DEF SwitchSpec, StopsIdle

-----------------------------------------------------------------------------
(* The published release *)

\* What a unit runs of a release.
Site(a) == [api |-> a.api, port |-> a.port]

Current == Site(switchState)

\* Nothing runs on the active unit but the published release.
Clean == running["active"] \subseteq {Current}

\* After the first switch nothing is left of the legacy unit.
OnlyActive ==
    /\ switchState.unit = "active" /\ running["legacy"] = {}
    /\ starting \subseteq {"active"} /\ enabled \subseteq {"active"}

\* The proxy sends requests to the published port, or holds them.
Routed ==
    /\ state.mode # "hold" => process = "down" \/ state.port = switchState.port
    /\ stateFile.mode # "hold" => stateFile.port = switchState.port
    /\ \A v \in reading : v.mode # "hold" /\ v.generation > state.generation => v.port = switchState.port
    /\ \A r \in InFlight : upstream[r] = switchState.port

\* What runs on the published port is the published release.
Resolved == \A x \in running["active"] : x.port = switchState.port => x = Current

\* The journal names two places, and one of them is published.
Journalled ==
    \A j \in journal :
        /\ j.base.unit = "active" /\ j.target.unit = "active" /\ j.base.port # j.target.port
        /\ Current \in {Site(j.base), Site(j.target)}

\* After the old release was stopped only the new one runs.
Advanced ==
    \A j \in journal : j.phase \in {"publishing", "published"} => running["active"] \subseteq {Site(j.target)}

\* Up to the second fault.
Cleared == faults <= 1 /\ journal = {} => Clean

OneRuns == \A x, y \in running["active"] : x = y

StartsAfterFault == faults = 0 => starting = {}

ReleaseOK ==
    /\ OnlyActive /\ Routed /\ Resolved /\ Journalled /\ Advanced /\ Cleared /\ OneRuns
    /\ StartsAfterFault

\* The run keeps the two places b and o apart, and so does the journal.
Between(b, o) ==
    /\ Current \in {b, o}
    /\ \A j \in journal : {b, o} \subseteq {Site(j.base), Site(j.target)}

Entering(x) == journal # {} /\ Entry("active") = x

\* No recovery is needed yet: a fault now would be the first.
Calm(s) == "recovered" \notin s.marks \/ "oldStop" \in s.marks \/ "recovering" \in s.marks

\* What the facts mean for the process s between b, which it came from, and o: which of
\* the two is published, which one a start would run, which one alone may run.
Sure(s, b, o, K) ==
    /\ "atBase" \in K => Current = b
    /\ "atOther" \in K => Current = o
    /\ "toBase" \in K => Entering(b)
    /\ "toOther" \in K => Entering(o)
    /\ "onlyBase" \in K => Entering(b) /\ running["active"] \subseteq {b}
    /\ "onlyOther" \in K => Entering(o) /\ running["active"] \subseteq {o}
    /\ "quiet" \in K => Acked /\ InFlight = {}
    /\ "none" \in K => journal = {}
    /\ "begun" \in K => "recovered" \in s.marks
    /\ "torn" \in K =>
          \E j : /\ s.interrupted = {j} /\ j.phase = "recovering"
                 /\ j.base.unit = "active" /\ j.target.unit = "active"
                 /\ Site(j.base) = b /\ Site(j.target) = o
    /\ "pending" \in K => s.pending
    /\ "old" \in K => "oldStop" \in s.marks
    /\ "started" \in K => "newStart" \in s.marks
    /\ "calm" \in K => Calm(s)
    /\ "still" \in K => (faults <= 1 => faults = 1 /\ starting = {} /\ Clean)

\* The rules: the proxy is routed to the published place, another place is published
\* when it alone runs or would run, behind an idle proxy, and the journal is removed
\* when nothing else can run.
Admits(b, o, st, K) ==
    /\ st.do \in {"stop", "start", "enable"} => st.unit = "active"
    /\ st.do # "disable"
    /\ st.do = "setProxy" /\ st.mode # "hold" =>
          ("atBase" \in K /\ st.port = b.port) \/ ("atOther" \in K /\ st.port = o.port)
    /\ st.do = "journal" =>
          /\ b.port # o.port
          /\ "begun" \in K \/ ("torn" \in K /\ st.phase = "recovering")
          /\ st.phase = "prepared" => "none" \in K
          /\ st.phase \in {"publishing", "published"} => "onlyOther" \in K
    /\ st.do = "switchState" =>
          /\ st.to.unit = "active"
          /\ \/ Site(st.to) = b /\ ("atBase" \in K \/ {"onlyBase", "quiet"} \subseteq K)
             \/ Site(st.to) = o /\ {"onlyOther", "quiet", "started"} \subseteq K
    /\ st.do = "clear" =>
          \/ "none" \in K \/ "still" \in K
          \/ {"atBase", "onlyBase"} \subseteq K \/ {"atOther", "onlyOther"} \subseteq K
    /\ st.do = "mark" =>
          /\ "begun" \in K
          /\ st.flag = "oldStop" => "pending" \in K
          /\ st.flag = "newStart" => "old" \in K
    /\ (st.do = "mark" /\ st.flag = "oldStop") \/ "calm" \in K \/ "none" \in K

Gains(b, o, st, K) ==
    (IF st.do = "stop" THEN {"quiet"} ELSE {})
    \union (IF st.do = "stop" /\ "toBase" \in K THEN {"onlyBase"} ELSE {})
    \union (IF st.do = "stop" /\ "toOther" \in K THEN {"onlyOther"} ELSE {})
    \union (IF st.do = "waitReady" /\ st.port = b.port /\ {"atBase", "toBase"} \subseteq K
            THEN {"onlyBase"} ELSE {})
    \union (IF st.do = "journal" /\ st.phase = "recovering" THEN {"toBase"} ELSE {})
    \union (IF st.do = "journal" /\ st.phase # "recovering" THEN {"toOther", "pending"} ELSE {})
    \union (IF st.do = "clear" THEN {"none"} ELSE {})
    \union (IF st.do = "switchState" /\ Site(st.to) = b THEN {"atBase"} ELSE {})
    \union (IF st.do = "switchState" /\ Site(st.to) = o THEN {"atOther"} ELSE {})
    \union (IF st.do = "mark" /\ st.flag = "oldStop" THEN {"old", "calm"} ELSE {})
    \union (IF st.do = "mark" /\ st.flag = "newStart" THEN {"started"} ELSE {})

Loses(b, st, K) ==
    (IF st.do = "setProxy" THEN {"quiet"} ELSE {})
    \union (IF st.do = "start" THEN {"still"} ELSE {})
    \union (IF st.do = "journal" /\ st.phase = "recovering" THEN {"toOther", "onlyOther", "none"} ELSE {})
    \union (IF st.do = "journal" /\ st.phase # "recovering" THEN {"toBase", "onlyBase", "none"} ELSE {})
    \union (IF st.do = "clear" THEN {"toBase", "onlyBase", "toOther", "onlyOther"} ELSE {})
    \union (IF st.do = "switchState" /\ ~(Site(st.to) = b /\ "atBase" \in K)
            THEN {"atBase", "atOther", "still"} ELSE {})

Outcome(b, o, st, K) == (K \ Loses(b, st, K)) \union Gains(b, o, st, K)

ReleaseRules(b, o) ==
    {x \in Steps \X (SUBSET Facts) \X (SUBSET Facts) :
        Admits(b, o, x[1], x[2]) /\ x[3] \subseteq Outcome(b, o, x[1], x[2])}

\* What is known where the body of the command begins.
AtBody == {"atBase", "none"}

Orderly(s) ==
    /\ s.state.unit = "active" /\ s.target.unit = "active"
    /\ s.target.api = s.state.api <=> s.target.port = s.state.port
    /\ "oldStop" \in s.marks => s.pending
    /\ "newStart" \in s.marks => "oldStop" \in s.marks
    /\ s.pending => "recovered" \in s.marks /\ s.target.port # s.state.port
    /\ "recovered" \notin s.marks => s.marks \subseteq {"recovering"}
    /\ "recovered" \notin s.marks /\ s.interrupted = {} => journal = {}
    /\ "recovered" \in s.marks /\ "newStart" \notin s.marks => Current = Site(s.state)

\* Before it stops the old release, a run without a fault finds only that one running.
Unmoved(s) == Calm(s) \/ journal = {} \/ (faults = 0 => starting = {} /\ Clean)

\* The places the process s works on: the release it came from, and o.
Party(s, o) ==
    /\ Between(Site(s.state), o)
    /\ "recovered" \in s.marks => o = Site(s.target)

\* The rest of the plan of s can be carried out from what is known.
Led(s, o, plan, K) ==
    /\ Sure(s, Site(s.state), o, K)
    /\ Plans(ReleaseRules(Site(s.state), o), plan, K, AtBody)

Guided(s) ==
    /\ Orderly(s) /\ Unmoved(s)
    /\ \E o : Party(s, o) /\ \E K \in SUBSET Facts : Led(s, o, s.todo, K)

ReleaseInv == ReleaseOK /\ \A s \in sw : Guided(s)

-----------------------------------------------------------------------------
(* Plans about the published release *)

Guides(b, o, p, A, B) == Carries(ReleaseRules(b, o), p, A, B)

LEMMA ReleaseRule ==
  ASSUME NEW b, NEW o, NEW st \in Steps, NEW A \in SUBSET Facts, NEW B \in SUBSET Facts
  PROVE  Under(ReleaseRules(b, o), st, A, B) <=> Admits(b, o, st, A) /\ B \subseteq Outcome(b, o, st, A)
  <1>1. ASSUME NEW C \in SUBSET Facts
        PROVE  <<st, A, C>> \in ReleaseRules(b, o)
                 <=> Admits(b, o, st, A) /\ C \subseteq Outcome(b, o, st, A)
    BY DEF ReleaseRules
  <1> QED
    BY <1>1 DEF Under

LEMMA GuidesStep ==
  ASSUME NEW b, NEW o, NEW st \in Steps, NEW A \in SUBSET Facts, NEW B \in SUBSET Facts,
         Admits(b, o, st, A), B \subseteq Outcome(b, o, st, A)
  PROVE  Guides(b, o, <<st>>, A, B)
  BY ReleaseRule, CarriesStep DEF Guides

LEMMA GuidesThen ==
  ASSUME NEW b, NEW o, NEW A, NEW B, NEW C, NEW p, NEW q, Guides(b, o, p, A, B), Guides(b, o, q, B, C)
  PROVE  Guides(b, o, p \o q, A, C)
  BY CarriesThen DEF Guides

LEMMA GuidesWhen ==
  ASSUME NEW b, NEW o, NEW A \in SUBSET Facts, NEW B, NEW p, NEW cond \in BOOLEAN,
         cond => Guides(b, o, p, A, B), ~cond => B \subseteq A
  PROVE  Guides(b, o, When(cond, p), A, B)
  BY CarriesWhen DEF Guides

\* A call with no rule but that the run is not about to stop the old release.
Guarded(A) == "calm" \in A \/ "none" \in A

LEMMA GuidesCall ==
  ASSUME NEW b, NEW o, NEW A \in SUBSET Facts, NEW B \in SUBSET A, Guarded(A)
  PROVE  /\ Guides(b, o, WaitIdle, A, B) /\ Guides(b, o, WritersIdle, A, B)
         /\ Guides(b, o, WaitLock, A, B)
         /\ Guides(b, o, <<[do |-> "waitProxy"]>>, A, B)
         /\ \A p \in Ports : Guides(b, o, Ready(p), A, B)
         /\ Guides(b, o, Enable("active"), A, B)
  <1> DEFINE Calls == {"waitProxy", "waitIdle", "waitWritersIdle", "waitLock", "waitReady", "enable",
                       "webLink", "apiLink"}
  <1>0. B \in SUBSET Facts
    OBVIOUS
  <1>1. ASSUME NEW st \in Steps, st.do \in Calls, st.do = "enable" => st.unit = "active"
        PROVE  Guides(b, o, <<st>>, A, B)
    <2>1. Admits(b, o, st, A)
      BY <1>1 DEF Admits, Guarded
    <2>2. Loses(b, st, A) = {}
      BY <1>1 DEF Loses
    <2>3. B \subseteq Outcome(b, o, st, A)
      BY <2>2 DEF Outcome
    <2> QED BY <1>0, <2>1, <2>3, GuidesStep
  <1> HIDE DEF Calls
  <1>2. /\ [do |-> "waitProxy"] \in Steps /\ [do |-> "waitIdle"] \in Steps
        /\ [do |-> "waitWritersIdle"] \in Steps /\ [do |-> "waitLock"] \in Steps
        /\ [do |-> "enable", unit |-> "active"] \in Steps
    BY DEF Steps, Units
  <1>3. \A p \in Ports : [do |-> "waitReady", port |-> p] \in Steps
    BY DEF Steps
  <1> QED
    BY <1>1, <1>2, <1>3 DEF Calls, WaitIdle, WritersIdle, WaitLock, Ready, Enable

LEMMA GuidesReady ==
  ASSUME NEW b, NEW o, NEW A \in SUBSET Facts, Guarded(A), {"atBase", "toBase"} \subseteq A,
         b.port \in Ports, NEW B \in SUBSET (A \union {"onlyBase"})
  PROVE  Guides(b, o, Ready(b.port), A, B)
  <1> DEFINE st == [do |-> "waitReady", port |-> b.port]
  <1>1. st \in Steps /\ st.do = "waitReady" /\ st.port = b.port
    BY DEF Steps
  <1> HIDE DEF st
  <1>2. Admits(b, o, st, A)
    BY <1>1 DEF Admits, Guarded
  <1>3. Loses(b, st, A) = {} /\ "onlyBase" \in Gains(b, o, st, A)
    BY <1>1 DEF Loses, Gains
  <1>4. B \subseteq Outcome(b, o, st, A) /\ B \in SUBSET Facts
    BY <1>3 DEF Outcome, Facts, ReleaseFacts
  <1>5. Ready(b.port) = <<st>>
    BY DEF Ready, st
  <1> QED
    BY <1>1, <1>2, <1>4, <1>5, GuidesStep

LEMMA GuidesMark ==
  ASSUME NEW b, NEW o, NEW A \in SUBSET Facts, NEW flag \in Flags, "begun" \in A,
         flag = "oldStop" => "pending" \in A, flag = "newStart" => "old" \in A,
         flag = "oldStop" \/ Guarded(A),
         NEW B \in SUBSET (A \union (IF flag = "oldStop" THEN {"old", "calm"} ELSE {})
                             \union (IF flag = "newStart" THEN {"started"} ELSE {}))
  PROVE  Guides(b, o, Mark(flag), A, B)
  <1> DEFINE st == [do |-> "mark", flag |-> flag]
  <1>1. st \in Steps /\ st.do = "mark" /\ st.flag = flag
    BY DEF Steps
  <1> HIDE DEF st
  <1>2. Admits(b, o, st, A)
    BY <1>1 DEF Admits, Guarded
  <1>3. /\ Loses(b, st, A) = {}
        /\ flag = "oldStop" => {"old", "calm"} \subseteq Gains(b, o, st, A)
        /\ flag = "newStart" => "started" \in Gains(b, o, st, A)
    BY <1>1 DEF Loses, Gains
  <1>4. B \subseteq Outcome(b, o, st, A) /\ B \in SUBSET Facts
    BY <1>3 DEF Outcome, Facts, ReleaseFacts
  <1>5. Mark(flag) = <<st>>
    BY DEF Mark, st
  <1> QED
    BY <1>1, <1>2, <1>4, <1>5, GuidesStep

\* The proxy is told to hold, or to send requests to the published place.
LEMMA GuidesProxy ==
  ASSUME NEW b, NEW o, NEW A \in SUBSET Facts, Guarded(A), NEW mode \in Modes, NEW to \in Active,
         \/ mode = "hold"
         \/ "atBase" \in A /\ to.port = b.port
         \/ "atOther" \in A /\ to.port = o.port,
         NEW B \in SUBSET (A \ {"quiet"}), Guarded(B)
  PROVE  Guides(b, o, SetProxy(mode, to), A, B)
  <1> DEFINE set  == [do |-> "setProxy", mode |-> mode, port |-> to.port]
             wait == [do |-> "waitProxy"]
  <1>1. /\ set \in Steps /\ set.do = "setProxy" /\ set.mode = mode /\ set.port = to.port
        /\ wait \in Steps
    BY DEF Steps, Active
  <1>2. SetProxy(mode, to) = <<set, wait>>
    BY DEF SetProxy
  <1>3. B \in SUBSET Facts
    OBVIOUS
  <1>4. Guides(b, o, <<wait>>, B, B)
    BY <1>3, GuidesCall
  <1> HIDE DEF set, wait
  <1>5. Admits(b, o, set, A)
    BY <1>1 DEF Admits, Guarded
  <1>6. B \subseteq Outcome(b, o, set, A)
    BY <1>1 DEF Outcome, Loses
  <1>7. Guides(b, o, <<set>>, A, B)
    BY <1>1, <1>3, <1>5, <1>6, GuidesStep
  <1>8. Guides(b, o, <<set>> \o <<wait>>, A, B)
    BY <1>4, <1>7, GuidesThen
  <1>9. <<set>> \o <<wait>> = <<set, wait>>
    BY <1>1, Joined
  <1> QED
    BY <1>2, <1>8, <1>9

LEMMA GuidesStop ==
  ASSUME NEW b, NEW o, NEW A \in SUBSET Facts, Guarded(A),
         NEW B \in SUBSET (A \union {"quiet"}
                             \union (IF "toBase" \in A THEN {"onlyBase"} ELSE {})
                             \union (IF "toOther" \in A THEN {"onlyOther"} ELSE {}))
  PROVE  Guides(b, o, Stop("active"), A, B)
  <1> DEFINE st == [do |-> "stop", unit |-> "active"]
  <1>1. st \in Steps /\ st.do = "stop" /\ st.unit = "active"
    BY DEF Steps, Units
  <1> HIDE DEF st
  <1>2. Admits(b, o, st, A)
    BY <1>1 DEF Admits, Guarded
  <1>3. /\ Loses(b, st, A) = {} /\ "quiet" \in Gains(b, o, st, A)
        /\ "toBase" \in A => "onlyBase" \in Gains(b, o, st, A)
        /\ "toOther" \in A => "onlyOther" \in Gains(b, o, st, A)
    BY <1>1 DEF Loses, Gains
  <1>4. B \subseteq Outcome(b, o, st, A) /\ B \in SUBSET Facts
    BY <1>3 DEF Outcome, Facts, ReleaseFacts
  <1>5. Stop("active") = <<st>>
    BY DEF Stop, st
  <1> QED
    BY <1>1, <1>2, <1>4, <1>5, GuidesStep

LEMMA GuidesStart ==
  ASSUME NEW b, NEW o, NEW A \in SUBSET Facts, Guarded(A), NEW B \in SUBSET (A \ {"still"})
  PROVE  Guides(b, o, Begin("active"), A, B)
  <1> DEFINE st == [do |-> "start", unit |-> "active"]
  <1>1. st \in Steps /\ st.do = "start" /\ st.unit = "active"
    BY DEF Steps, Units
  <1> HIDE DEF st
  <1>2. Admits(b, o, st, A)
    BY <1>1 DEF Admits, Guarded
  <1>3. B \subseteq Outcome(b, o, st, A) /\ B \in SUBSET Facts
    BY <1>1 DEF Outcome, Loses
  <1>4. Begin("active") = <<st>>
    BY DEF Begin, st
  <1> QED
    BY <1>1, <1>2, <1>3, <1>4, GuidesStep

\* The journal of a switch that begins, or goes on.
LEMMA GuidesWrite ==
  ASSUME NEW b, NEW o, NEW A \in SUBSET Facts, Guarded(A), b.port # o.port, "begun" \in A,
         NEW ph \in {"prepared", "publishing", "published"},
         ph = "prepared" => "none" \in A, ph # "prepared" => "onlyOther" \in A,
         NEW B \in SUBSET ((A \ {"toBase", "onlyBase", "none"}) \union {"toOther", "pending"})
  PROVE  Guides(b, o, Write(ph), A, B)
  <1> DEFINE st == [do |-> "journal", phase |-> ph]
  <1>1. st \in Steps /\ st.do = "journal" /\ st.phase = ph
    BY DEF Steps
  <1> HIDE DEF st
  <1>2. Admits(b, o, st, A)
    BY <1>1 DEF Admits, Guarded
  <1>3. /\ Loses(b, st, A) = {"toBase", "onlyBase", "none"}
        /\ {"toOther", "pending"} \subseteq Gains(b, o, st, A)
    BY <1>1 DEF Loses, Gains
  <1>4. B \subseteq Outcome(b, o, st, A) /\ B \in SUBSET Facts
    BY <1>3 DEF Outcome, Facts, ReleaseFacts
  <1>5. Write(ph) = <<st>>
    BY DEF Write, st
  <1> QED
    BY <1>1, <1>2, <1>4, <1>5, GuidesStep

\* The journal of a switch that is undone.
LEMMA GuidesUndo ==
  ASSUME NEW b, NEW o, NEW A \in SUBSET Facts, Guarded(A), b.port # o.port,
         "begun" \in A \/ "torn" \in A,
         NEW B \in SUBSET ((A \ {"toOther", "onlyOther", "none"}) \union {"toBase"})
  PROVE  Guides(b, o, Write("recovering"), A, B)
  <1> DEFINE st == [do |-> "journal", phase |-> "recovering"]
  <1>1. st \in Steps /\ st.do = "journal" /\ st.phase = "recovering"
    BY DEF Steps
  <1> HIDE DEF st
  <1>2. Admits(b, o, st, A)
    BY <1>1 DEF Admits, Guarded
  <1>3. /\ Loses(b, st, A) = {"toOther", "onlyOther", "none"} /\ "toBase" \in Gains(b, o, st, A)
    BY <1>1 DEF Loses, Gains
  <1>4. B \subseteq Outcome(b, o, st, A) /\ B \in SUBSET Facts
    BY <1>3 DEF Outcome, Facts, ReleaseFacts
  <1>5. Write("recovering") = <<st>>
    BY DEF Write, st
  <1> QED
    BY <1>1, <1>2, <1>4, <1>5, GuidesStep

LEMMA GuidesClear ==
  ASSUME NEW b, NEW o, NEW A \in SUBSET Facts, Guarded(A),
         \/ "none" \in A \/ "still" \in A
         \/ {"atBase", "onlyBase"} \subseteq A \/ {"atOther", "onlyOther"} \subseteq A,
         NEW B \in SUBSET ((A \ {"toBase", "onlyBase", "toOther", "onlyOther"}) \union {"none"})
  PROVE  Guides(b, o, Clear, A, B)
  <1> DEFINE st == [do |-> "clear"]
  <1>1. st \in Steps /\ st.do = "clear"
    BY DEF Steps
  <1> HIDE DEF st
  <1>2. Admits(b, o, st, A)
    BY <1>1 DEF Admits, Guarded
  <1>3. /\ Loses(b, st, A) = {"toBase", "onlyBase", "toOther", "onlyOther"}
        /\ "none" \in Gains(b, o, st, A)
    BY <1>1 DEF Loses, Gains
  <1>4. B \subseteq Outcome(b, o, st, A) /\ B \in SUBSET Facts
    BY <1>3 DEF Outcome, Facts, ReleaseFacts
  <1>5. Clear = <<st>>
    BY DEF Clear, st
  <1> QED
    BY <1>1, <1>2, <1>4, <1>5, GuidesStep

\* Publishing moves the links, and then the switch state.
LEMMA GuidesPublish ==
  ASSUME NEW b, NEW o, NEW to \in Active, to.unit = "active",
         NEW A \in SUBSET Facts, NEW B \in SUBSET Facts, Guarded(A),
         \/ Site(to) = b /\ ("atBase" \in A \/ {"onlyBase", "quiet"} \subseteq A)
         \/ Site(to) = o /\ {"onlyOther", "quiet", "started"} \subseteq A,
         B \subseteq (A \ (IF Site(to) = b /\ "atBase" \in A THEN {} ELSE {"atBase", "atOther", "still"}))
                       \union (IF Site(to) = b THEN {"atBase"} ELSE {})
                       \union (IF Site(to) = o THEN {"atOther"} ELSE {})
  PROVE  Guides(b, o, Publish(to), A, B)
  <1> DEFINE web == [do |-> "webLink", web |-> to.web]
             api == [do |-> "apiLink", api |-> to.api]
             st  == [do |-> "switchState", to |-> to]
  <1>1. web \in Steps /\ api \in Steps /\ st \in Steps
    BY DEF Steps, Active
  <1>2. web.do = "webLink" /\ api.do = "apiLink" /\ st.do = "switchState" /\ st.to = to
    OBVIOUS
  <1>3. Publish(to) = <<web, api, st>>
    BY DEF Publish
  <1> HIDE DEF web, api, st
  <1>4. ASSUME NEW link \in {web, api} PROVE Guides(b, o, <<link>>, A, A)
    <2>1. link \in Steps /\ link.do \in {"webLink", "apiLink"}
      BY <1>1, <1>2
    <2>2. Admits(b, o, link, A)
      BY <2>1 DEF Admits, Guarded
    <2>3. A \subseteq Outcome(b, o, link, A)
      BY <2>1 DEF Outcome, Loses
    <2> QED BY <2>1, <2>2, <2>3, GuidesStep
  <1>5. Guides(b, o, <<st>>, A, B)
    <2>1. Admits(b, o, st, A)
      BY <1>2 DEF Admits, Guarded
    <2>2. /\ Loses(b, st, A)
               = IF Site(to) = b /\ "atBase" \in A THEN {} ELSE {"atBase", "atOther", "still"}
          /\ Site(to) = b => "atBase" \in Gains(b, o, st, A)
          /\ Site(to) = o => "atOther" \in Gains(b, o, st, A)
      BY <1>2 DEF Loses, Gains
    <2>3. B \subseteq Outcome(b, o, st, A)
      BY <2>2 DEF Outcome
    <2> QED BY <1>1, <2>1, <2>3, GuidesStep
  <1>6. Guides(b, o, <<web>> \o <<api>>, A, A)
    BY <1>4, GuidesThen
  <1>7. Guides(b, o, <<web>> \o <<api>> \o <<st>>, A, B)
    BY <1>5, <1>6, GuidesThen
  <1>8. <<web>> \o <<api>> \o <<st>> = <<web, api, st>>
    BY <1>1, Joined
  <1> QED
    BY <1>3, <1>7, <1>8

\* ensureProxy: the interrupted switch is behind its commit point, and its target alone
\* runs; or a start would run its base.
LEMMA EnsureProxyGuides ==
  ASSUME NEW current \in Active, current.unit = "active", NEW interrupted, NEW o,
         \A j \in interrupted : j.base.unit = "active" /\ j.target.unit = "active",
         NEW undone, undone = (\E j \in interrupted : j.target # current),
         NEW f, f = (IF interrupted = {} THEN "none" ELSE "onlyBase"),
         NEW A, A = (IF undone THEN {"toBase", "calm"} ELSE {"atBase", f, "calm"})
  PROVE  Guides(Site(current), o, EnsureProxy(current, interrupted), A, AtBody)
  <1> DEFINE b       == Site(current)
             settled == stateFile.mode = "forward" /\ stateFile.port = current.port
             foreign == {j \in interrupted : j.target # current}
             moved   == {j \in interrupted : j.base.unit # current.unit}
             stopped == {j.target.unit : j \in foreign} \union {j.base.unit : j \in moved}
             S == IF undone THEN {"onlyBase", "quiet", "calm"} ELSE A
             P == {"atBase", f, "calm"}
             E == AtBody
             p1 == SetProxy("hold", current) \o WaitIdle
             p2 == p1 \o When("active" \in stopped, Stop("active"))
             p3 == p2 \o When("legacy" \in stopped, Stop("legacy"))
             p4 == p3 \o When(current.unit \in stopped, WaitLock)
             p5 == p4 \o Publish(current)
             p6 == p5 \o Begin(current.unit)
             p7 == p6 \o Ready(current.port)
             p8 == p7 \o SetProxy("forward", current)
             p9 == p8 \o Clear
             first == <<[do |-> "waitProxy"]>>
  <1>1. EnsureProxy(current, interrupted) = first \o When(interrupted # {} \/ ~settled, p9)
    BY DEF EnsureProxy
  <1>2. /\ "active" \in stopped <=> undone
        /\ "legacy" \notin stopped
        /\ current.port \in Ports /\ b.port = current.port
        /\ {"hold", "forward"} \subseteq Modes
    <2>1. moved = {} /\ \A j \in foreign : j.target.unit = "active"
      OBVIOUS
    <2>2. stopped = {j.target.unit : j \in foreign}
      BY <2>1
    <2>3. undone <=> foreign # {}
      OBVIOUS
    <2> HIDE DEF moved, foreign, stopped
    <2>4. /\ "active" \in stopped <=> foreign # {}
          /\ "legacy" \notin stopped
      BY <2>1, <2>2
    <2> QED BY <2>3, <2>4 DEF Active, Modes, Site
  <1>3. /\ A \in SUBSET Facts /\ S \in SUBSET Facts /\ P \in SUBSET Facts /\ E \in SUBSET Facts
        /\ Guarded(A) /\ Guarded(S) /\ Guarded(P)
        /\ "quiet" \notin A /\ "quiet" \notin P /\ "still" \notin P
        /\ undone \in BOOLEAN /\ undone => f = "onlyBase"
        /\ f \in {"none", "onlyBase"}
    BY DEF Facts, ReleaseFacts, Guarded, AtBody
  <1> HIDE DEF stopped, settled
  <1>31. /\ ("active" \in stopped) \in BOOLEAN /\ ("legacy" \in stopped) \in BOOLEAN
         /\ (current.unit \in stopped) \in BOOLEAN
    OBVIOUS
  <1>4. Guides(b, o, SetProxy("hold", current), A, A)
    BY <1>2, <1>3, GuidesProxy
  <1>5. Guides(b, o, WaitIdle, A, A) /\ Guides(b, o, first, A, A) /\ Guides(b, o, WaitLock, S, S)
    BY <1>3, GuidesCall
  <1>6. Guides(b, o, When("active" \in stopped, Stop("active")), A, S)
    <2>1. ASSUME undone PROVE Guides(b, o, Stop("active"), A, S)
      <3>1. S \in SUBSET (A \union {"quiet"} \union {"onlyBase"}) /\ "toBase" \in A
        BY <2>1
      <3> HIDE DEF S, b
      <3>2. S \in SUBSET (A \union {"quiet"}
                             \union (IF "toBase" \in A THEN {"onlyBase"} ELSE {})
                             \union (IF "toOther" \in A THEN {"onlyOther"} ELSE {}))
        BY <3>1
      <3>3. A \in SUBSET Facts /\ Guarded(A)
        BY <1>3
      <3>4. \A X : X \in SUBSET Facts /\ Guarded(X) =>
               \A Y \in SUBSET (X \union {"quiet"}
                                  \union (IF "toBase" \in X THEN {"onlyBase"} ELSE {})
                                  \union (IF "toOther" \in X THEN {"onlyOther"} ELSE {})) :
                  Guides(b, o, Stop("active"), X, Y)
        BY GuidesStop
      <3> QED BY <3>2, <3>3, <3>4
    <2>2. ~undone => S \subseteq A
      OBVIOUS
    <2> HIDE DEF S
    <2> QED BY <1>2, <1>3, <1>31, <2>1, <2>2, GuidesWhen
  <1>7. /\ Guides(b, o, When("legacy" \in stopped, Stop("legacy")), S, S)
        /\ Guides(b, o, When(current.unit \in stopped, WaitLock), S, S)
    <2> HIDE DEF S
    <2> QED BY <1>2, <1>3, <1>31, <1>5, GuidesWhen
  <1>8. Guides(b, o, Publish(current), S, P)
    <2>1. \/ "atBase" \in S
          \/ {"onlyBase", "quiet"} \subseteq S
      OBVIOUS
    <2>2. P \subseteq (S \ (IF "atBase" \in S THEN {} ELSE {"atBase", "atOther", "still"}))
                         \union {"atBase"}
      BY <1>3
    <2> HIDE DEF S, P
    <2>3. P \subseteq (S \ (IF Site(current) = b /\ "atBase" \in S THEN {} ELSE {"atBase", "atOther", "still"}))
                         \union (IF Site(current) = b THEN {"atBase"} ELSE {})
                         \union (IF Site(current) = o THEN {"atOther"} ELSE {})
      BY <2>2
    <2> HIDE DEF b
    <2>4. Site(current) = b
      BY DEF b
    <2> QED BY <1>3, <2>1, <2>3, <2>4, GuidesPublish
  <1>9. Guides(b, o, Begin(current.unit), P, P)
    <2> HIDE DEF P, b
    <2>1. P \in SUBSET (P \ {"still"})
      BY <1>3
    <2> QED BY <1>3, <2>1, GuidesStart
  <1>10. Guides(b, o, Ready(current.port), P, P)
    <2> HIDE DEF P, b
    <2> QED BY <1>2, <1>3, GuidesCall
  <1>11. Guides(b, o, SetProxy("forward", current), P, P)
    <2>1. "atBase" \in P
      OBVIOUS
    <2> HIDE DEF P, b
    <2> QED BY <1>2, <1>3, <2>1, GuidesProxy
  <1>12. Guides(b, o, Clear, P, E)
    <2>1. "none" \in P \/ {"atBase", "onlyBase"} \subseteq P
      BY <1>3
    <2>2. E \in SUBSET ((P \ {"toBase", "onlyBase", "toOther", "onlyOther"}) \union {"none"})
      BY DEF AtBody
    <2> HIDE DEF P, b, E
    <2> QED BY <1>3, <2>1, <2>2, GuidesClear
  <1>13. interrupted = {} => E \subseteq A
    BY DEF AtBody
  <1> HIDE DEF b, S, P, E, first
  <1>14. Guides(b, o, p1, A, A)
    BY <1>4, <1>5, GuidesThen
  <1>15. Guides(b, o, p2, A, S)
    <2> HIDE DEF p1
    <2> QED BY <1>6, <1>14, GuidesThen
  <1>16. Guides(b, o, p3, A, S)
    <2> HIDE DEF p2
    <2> QED BY <1>7, <1>15, GuidesThen
  <1>17. Guides(b, o, p4, A, S)
    <2> HIDE DEF p3
    <2> QED BY <1>7, <1>16, GuidesThen
  <1>18. Guides(b, o, p5, A, P)
    <2> HIDE DEF p4
    <2> QED BY <1>8, <1>17, GuidesThen
  <1>19. Guides(b, o, p6, A, P)
    <2> HIDE DEF p5
    <2> QED BY <1>9, <1>18, GuidesThen
  <1>20. Guides(b, o, p7, A, P)
    <2> HIDE DEF p6
    <2> QED BY <1>10, <1>19, GuidesThen
  <1>21. Guides(b, o, p8, A, P)
    <2> HIDE DEF p7
    <2> QED BY <1>11, <1>20, GuidesThen
  <1>22. Guides(b, o, p9, A, E)
    <2> HIDE DEF p8
    <2> QED BY <1>12, <1>21, GuidesThen
  <1> HIDE DEF p9
  <1>23. Guides(b, o, When(interrupted # {} \/ ~settled, p9), A, E)
    BY <1>3, <1>13, <1>22, GuidesWhen
  <1>24. Guides(b, o, first \o When(interrupted # {} \/ ~settled, p9), A, E)
    BY <1>5, <1>23, GuidesThen
  <1> QED
    BY <1>1, <1>24 DEF b, E

\* The switch itself: the new release runs alone before it is published.
LEMMA SwitchToGuides ==
  ASSUME NEW base \in Active, NEW target \in Active,
         base.unit = "active", target.unit = "active",
         target.api = base.api <=> target.port = base.port
  PROVE  Guides(Site(base), Site(target), SwitchTo(base, target), {"atBase", "none", "begun"}, {})
  <1> DEFINE moves == base.api # target.api
             b == Site(base)
             o == Site(target)
             A == {"atBase", "none", "begun"}
             W == {"atBase", "toOther", "pending", "begun"}
             X == {"atBase", "toOther", "old", "calm", "begun"}
             Y == {"onlyOther", "quiet", "old", "calm", "begun"}
             Z == {"onlyOther", "quiet", "started", "calm", "begun"}
             J == IF moves THEN Z ELSE A
             P == IF moves THEN {"atOther", "onlyOther", "calm", "begun"} ELSE A
             N == {}
             a1 == SetProxy("drain", base) \o Mark("drained")
             a2 == a1 \o WritersIdle
             a3 == a2 \o SetProxy("hold", base)
             a4 == a3 \o WaitIdle
             a5 == a4 \o Write("prepared")
             a6 == a5 \o Mark("oldStop")
             a7 == a6 \o Stop(base.unit)
             a8 == a7 \o WaitLock
             a9 == a8 \o Mark("newStart")
             a10 == a9 \o Begin(target.unit)
             a11 == a10 \o Ready(target.port)
             b1 == Write("published") \o SetProxy("forward", target)
             b2 == b1 \o Enable(target.unit)
             b3 == b2 \o When(base.unit # target.unit, Disable(base.unit))
             b4 == b3 \o Clear
  <1>1. SwitchTo(base, target)
          = When(moves, a11) \o Mark("published") \o When(moves, Write("publishing"))
              \o Publish(target) \o When(moves, b4)
    BY DEF SwitchTo
  <1>2. /\ base.port \in Ports /\ target.port \in Ports
        /\ b.port = base.port /\ o.port = target.port
        /\ moves => b.port # o.port
        /\ ~moves => Site(target) = b
        /\ {"forward", "drain", "hold"} \subseteq Modes
        /\ {"drained", "oldStop", "newStart", "published"} \subseteq Flags
        /\ moves \in BOOLEAN
    BY DEF Active, Modes, Flags, Site
  <1>3. /\ A \in SUBSET Facts /\ W \in SUBSET Facts /\ X \in SUBSET Facts /\ Y \in SUBSET Facts
        /\ Z \in SUBSET Facts /\ J \in SUBSET Facts /\ P \in SUBSET Facts /\ N \in SUBSET Facts
    BY DEF Facts, ReleaseFacts
  <1>4. /\ Guarded(A) /\ Guarded(X) /\ Guarded(Y) /\ Guarded(Z) /\ Guarded(J) /\ Guarded(P)
    BY DEF Guarded
  <1>5. Site(target) = o /\ o.port = target.port
    BY <1>2
  <1> HIDE DEF b, o
  <1>6. Guides(b, o, SetProxy("drain", base), A, A) /\ Guides(b, o, SetProxy("hold", base), A, A)
    <2>1. "atBase" \in A /\ "quiet" \notin A
      OBVIOUS
    <2> HIDE DEF A
    <2> QED BY <1>2, <1>3, <1>4, <2>1, GuidesProxy
  <1>7. Guides(b, o, Mark("drained"), A, A)
    <2>1. "begun" \in A
      OBVIOUS
    <2> HIDE DEF A
    <2> QED BY <1>2, <1>3, <1>4, <2>1, GuidesMark
  <1>8. /\ Guides(b, o, WritersIdle, A, A) /\ Guides(b, o, WaitIdle, A, A)
        /\ Guides(b, o, WaitLock, Y, Y) /\ Guides(b, o, Ready(target.port), Z, Z)
    <2> HIDE DEF A, Y, Z
    <2> QED BY <1>2, <1>3, <1>4, GuidesCall
  <1>9. ASSUME moves PROVE Guides(b, o, Write("prepared"), A, W)
    <2>1. /\ "begun" \in A /\ "none" \in A
          /\ W \in SUBSET ((A \ {"toBase", "onlyBase", "none"}) \union {"toOther", "pending"})
      OBVIOUS
    <2> HIDE DEF A, W
    <2> QED BY <1>2, <1>3, <1>4, <1>9, <2>1, GuidesWrite
  <1>10. Guides(b, o, Mark("oldStop"), W, X)
    <2>1. "begun" \in W /\ "pending" \in W /\ X \in SUBSET (W \union {"old", "calm"})
      OBVIOUS
    <2> HIDE DEF W, X
    <2> QED BY <1>2, <1>3, <2>1, GuidesMark
  <1>11. Guides(b, o, Stop(base.unit), X, Y)
    <2>1. "toOther" \in X /\ Y \in SUBSET (X \union {"quiet"} \union {"onlyOther"})
      OBVIOUS
    <2> HIDE DEF X, Y
    <2> QED BY <1>3, <1>4, <2>1, GuidesStop
  <1>12. Guides(b, o, Mark("newStart"), Y, Z)
    <2>1. "begun" \in Y /\ "old" \in Y /\ Z \in SUBSET (Y \union {"started"})
      OBVIOUS
    <2> HIDE DEF Y, Z
    <2> QED BY <1>2, <1>3, <1>4, <2>1, GuidesMark
  <1>13. Guides(b, o, Begin(target.unit), Z, Z)
    <2>1. Z \in SUBSET (Z \ {"still"})
      OBVIOUS
    <2> HIDE DEF Z
    <2> QED BY <1>3, <1>4, <2>1, GuidesStart
  <1>14. Guides(b, o, Mark("published"), J, J)
    <2>1. "begun" \in J
      OBVIOUS
    <2> HIDE DEF J
    <2> QED BY <1>2, <1>3, <1>4, <2>1, GuidesMark
  <1>15. Guides(b, o, When(moves, Write("publishing")), J, J)
    <2>1. ASSUME moves PROVE Guides(b, o, Write("publishing"), J, J)
      <3>1. /\ "begun" \in J /\ "onlyOther" \in J
            /\ J \in SUBSET ((J \ {"toBase", "onlyBase", "none"}) \union {"toOther", "pending"})
        BY <2>1
      <3> HIDE DEF J, moves
      <3> QED BY <1>2, <1>3, <1>4, <2>1, <3>1, GuidesWrite
    <2> HIDE DEF J, moves
    <2> QED BY <1>2, <1>3, <2>1, GuidesWhen
  <1>16. Guides(b, o, Publish(target), J, P)
    <2>1. CASE moves
      <3>1. Site(target) # b
        BY <1>2, <2>1 DEF Site
      <3>2. /\ {"onlyOther", "quiet", "started"} \subseteq J
            /\ P \subseteq (J \ {"atBase", "atOther", "still"}) \union {"atOther"}
        BY <2>1
      <3> HIDE DEF J, P, moves
      <3>3. P \subseteq (J \ (IF Site(target) = b /\ "atBase" \in J THEN {} ELSE {"atBase", "atOther", "still"}))
                           \union (IF Site(target) = b THEN {"atBase"} ELSE {})
                           \union (IF Site(target) = o THEN {"atOther"} ELSE {})
        BY <1>5, <3>1, <3>2
      <3> QED BY <1>3, <1>4, <1>5, <3>2, <3>3, GuidesPublish
    <2>2. CASE ~moves
      <3>1. /\ "atBase" \in J /\ P = J
        BY <2>2
      <3> HIDE DEF J, P, moves
      <3>2. P \subseteq (J \ (IF Site(target) = b /\ "atBase" \in J THEN {} ELSE {"atBase", "atOther", "still"}))
                           \union (IF Site(target) = b THEN {"atBase"} ELSE {})
                           \union (IF Site(target) = o THEN {"atOther"} ELSE {})
        BY <1>2, <2>2, <3>1
      <3> QED BY <1>2, <1>3, <1>4, <2>2, <3>1, <3>2, GuidesPublish
    <2> QED BY <2>1, <2>2
  <1>17. ASSUME moves PROVE Guides(b, o, b1, P, P)
    <2>1. /\ "begun" \in P /\ "onlyOther" \in P /\ "atOther" \in P
          /\ P \in SUBSET ((P \ {"toBase", "onlyBase", "none"}) \union {"toOther", "pending"})
          /\ P \in SUBSET (P \ {"quiet"})
      BY <1>17
    <2> HIDE DEF P, moves
    <2>2. Guides(b, o, Write("published"), P, P)
      BY <1>2, <1>3, <1>4, <1>17, <2>1, GuidesWrite
    <2>3. Guides(b, o, SetProxy("forward", target), P, P)
      BY <1>2, <1>3, <1>4, <1>5, <2>1, GuidesProxy
    <2> QED BY <2>2, <2>3, GuidesThen
  <1>18. ASSUME moves PROVE Guides(b, o, b4, P, N)
    <2>1. {"atOther", "onlyOther"} \subseteq P
      BY <1>18
    <2>2. Guides(b, o, Enable(target.unit), P, P)
      <3> HIDE DEF P
      <3> QED BY <1>3, <1>4, GuidesCall
    <2> HIDE DEF P, moves
    <2>3. Guides(b, o, When(base.unit # target.unit, Disable(base.unit)), P, P)
      BY <1>3, GuidesWhen
    <2>4. Guides(b, o, Clear, P, N)
      BY <1>3, <1>4, <2>1, GuidesClear
    <2> HIDE DEF N
    <2>5. Guides(b, o, b1, P, P)
      BY <1>17, <1>18
    <2>6. Guides(b, o, b2, P, P)
      <3> HIDE DEF b1
      <3> QED BY <2>2, <2>5, GuidesThen
    <2>7. Guides(b, o, b3, P, P)
      <3> HIDE DEF b2
      <3> QED BY <2>3, <2>6, GuidesThen
    <2> HIDE DEF b3
    <2> QED BY <2>4, <2>7, GuidesThen
  <1>19. ASSUME moves PROVE Guides(b, o, a11, A, Z)
    <2> HIDE DEF A, W, X, Y, Z, moves
    <2>1. Guides(b, o, a1, A, A)
      BY <1>6, <1>7, GuidesThen
    <2>2. Guides(b, o, a2, A, A)
      <3> HIDE DEF a1
      <3> QED BY <1>8, <2>1, GuidesThen
    <2>3. Guides(b, o, a3, A, A)
      <3> HIDE DEF a2
      <3> QED BY <1>6, <2>2, GuidesThen
    <2>4. Guides(b, o, a4, A, A)
      <3> HIDE DEF a3
      <3> QED BY <1>8, <2>3, GuidesThen
    <2>5. Guides(b, o, a5, A, W)
      <3> HIDE DEF a4
      <3> QED BY <1>9, <1>19, <2>4, GuidesThen
    <2>6. Guides(b, o, a6, A, X)
      <3> HIDE DEF a5
      <3> QED BY <1>10, <2>5, GuidesThen
    <2>7. Guides(b, o, a7, A, Y)
      <3> HIDE DEF a6
      <3> QED BY <1>11, <2>6, GuidesThen
    <2>8. Guides(b, o, a8, A, Y)
      <3> HIDE DEF a7
      <3> QED BY <1>8, <2>7, GuidesThen
    <2>9. Guides(b, o, a9, A, Z)
      <3> HIDE DEF a8
      <3> QED BY <1>12, <2>8, GuidesThen
    <2>10. Guides(b, o, a10, A, Z)
      <3> HIDE DEF a9
      <3> QED BY <1>13, <2>9, GuidesThen
    <2> HIDE DEF a10
    <2> QED BY <1>8, <2>10, GuidesThen
  <1> HIDE DEF a11, b4
  <1>20. Guides(b, o, When(moves, a11), A, J) /\ Guides(b, o, When(moves, b4), P, N)
    <2>1. /\ moves => J = Z
          /\ ~moves => J = A
      OBVIOUS
    <2> HIDE DEF J, P, Z, A, moves
    <2> QED BY <1>2, <1>3, <1>18, <1>19, <2>1, GuidesWhen
  <1> HIDE DEF A, J, P, moves, N
  <1>21. Guides(b, o, When(moves, a11) \o Mark("published"), A, J)
    BY <1>14, <1>20, GuidesThen
  <1>22. Guides(b, o, When(moves, a11) \o Mark("published") \o When(moves, Write("publishing")), A, J)
    BY <1>15, <1>21, GuidesThen
  <1>23. Guides(b, o, When(moves, a11) \o Mark("published") \o When(moves, Write("publishing"))
                        \o Publish(target), A, P)
    BY <1>16, <1>22, GuidesThen
  <1>24. Guides(b, o, When(moves, a11) \o Mark("published") \o When(moves, Write("publishing"))
                        \o Publish(target) \o When(moves, b4), A, N)
    BY <1>20, <1>23, GuidesThen
  <1> QED
    BY <1>1, <1>24 DEF b, o, A, N

\* The catch block: once the old release was stopped a start would run it again, and it
\* is published before the proxy forwards to it; without that nothing was moved.
LEMMA RecoveryGuides ==
  ASSUME NEW s, s.state \in Active, s.target \in Active, s.pending \in BOOLEAN,
         s.state.unit = "active", s.target.unit = "active",
         "oldStop" \in s.marks => s.pending /\ s.target.port # s.state.port,
         "newStart" \in s.marks => "oldStop" \in s.marks,
         "drained" \in s.marks \/ "published" \in s.marks \/ "oldStop" \in s.marks
           => "recovered" \in s.marks,
         NEW o, "recovered" \in s.marks => o = Site(s.target),
         NEW f \in {"none", "still"},
         "recovered" \in s.marks \/ s.interrupted # {} \/ f = "none",
         NEW A, A = {"calm"}
                    \union (IF "recovered" \in s.marks /\ "newStart" \notin s.marks THEN {"atBase"} ELSE {})
                    \union (IF "oldStop" \in s.marks THEN {"begun"} ELSE {f})
  PROVE  \E B \in SUBSET Facts : Guides(Site(s.state), o, Recovery(s), A, B)
  <1> DEFINE b == Site(s.state)
             oldStop   == "oldStop" \in s.marks
             newStart  == "newStart" \in s.marks
             drained   == "drained" \in s.marks
             published == "published" \in s.marks
             recovered == "recovered" \in s.marks
             legacy    == s.state.unit # "active"
             restored  == IF oldStop THEN OnActiveUnit(s.state) ELSE s.state
             last      == s.interrupted = {} \/ recovered
             A1 == IF ~oldStop THEN A
                   ELSE {"calm", "toBase"} \union (IF newStart THEN {} ELSE {"atBase"})
             A2 == IF newStart THEN {"calm", "toBase", "onlyBase", "quiet"} ELSE A1
             A3 == IF oldStop THEN {"calm", "toBase", "atBase"} ELSE A
             A4 == IF oldStop THEN {"calm", "atBase", "onlyBase"} ELSE A
             B  == {}
             hold == SetProxy("hold", s.state) \o WaitIdle
             b1 == When(legacy, Stop(s.state.unit)) \o Enable("active")
             b2 == b1 \o When(legacy, Disable(s.state.unit))
             c1 == Begin("active") \o Ready(restored.port)
             p1 == When(oldStop /\ s.pending, Write("recovering")) \o When(drained, hold)
             p2 == p1 \o When(newStart, Stop(s.target.unit))
             p3 == p2 \o When(oldStop, b2)
             p4 == p3 \o When(published \/ oldStop, Publish(restored))
             p5 == p4 \o When(oldStop, c1)
             p6 == p5 \o When(drained, SetProxy("forward", restored))
             p7 == p6 \o When(last, Clear)
  <1>1. Recovery(s) = p7
    BY DEF Recovery
  <1>2. /\ restored \in Active /\ restored.unit = "active" /\ Site(restored) = b
        /\ restored.port = b.port /\ b.port \in Ports /\ {"hold", "forward"} \subseteq Modes
    <2>1. OnActiveUnit(s.state) \in Active
      BY DEF OnActiveUnit, Active, Units
    <2> QED BY <2>1 DEF Active, OnActiveUnit, Site, Modes
  <1>3. /\ A \in SUBSET Facts /\ A1 \in SUBSET Facts /\ A2 \in SUBSET Facts
        /\ A3 \in SUBSET Facts /\ A4 \in SUBSET Facts /\ B \in SUBSET Facts
    BY DEF Facts, ReleaseFacts
  <1>4. /\ Guarded(A) /\ Guarded(A1) /\ Guarded(A2) /\ Guarded(A3) /\ Guarded(A4)
        /\ "quiet" \notin A1 /\ "quiet" \notin A3 /\ "quiet" \notin A4
    BY DEF Guarded
  <1>5. /\ oldStop \in BOOLEAN /\ newStart \in BOOLEAN /\ drained \in BOOLEAN /\ legacy \in BOOLEAN
        /\ last \in BOOLEAN /\ (published \/ oldStop) \in BOOLEAN
        /\ (oldStop /\ s.pending) \in BOOLEAN
        /\ ~legacy /\ (drained \/ published \/ oldStop => recovered)
        /\ (newStart => oldStop) /\ (oldStop => s.pending)
    OBVIOUS
  <1>6. /\ recovered /\ ~newStart => "atBase" \in A
        /\ ~oldStop /\ recovered => "atBase" \in A4 /\ "atBase" \in A2
        /\ oldStop => "begun" \in A /\ A1 \in SUBSET ((A \ {"toOther", "onlyOther", "none"}) \union {"toBase"})
        /\ ~oldStop => f \in A4
        /\ oldStop => {"atBase", "onlyBase"} \subseteq A4
        /\ oldStop => "atBase" \in A2 \/ {"onlyBase", "quiet"} \subseteq A2
        /\ ~oldStop => A1 = A /\ A2 = A /\ A3 = A /\ A4 = A
        /\ newStart => "toBase" \in A1 /\ A2 \in SUBSET (A1 \union {"quiet"} \union {"onlyBase"})
        /\ ~newStart => A2 = A1
        /\ oldStop => {"atBase", "toBase"} \subseteq A3 /\ "still" \notin A3
        /\ oldStop => A4 \in SUBSET (A3 \union {"onlyBase"})
        /\ oldStop => A3 \subseteq (A2 \ {"atBase", "atOther", "still"}) \union {"atBase"}
    BY <1>5
  <1>7. oldStop => o = Site(s.target) /\ o.port # b.port
    BY <1>5 DEF Site
  <1> HIDE DEF A1, A2, A3, A4, B, b, oldStop, newStart, drained, published, legacy, restored, last, recovered
  <1>8. Guides(b, o, When(oldStop /\ s.pending, Write("recovering")), A, A1)
    <2>1. ASSUME oldStop PROVE Guides(b, o, Write("recovering"), A, A1)
      BY <1>3, <1>4, <1>6, <1>7, <2>1, GuidesUndo
    <2>2. ~oldStop => A1 \subseteq A
      BY <1>6
    <2> QED BY <1>3, <1>5, <2>1, <2>2, GuidesWhen
  <1>9. Guides(b, o, When(drained, hold), A1, A1)
    <2>1. Guides(b, o, SetProxy("hold", s.state), A1, A1)
      BY <1>2, <1>3, <1>4, GuidesProxy
    <2>2. Guides(b, o, WaitIdle, A1, A1)
      BY <1>3, <1>4, GuidesCall
    <2>3. Guides(b, o, hold, A1, A1)
      BY <2>1, <2>2, GuidesThen
    <2> HIDE DEF hold
    <2> QED BY <1>3, <1>5, <2>3, GuidesWhen
  <1>10. Guides(b, o, When(newStart, Stop(s.target.unit)), A1, A2)
    <2>1. ASSUME newStart PROVE Guides(b, o, Stop(s.target.unit), A1, A2)
      <3>1. A2 \in SUBSET (A1 \union {"quiet"}
                             \union (IF "toBase" \in A1 THEN {"onlyBase"} ELSE {})
                             \union (IF "toOther" \in A1 THEN {"onlyOther"} ELSE {}))
        BY <1>6, <2>1
      <3> QED BY <1>3, <1>4, <3>1, GuidesStop
    <2>2. ~newStart => A2 \subseteq A1
      BY <1>6
    <2> QED BY <1>3, <1>5, <2>1, <2>2, GuidesWhen
  <1>11. Guides(b, o, When(oldStop, b2), A2, A2)
    <2>1. Guides(b, o, When(legacy, Stop(s.state.unit)), A2, A2)
      BY <1>3, <1>5, GuidesWhen
    <2>2. Guides(b, o, When(legacy, Disable(s.state.unit)), A2, A2)
      BY <1>3, <1>5, GuidesWhen
    <2>3. Guides(b, o, Enable("active"), A2, A2)
      BY <1>3, <1>4, GuidesCall
    <2>4. Guides(b, o, b1, A2, A2)
      BY <2>1, <2>3, GuidesThen
    <2>5. Guides(b, o, b2, A2, A2)
      <3> HIDE DEF b1
      <3> QED BY <2>2, <2>4, GuidesThen
    <2> HIDE DEF b2
    <2> QED BY <1>3, <1>5, <2>5, GuidesWhen
  <1>12. Guides(b, o, When(published \/ oldStop, Publish(restored)), A2, A3)
    <2>1. ASSUME published \/ oldStop PROVE Guides(b, o, Publish(restored), A2, A3)
      <3>1. "atBase" \in A2 \/ {"onlyBase", "quiet"} \subseteq A2
        BY <1>5, <1>6, <2>1
      <3>2. A3 \subseteq (A2 \ (IF "atBase" \in A2 THEN {} ELSE {"atBase", "atOther", "still"}))
                           \union {"atBase"}
        BY <1>5, <1>6, <2>1
      <3>3. A3 \subseteq (A2 \ (IF Site(restored) = b /\ "atBase" \in A2 THEN {} ELSE {"atBase", "atOther", "still"}))
                           \union (IF Site(restored) = b THEN {"atBase"} ELSE {})
                           \union (IF Site(restored) = o THEN {"atOther"} ELSE {})
        BY <1>2, <3>2
      <3> QED BY <1>2, <1>3, <1>4, <3>1, <3>3, GuidesPublish
    <2>2. ~(published \/ oldStop) => A3 \subseteq A2
      BY <1>6
    <2> QED BY <1>3, <1>5, <2>1, <2>2, GuidesWhen
  <1>13. Guides(b, o, When(oldStop, c1), A3, A4)
    <2>1. ASSUME oldStop PROVE Guides(b, o, c1, A3, A4)
      <3>1. Guides(b, o, Begin("active"), A3, A3)
        <4>1. A3 \in SUBSET (A3 \ {"still"})
          BY <1>6, <2>1
        <4> QED BY <1>3, <1>4, <4>1, GuidesStart
      <3>2. Guides(b, o, Ready(b.port), A3, A4)
        BY <1>2, <1>3, <1>4, <1>6, <2>1, GuidesReady
      <3> QED BY <1>2, <3>1, <3>2, GuidesThen
    <2>2. ~oldStop => A4 \subseteq A3
      BY <1>6
    <2> HIDE DEF c1
    <2> QED BY <1>3, <1>5, <2>1, <2>2, GuidesWhen
  <1>14. Guides(b, o, When(drained, SetProxy("forward", restored)), A4, A4)
    <2>1. ASSUME drained PROVE Guides(b, o, SetProxy("forward", restored), A4, A4)
      <3>1. "atBase" \in A4 /\ A4 \in SUBSET (A4 \ {"quiet"})
        BY <1>4, <1>5, <1>6, <2>1
      <3> QED BY <1>2, <1>3, <1>4, <3>1, GuidesProxy
    <2> QED BY <1>3, <1>5, <2>1, GuidesWhen
  <1>15. Guides(b, o, When(last, Clear), A4, B)
    <2>1. ASSUME last PROVE Guides(b, o, Clear, A4, B)
      <3>1. \/ "none" \in A4 \/ "still" \in A4
            \/ {"atBase", "onlyBase"} \subseteq A4
        BY <1>6
      <3>2. B \subseteq (A4 \ {"toBase", "onlyBase", "toOther", "onlyOther"}) \union {"none"}
        BY DEF B
      <3> QED BY <1>3, <1>4, <3>1, <3>2, GuidesClear
    <2>2. B \subseteq A4
      BY DEF B
    <2> QED BY <1>3, <1>5, <2>1, <2>2, GuidesWhen
  <1> HIDE DEF hold, b2, c1
  <1>16. Guides(b, o, p1, A, A1)
    BY <1>8, <1>9, GuidesThen
  <1>17. Guides(b, o, p2, A, A2)
    <2> HIDE DEF p1
    <2> QED BY <1>10, <1>16, GuidesThen
  <1>18. Guides(b, o, p3, A, A2)
    <2> HIDE DEF p2
    <2> QED BY <1>11, <1>17, GuidesThen
  <1>19. Guides(b, o, p4, A, A3)
    <2> HIDE DEF p3
    <2> QED BY <1>12, <1>18, GuidesThen
  <1>20. Guides(b, o, p5, A, A4)
    <2> HIDE DEF p4
    <2> QED BY <1>13, <1>19, GuidesThen
  <1>21. Guides(b, o, p6, A, A4)
    <2> HIDE DEF p5
    <2> QED BY <1>14, <1>20, GuidesThen
  <1>22. Guides(b, o, p7, A, B)
    <2> HIDE DEF p6
    <2> QED BY <1>15, <1>21, GuidesThen
  <1> HIDE DEF p7
  <1> QED
    BY <1>1, <1>3, <1>22 DEF b
-----------------------------------------------------------------------------
(* The process between two places *)

\* What the first step of the plan may rely on, and the rest after it.
LEMMA HeadGuided ==
  ASSUME NEW s, Guided(s), s.todo # <<>>, Head(s.todo) # Recovered
  PROVE  /\ Head(s.todo) \in Steps
         /\ \E o : Party(s, o) /\ \E K, C \in SUBSET Facts :
               /\ Sure(s, Site(s.state), o, K)
               /\ Admits(Site(s.state), o, Head(s.todo), K)
               /\ C \subseteq Outcome(Site(s.state), o, Head(s.todo), K)
               /\ Plans(ReleaseRules(Site(s.state), o), Tail(s.todo), C, AtBody)
  <1> DEFINE b == Site(s.state)
  <1>1. PICK o : Party(s, o) /\ \E K \in SUBSET Facts : Led(s, o, s.todo, K)
    BY DEF Guided
  <1>2. PICK A \in SUBSET Facts : Sure(s, b, o, A) /\ Plans(ReleaseRules(b, o), s.todo, A, AtBody)
    BY <1>1 DEF Led
  <1>3. \A K \in SUBSET A : Sure(s, b, o, K)
    BY <1>2 DEF Sure
  <1> HIDE DEF b
  <1>4. /\ Head(s.todo) \in Steps
        /\ \E K, C \in SUBSET Facts :
              /\ K \subseteq A /\ Under(ReleaseRules(b, o), Head(s.todo), K, C)
              /\ Plans(ReleaseRules(b, o), Tail(s.todo), C, AtBody)
    BY <1>2, PlansOn
  <1>5. PICK K \in SUBSET Facts, C \in SUBSET Facts :
           /\ K \subseteq A /\ Under(ReleaseRules(b, o), Head(s.todo), K, C)
           /\ Plans(ReleaseRules(b, o), Tail(s.todo), C, AtBody)
    BY <1>4
  <1>6. Sure(s, b, o, K)
    BY <1>3, <1>5
  <1>7. Admits(b, o, Head(s.todo), K) /\ C \subseteq Outcome(b, o, Head(s.todo), K)
    BY <1>4, <1>5, ReleaseRule
  <1> QED
    BY <1>1, <1>4, <1>5, <1>6, <1>7 DEF b

\* The process goes on to the rest of its plan.
LEMMA GoesOn ==
  ASSUME NEW t, t \in Process, sw' = Continue(t), Orderly(t)', Unmoved(t)',
         NEW o, Party(t, o)', NEW C \in SUBSET Facts, Led(t, o, Tail(t.todo), C)'
  PROVE  \A x \in sw' : Guided(x)'
  <1> SUFFICES ASSUME NEW x \in sw' PROVE Guided(x)'
    OBVIOUS
  <1>1. x = [t EXCEPT !.todo = Tail(t.todo)]
    BY DEF Continue
  <1>2. /\ x.todo = Tail(t.todo) /\ x.state = t.state /\ x.target = t.target
        /\ x.interrupted = t.interrupted /\ x.pending = t.pending /\ x.marks = t.marks
    BY <1>1 DEF Process
  <1>3. Orderly(x)' /\ Unmoved(x)'
    BY <1>2 DEF Orderly, Unmoved, Calm
  <1>4. Party(x, o)'
    BY <1>2 DEF Party
  <1>5. Led(x, o, x.todo, C)'
    <2>1. Sure(x, Site(x.state), o, C)'
      BY <1>2 DEF Led, Sure, Calm
    <2>2. Plans(ReleaseRules(Site(x.state), o), x.todo, C, AtBody)'
      BY <1>2 DEF Led
    <2> QED BY <2>1, <2>2 DEF Led
  <1> QED
    BY <1>3, <1>4, <1>5 DEF Guided

\* A run that got nowhere has nothing to recover.
LEMMA NothingToRecover ==
  ASSUME NEW s, s.interrupted # {}, "recovered" \notin s.marks, s.marks \subseteq {"recovering"}
  PROVE  Recovery(s) = <<>>
  <1>1. \A p : When(FALSE, p) = <<>>
    BY DEF When
  <1>2. <<>> \o <<>> = <<>>
    <2>1. <<>> \in Seq(Steps)
      OBVIOUS
    <2> QED BY <2>1, ConcatEmptySeq
  <1>3. /\ ~("oldStop" \in s.marks) /\ ~("drained" \in s.marks) /\ ~("newStart" \in s.marks)
        /\ ~("published" \in s.marks) /\ ~(s.interrupted = {} \/ "recovered" \in s.marks)
    OBVIOUS
  <1> DEFINE c1 == "oldStop" \in s.marks /\ s.pending
             c2 == "drained" \in s.marks
             c3 == "newStart" \in s.marks
             c4 == "oldStop" \in s.marks
             c5 == "published" \in s.marks \/ "oldStop" \in s.marks
             c8 == s.interrupted = {} \/ "recovered" \in s.marks
             legacy   == s.state.unit # "active"
             restored == IF c4 THEN OnActiveUnit(s.state) ELSE s.state
             p1 == Write("recovering")
             p2 == SetProxy("hold", s.state) \o WaitIdle
             p3 == Stop(s.target.unit)
             p4 == When(legacy, Stop(s.state.unit)) \o Enable("active") \o When(legacy, Disable(s.state.unit))
             p5 == Publish(restored)
             p6 == Begin("active") \o Ready(restored.port)
             p7 == SetProxy("forward", restored)
  <1>4. c1 = FALSE /\ c2 = FALSE /\ c3 = FALSE /\ c4 = FALSE /\ c5 = FALSE /\ c8 = FALSE
    BY <1>3
  <1>5. Recovery(s) = When(c1, p1) \o When(c2, p2) \o When(c3, p3) \o When(c4, p4)
                        \o When(c5, p5) \o When(c4, p6) \o When(c2, p7) \o When(c8, Clear)
    BY DEF Recovery
  <1> HIDE DEF c1, c2, c3, c4, c5, c8, p1, p2, p3, p4, p5, p6, p7
  <1> QED
    BY <1>1, <1>2, <1>4, <1>5

\* No recovery but the one after the first fault finds anything else to run.
Undisturbed(s) == Calm(s) \/ journal' = {} \/ (faults = 0 => starting' = {} /\ Clean')

\* The process goes on to its recovery plan, or ends.
LEMMA RaisesGuided ==
  ASSUME NEW s, s \in Process, sw' = Raise(s), Orderly(s)', NEW o, Party(s, o)',
         faults \in Nat,
         \/ faults' = faults + 1 /\ Undisturbed(s)
         \/ journal' = {} \/ Calm(s)
  PROVE  \A x \in sw' : Guided(x)'
  <1> SUFFICES ASSUME NEW x \in sw' PROVE Guided(x)'
    OBVIOUS
  <1>0. PICK f \in {"none", "still"} : f = "none" <=> journal' = {}
    <2>1. CASE journal' = {}
      BY <2>1
    <2>2. CASE journal' # {}
      BY <2>2
    <2> QED BY <2>1, <2>2
  <1> DEFINE A == {"calm"}
                    \union (IF "recovered" \in s.marks /\ "newStart" \notin s.marks THEN {"atBase"} ELSE {})
                    \union (IF "oldStop" \in s.marks THEN {"begun"} ELSE {f})
             plan == Recovery(s)
             b == Site(s.state)
  <1>1. /\ x = [s EXCEPT !.todo = plan, !.marks = @ \union {"recovering"}]
        /\ "recovering" \notin s.marks /\ plan # <<>>
    BY DEF Raise
  <1>2. /\ s.state \in Active /\ s.target \in Active /\ s.pending \in BOOLEAN
    BY DEF Process
  <1>3. /\ s.state.unit = "active" /\ s.target.unit = "active"
        /\ "oldStop" \in s.marks => s.pending /\ s.target.port # s.state.port
        /\ "newStart" \in s.marks => "oldStop" \in s.marks
        /\ "oldStop" \in s.marks => "recovered" \in s.marks
        /\ "drained" \in s.marks \/ "published" \in s.marks \/ "oldStop" \in s.marks
             => "recovered" \in s.marks
    BY DEF Orderly
  <1>4. "recovered" \in s.marks => o = Site(s.target)
    BY DEF Party
  <1>5. "recovered" \in s.marks \/ journal' = {}
    <2>1. "recovered" \notin s.marks => s.marks \subseteq {"recovering"}
      BY DEF Orderly
    <2>2. "recovered" \in s.marks \/ s.interrupted = {}
      BY <1>1, <2>1, NothingToRecover DEF plan
    <2> QED BY <2>2 DEF Orderly
  <1>6. f \in {"none", "still"} /\ ("recovered" \in s.marks \/ s.interrupted # {} \/ f = "none")
    BY <1>0, <1>5
  <1>7. A \in SUBSET Facts
    BY <1>6 DEF Facts, ReleaseFacts
  <1>8. PICK B \in SUBSET Facts : Guides(b, o, plan, A, B)
    BY <1>2, <1>3, <1>4, <1>6, RecoveryGuides
  <1> HIDE DEF plan
  <1>9. /\ x.todo = plan /\ x.state = s.state /\ x.target = s.target
        /\ x.interrupted = s.interrupted /\ x.pending = s.pending
        /\ x.marks = s.marks \union {"recovering"}
    BY <1>1 DEF Process
  <1>10. Orderly(x)'
    BY <1>9 DEF Orderly
  <1>11. Calm(x) /\ Unmoved(x)'
    BY <1>9 DEF Calm, Unmoved
  <1>12. Party(x, o)'
    BY <1>9 DEF Party
  <1>13. Sure(x, b, o, A)'
    <2>1. "recovered" \in s.marks /\ "newStart" \notin s.marks => Current' = b
      BY DEF Orderly
    <2>2. "none" \in A => journal' = {}
      BY <1>0
    <2>3. "still" \in A => (faults' <= 1 => faults' = 1 /\ starting' = {} /\ Clean')
      <3>1. ASSUME "still" \in A PROVE ~Calm(s) /\ journal' # {}
        BY <1>0, <1>1, <1>5, <3>1 DEF Calm
      <3> QED BY <3>1 DEF Undisturbed
    <2>4. "begun" \in A => "recovered" \in x.marks
      BY <1>3, <1>9
    <2>5. A \subseteq {"calm", "atBase", "begun", "none", "still"}
          /\ ("atBase" \in A => "recovered" \in s.marks /\ "newStart" \notin s.marks)
      OBVIOUS
    <2> HIDE DEF A
    <2> QED BY <1>11, <2>1, <2>2, <2>3, <2>4, <2>5 DEF Sure
  <1>14. Plans(ReleaseRules(b, o), plan, A, AtBody)
    BY <1>8 DEF Plans, Guides
  <1>15. Led(x, o, x.todo, A)'
    <2> HIDE DEF A
    <2> QED BY <1>9, <1>13, <1>14 DEF Led
  <1> HIDE DEF A
  <1> QED
    BY <1>7, <1>10, <1>11, <1>12, <1>15 DEF Guided

\* A call that returns, or throws after its effect.
LEMMA ReturnsGuided ==
  ASSUME NEW s, s \in Process, NEW t, t \in {s, [s EXCEPT !.pending = TRUE]},
         Returns(s, t), faults \in Nat, Orderly(s)', Orderly(t)', Undisturbed(s),
         NEW o, Party(s, o)', NEW C \in SUBSET Facts,
         faults' = faults => Led(t, o, Tail(s.todo), C)'
  PROVE  \A x \in sw' : Guided(x)'
  <1>1. /\ t \in Process /\ t.todo = s.todo /\ t.state = s.state /\ t.target = s.target
        /\ t.marks = s.marks
    BY DEF Process
  <1>2. CASE sw' = Continue(t) /\ UNCHANGED faults
    <2>1. Party(t, o)' /\ Unmoved(t)'
      BY <1>1, <1>2 DEF Party, Unmoved, Undisturbed, Calm
    <2>2. Led(t, o, Tail(t.todo), C)'
      BY <1>1, <1>2
    <2> QED BY <1>1, <1>2, <2>1, <2>2, GoesOn
  <1>3. CASE Fault /\ sw' = Raise(s)
    BY <1>3, RaisesGuided DEF Fault
  <1> QED
    BY <1>2, <1>3 DEF Returns

\* What holds for the first fault, and after it.
Still == faults <= 1 => faults = 1 /\ starting = {} /\ Clean
Quiet == Acked /\ InFlight = {}

\* A step of somebody else, which publishes nothing.
LEMMA StaysGuided ==
  ASSUME NEW s, Guided(s), UNCHANGED <<journal, switchState>>,
         \A x : Entering(x) /\ running["active"] \subseteq {x} => running'["active"] \subseteq {x},
         Still => Still', Quiet => Quiet',
         (faults = 0 => starting = {} /\ Clean) => (faults' = 0 => starting' = {} /\ Clean')
  PROVE  Guided(s)'
  <1>1. Current' = Current /\ \A x : Entering(x)' <=> Entering(x)
    BY DEF Current, Entering, Entry
  <1>2. Orderly(s)' /\ Unmoved(s)'
    BY <1>1 DEF Guided, Orderly, Unmoved
  <1>3. PICK o : Party(s, o) /\ \E K \in SUBSET Facts : Led(s, o, s.todo, K)
    BY DEF Guided
  <1>4. Party(s, o)'
    BY <1>1, <1>3 DEF Party, Between
  <1>5. PICK K \in SUBSET Facts : Led(s, o, s.todo, K)
    BY <1>3
  <1>6. Sure(s, Site(s.state), o, K)'
    <2> DEFINE b == Site(s.state)
    <2>1. Sure(s, b, o, K)
      BY <1>5 DEF Led
    <2> HIDE DEF b
    <2>2. Sure(s, b, o, K)'
      BY <1>1, <2>1 DEF Sure, Still, Quiet
    <2> QED BY <2>2 DEF b
  <1>7. Led(s, o, s.todo, K)'
    BY <1>5, <1>6 DEF Led
  <1> QED
    BY <1>2, <1>4, <1>7 DEF Guided

-----------------------------------------------------------------------------
(* The steps of everybody else *)

\* Nothing new is sent.
LEMMA RoutedStays ==
  ASSUME Routed, UNCHANGED <<switchState, stateFile, process, state, reading>>,
         InFlight' \subseteq InFlight, upstream' = upstream
  PROVE  Routed'
  BY DEF Routed

\* The proxy sends requests where its state says.
LEMMA ProxyRoutes ==
  ASSUME TypeOK, Wire, Routed, ProxyStep
  PROVE  Routed'
  <1>1. switchState' = switchState
    BY DEF ProxyStep, switchVars
  <1>2. CASE StatusTimer \/ WriteStatus
    <2>1. /\ UNCHANGED <<stateFile, process, state, reading, phase, upstream>>
      BY <1>2 DEF StatusTimer, WriteStatus, fileVars, requestVars
    <2>2. InFlight' = InFlight
      BY <2>1 DEF InFlight
    <2> QED BY <1>1, <2>1, <2>2, RoutedStays
  <1>3. CASE ReadState
    <2>1. /\ UNCHANGED <<stateFile, process, state, phase, upstream>> /\ reading' = {stateFile}
      BY <1>3 DEF ReadState, fileVars, requestVars
    <2>2. InFlight' = InFlight
      BY <2>1 DEF InFlight
    <2> QED BY <1>1, <2>1, <2>2 DEF Routed
  <1>4. CASE ApplyState
    <2>1. PICK v \in reading :
             \/ UNCHANGED <<state, requestVars>>
             \/ /\ v.generation > state.generation /\ state' = v
                /\ Forward(Flushed(v), v)
      <3>1. PICK v \in reading :
               IF process # "up" \/ v.generation <= state.generation
               THEN UNCHANGED <<state, statusVars, requestVars>>
               ELSE state' = v /\ Forward(Flushed(v), v)
        BY <1>4 DEF ApplyState
      <3>2. v.generation \in Nat /\ state.generation \in Nat
        BY DEF TypeOK, ProxyState
      <3> QED BY <3>1, <3>2
    <2>2. reading' = {} /\ UNCHANGED <<stateFile, process>>
      BY <1>4 DEF ApplyState, fileVars
    <2>3. CASE UNCHANGED <<state, requestVars>>
      <3>1. InFlight' = InFlight /\ upstream' = upstream
        BY <2>3 DEF requestVars, InFlight
      <3> QED BY <1>1, <2>2, <2>3, <3>1 DEF Routed
    <2>4. CASE v.generation > state.generation /\ state' = v /\ Forward(Flushed(v), v)
      <3>1. v.mode # "hold" => v.port = switchState.port
        BY <2>4 DEF Routed
      <3>2. \A r \in Flushed(v) : v.port = switchState.port
        BY <3>1 DEF Flushed, MustQueue
      <3>3. /\ \A r \in Requests : phase'[r] = IF r \in Flushed(v) THEN "sent" ELSE phase[r]
            /\ \A r \in Requests : upstream'[r] = IF r \in Flushed(v) THEN v.port ELSE upstream[r]
        BY <2>4 DEF Forward
      <3>4. \A r \in InFlight' : upstream'[r] = switchState.port
        BY <3>2, <3>3 DEF InFlight, Routed
      <3> QED BY <1>1, <2>2, <2>4, <3>1, <3>4 DEF Routed
    <2> QED BY <2>1, <2>3, <2>4
  <1>5. CASE Start
    <2>1. /\ state' = stateFile /\ process = "down"
          /\ UNCHANGED <<stateFile, reading, phase, upstream>>
      BY <1>5 DEF Start, fileVars, requestVars
    <2>2. reading' = {}
      BY <2>1 DEF Wire, ReportsOrdered
    <2>3. InFlight' = InFlight
      BY <2>1 DEF InFlight
    <2> QED BY <1>1, <2>1, <2>2, <2>3 DEF Routed
  <1>6. ASSUME NEW r \in Requests,
               \/ Arrive(r) \/ HoldExpires(r)
               \/ Listening(upstream[r]) /\ UpstreamAnswers(r)
               \/ ~Listening(upstream[r]) /\ UpstreamFails(r)
        PROVE  Routed'
    <2>1. UNCHANGED <<stateFile, process, state, reading>>
      BY <1>6 DEF Arrive, HoldExpires, UpstreamAnswers, UpstreamFails, fileVars
    <2>2. ASSUME NEW where, where \notin {"sent", "unseen", "retry", "abandoned"},
                 phase' = [phase EXCEPT ![r] = where], upstream' = upstream
          PROVE  Routed'
      <3>1. InFlight' \subseteq InFlight
        BY <2>2 DEF InFlight, TypeOK
      <3> QED BY <1>1, <2>1, <2>2, <3>1, RoutedStays
    <2>3. CASE Arrive(r) /\ process = "up" /\ ~MustQueue(r, state)
      <3>1. Forward({r}, state)
        BY <2>3 DEF Arrive
      <3>2. state.mode # "hold"
        BY <2>3 DEF MustQueue
      <3>3. state.port = switchState.port
        BY <2>3, <3>2 DEF Routed
      <3>4. /\ \A q \in Requests : phase'[q] = IF q = r THEN "sent" ELSE phase[q]
            /\ \A q \in Requests : upstream'[q] = IF q = r THEN state.port ELSE upstream[q]
        BY <3>1 DEF Forward
      <3>5. \A q \in InFlight' : upstream'[q] = switchState.port
        BY <3>3, <3>4 DEF InFlight, Routed
      <3> QED BY <1>1, <2>1, <3>5 DEF Routed
    <2>4. CASE \/ \E outcome \in {"full", "queued", "hung", "expired"} : Ends(r, outcome)
               \/ \E outcome \in {"answered", "failed"} : Settle(r, outcome)
               \/ Becomes(r, "leaked")
      BY <2>2, <2>4 DEF Ends, Settle, Becomes
    <2> QED
      BY <1>6, <2>3, <2>4 DEF Arrive, HoldExpires, UpstreamAnswers, UpstreamFails
  <1> QED
    BY <1>2, <1>3, <1>4, <1>5, <1>6 DEF ProxyStep

\* A proxy that is gone sends nothing.
LEMMA CrashRoutes ==
  ASSUME TypeOK, Routed, Crash, switchState' = switchState
  PROVE  Routed'
  <1>1. /\ process' = "down" /\ reading' = {} /\ stateFile' = stateFile
        /\ phase' = Disconnected
    BY DEF Crash, Stopped
  <1>2. InFlight' = {}
    BY <1>1 DEF InFlight, Disconnected, Finished
  <1> QED
    BY <1>1, <1>2 DEF Routed

\* What a start of the active unit changes.
LEMMA UnitStarts ==
  ASSUME HostOK, ReleaseOK, StartUnit("active"), UNCHANGED <<journal, switchState>>, faults' \in Nat,
         faults' >= faults
  PROVE  /\ OnlyActive' /\ Resolved' /\ Journalled' /\ Advanced' /\ Cleared' /\ OneRuns'
         /\ starting' = {}
         /\ \A x : Entering(x) /\ running["active"] \subseteq {x} => running'["active"] \subseteq {x}
         /\ journal = {} /\ Clean => Clean'
  <1> DEFINE e == Entry("active")
  <1>1. starting' = {} /\ enabled' = enabled
    BY DEF StartUnit, ReleaseOK, OnlyActive
  <1>2. /\ running'["active"] = running["active"] \/ running'["active"] = {e}
        /\ running'["legacy"] = running["legacy"]
    BY DEF StartUnit, HostOK, Units
  <1>3. journal = {} => e = Current
    BY DEF Entry, Current, Site
  <1>4. \A j \in journal : e = IF j.phase = "recovering" THEN Site(j.base) ELSE Site(j.target)
    <2> SUFFICES ASSUME NEW j \in journal
                 PROVE  e = IF j.phase = "recovering" THEN Site(j.base) ELSE Site(j.target)
      OBVIOUS
    <2> DEFINE k == CHOOSE k \in journal : TRUE
    <2>1. k \in journal
      OBVIOUS
    <2>2. j = k
      BY <2>1 DEF HostOK
    <2>3. e = LET chosen == IF k.phase = "recovering" THEN k.base ELSE k.target
              IN  [api |-> chosen.api, port |-> chosen.port]
      BY DEF Entry
    <2> HIDE DEF k
    <2> QED BY <2>2, <2>3 DEF Site
  <1> HIDE DEF e
  <1>5. Current' = Current
    BY DEF Current
  <1>6. e.port = switchState.port => e = Current
    <2>1. Current.port = switchState.port
      BY DEF Current, Site
    <2>2. ASSUME NEW j \in journal, e.port = switchState.port PROVE e = Current
      <3>1. /\ j.base.port # j.target.port /\ Current \in {Site(j.base), Site(j.target)}
            /\ e \in {Site(j.base), Site(j.target)}
        BY <1>4 DEF ReleaseOK, Journalled
      <3>2. Site(j.base).port = j.base.port /\ Site(j.target).port = j.target.port
        BY DEF Site
      <3> QED BY <2>1, <2>2, <3>1, <3>2
    <2> QED BY <1>3, <2>2
  <1>7. OnlyActive' /\ Journalled'
    BY <1>1, <1>2, <1>5 DEF ReleaseOK, OnlyActive, Journalled
  <1>8. Resolved' /\ OneRuns'
    BY <1>2, <1>5, <1>6 DEF ReleaseOK, Resolved, OneRuns
  <1>9. Advanced'
    BY <1>2, <1>4 DEF ReleaseOK, Advanced
  <1>10. journal = {} /\ Clean => Clean'
    BY <1>2, <1>3, <1>5 DEF Clean
  <1>11. Cleared'
    BY <1>10 DEF ReleaseOK, Cleared, HostOK
  <1>12. \A x : Entering(x) /\ running["active"] \subseteq {x} => running'["active"] \subseteq {x}
    BY <1>2 DEF Entering, e
  <1> QED
    BY <1>1, <1>7, <1>8, <1>9, <1>10, <1>11, <1>12

\* Nothing new runs or is about to.
LEMMA NothingStarts ==
  ASSUME HostOK, ReleaseOK, UNCHANGED <<journal, switchState>>, Routed',
         \A u \in Units : running'[u] \subseteq running[u],
         starting' \subseteq {"active"}, enabled' \subseteq {"active"},
         faults' \in Nat, faults' >= faults, faults' = 0 => starting' = {}
  PROVE  ReleaseOK'
  <1>1. /\ running'["active"] \subseteq running["active"] /\ running'["legacy"] = {}
        /\ Current' = Current
    BY DEF ReleaseOK, OnlyActive, Units, Current
  <1>2. OnlyActive' /\ Resolved' /\ Journalled' /\ Advanced' /\ OneRuns'
    BY <1>1 DEF ReleaseOK, OnlyActive, Resolved, Journalled, Advanced, OneRuns
  <1>3. Cleared' /\ StartsAfterFault'
    BY <1>1 DEF ReleaseOK, Cleared, Clean, StartsAfterFault, HostOK
  <1> QED
    BY <1>2, <1>3 DEF ReleaseOK

\* Faults are counted.
LEMMA FaultsGrow ==
  ASSUME SwitchInv, Fault
  PROVE  faults \in Nat /\ faults' \in Nat /\ faults' = faults + 1 /\ faults' >= faults /\ faults' # 0
  BY FaultsAssumption DEF Fault, SwitchInv, HostOK

LEMMA EnvironmentReleases ==
  ASSUME SwitchInv, ReleaseInv,
         \/ ProxyStep \/ SwitchDies \/ ProxyCrashes \/ HostReboots
         \/ \E u \in Units : SystemdStarts(u) \/ ApiCrashes(u)
  PROVE  ReleaseInv'
  <1>1. /\ ReleaseOK /\ HostOK /\ TypeOK /\ Wire /\ faults \in Nat
        /\ starting \subseteq {"active"} /\ enabled \subseteq {"active"} /\ running["legacy"] = {}
    BY FaultsAssumption DEF ReleaseInv, ReleaseOK, OnlyActive, SwitchInv, HostOK
  <1>2. CASE ProxyStep
    <2>1. UNCHANGED <<journal, switchState, running, starting, enabled, sw, faults>>
      BY <1>2 DEF ProxyStep, switchVars
    <2>2. Routed' /\ Held
      BY <1>1, <1>2, ProxyRoutes, ProxyMoves DEF ReleaseOK
    <2>3. ReleaseOK'
      BY <1>1, <2>1, <2>2, NothingStarts DEF ReleaseOK, StartsAfterFault
    <2>4. ASSUME NEW s \in sw PROVE Guided(s)'
      <3>1. Guided(s)
        BY DEF ReleaseInv
      <3>2. Current' = Current
        BY <2>1 DEF Current
      <3>3. Still => Still'
        BY <2>1, <3>2 DEF Still, Clean
      <3>4. Quiet => Quiet'
        BY <2>2 DEF Held, Quiet
      <3> QED BY <2>1, <3>1, <3>2, <3>3, <3>4, StaysGuided DEF Clean
    <2> QED BY <2>1, <2>3, <2>4 DEF ReleaseInv
  <1>3. CASE SwitchDies
    <2>1. /\ UNCHANGED <<stateFile, process, state, reading, journal, switchState, running, starting, enabled>>
          /\ sw' = {} /\ Fault /\ InFlight' = InFlight /\ upstream' = upstream
      BY <1>3 DEF SwitchDies, proxyVars, linkVars, hostVars, InFlight
    <2>2. Routed'
      BY <1>1, <2>1, RoutedStays DEF ReleaseOK
    <2>3. ReleaseOK'
      BY <1>1, <2>1, <2>2, FaultsGrow, NothingStarts
    <2> QED BY <2>1, <2>3 DEF ReleaseInv
  <1>4. CASE ProxyCrashes \/ HostReboots
    <2>1. /\ UNCHANGED <<journal, switchState, enabled>> /\ Fault /\ Crash /\ sw' \subseteq sw
          /\ \A u \in Units : running'[u] \subseteq running[u]
          /\ starting' \subseteq {"active"}
      BY <1>1, <1>4 DEF ProxyCrashes, HostReboots, linkVars, HostOK
    <2>2. Routed' /\ Held
      BY <1>1, <2>1, CrashRoutes, Crashes DEF ReleaseOK, Held, Crash, Stopped
    <2>3. faults' \in Nat /\ faults' = faults + 1 /\ faults' >= faults /\ faults' # 0
      BY <2>1, FaultsGrow
    <2>4. ReleaseOK'
      BY <1>1, <2>1, <2>2, <2>3, NothingStarts
    <2>5. ASSUME NEW s \in sw PROVE Guided(s)'
      <3>1. Guided(s)
        BY DEF ReleaseInv
      <3>2. Still => Still'
        BY <1>1, <2>3 DEF Still
      <3>3. Quiet => Quiet'
        BY <2>2 DEF Held, Quiet
      <3>4. \A x : Entering(x) /\ running["active"] \subseteq {x} => running'["active"] \subseteq {x}
        BY <2>1 DEF Units
      <3> QED BY <2>1, <2>3, <3>1, <3>2, <3>3, <3>4, StaysGuided
    <2> QED BY <2>1, <2>4, <2>5 DEF ReleaseInv
  <1>5. ASSUME NEW u \in Units, ApiCrashes(u) PROVE ReleaseInv'
    <2>1. /\ UNCHANGED <<proxyVars, journal, switchState, enabled, sw>> /\ Fault
          /\ \A v \in Units : running'[v] \subseteq running[v]
          /\ starting' = starting \union {u} /\ running[u] # {}
      BY <1>1, <1>5 DEF ApiCrashes, linkVars, HostOK
    <2>2. u = "active"
      BY <1>1, <2>1 DEF Units
    <2>3. faults' \in Nat /\ faults' = faults + 1 /\ faults' >= faults /\ faults' # 0
      BY <2>1, FaultsGrow
    <2>4. Routed' /\ Held
      <3>1. UNCHANGED <<stateFile, process, state, reading, upstream>> /\ InFlight' = InFlight
        BY <2>1 DEF proxyVars, InFlight
      <3> QED BY <1>1, <2>1, <3>1, RoutedStays, Resting DEF ReleaseOK
    <2>5. ReleaseOK'
      BY <1>1, <2>1, <2>2, <2>3, <2>4, NothingStarts
    <2>6. ASSUME NEW s \in sw PROVE Guided(s)'
      <3>1. Guided(s)
        BY DEF ReleaseInv
      <3>2. Still => Still'
        BY <1>1, <2>3 DEF Still
      <3>3. Quiet => Quiet'
        BY <2>4 DEF Held, Quiet
      <3>4. \A x : Entering(x) /\ running["active"] \subseteq {x} => running'["active"] \subseteq {x}
        BY <2>1 DEF Units
      <3> QED BY <2>1, <2>3, <3>1, <3>2, <3>3, <3>4, StaysGuided
    <2> QED BY <2>1, <2>5, <2>6 DEF ReleaseInv
  <1>6. ASSUME NEW u \in Units, SystemdStarts(u) PROVE ReleaseInv'
    <2>1. /\ UNCHANGED <<proxyVars, journal, switchState, sw, faults>>
          /\ u \in starting /\ StartUnit(u)
      BY <1>6 DEF SystemdStarts, linkVars
    <2>2. u = "active" /\ faults # 0
      BY <1>1, <2>1 DEF ReleaseOK, StartsAfterFault
    <2>3. /\ OnlyActive' /\ Resolved' /\ Journalled' /\ Advanced' /\ Cleared' /\ OneRuns'
          /\ starting' = {}
          /\ \A x : Entering(x) /\ running["active"] \subseteq {x} => running'["active"] \subseteq {x}
      <3>1. faults' \in Nat /\ faults' >= faults
        BY <1>1, <2>1
      <3> QED BY <1>1, <2>1, <2>2, <3>1, UnitStarts
    <2>4. Routed' /\ Held
      <3>1. UNCHANGED <<stateFile, process, state, reading, upstream>> /\ InFlight' = InFlight
        BY <2>1 DEF proxyVars, InFlight
      <3> QED BY <1>1, <2>1, <3>1, RoutedStays, Resting DEF ReleaseOK
    <2>5. ReleaseOK'
      BY <2>3, <2>4 DEF ReleaseOK, StartsAfterFault
    <2>6. ASSUME NEW s \in sw PROVE Guided(s)'
      <3>1. Guided(s)
        BY DEF ReleaseInv
      <3>2. Still => Still'
        BY <2>1 DEF Still
      <3>3. Quiet => Quiet'
        BY <2>4 DEF Held, Quiet
      <3>4. faults' # 0
        BY <2>1, <2>2
      <3> QED BY <2>1, <2>3, <3>1, <3>2, <3>3, <3>4, StaysGuided
    <2> QED BY <2>1, <2>5, <2>6 DEF ReleaseInv
  <1> QED
    BY <1>2, <1>3, <1>4, <1>5, <1>6

-----------------------------------------------------------------------------
(* The steps of the process *)

LEMMA Opened ==
  ASSUME SwitchInv, ReleaseInv, NEW s \in sw
  PROVE  /\ s \in Process /\ s.todo # <<>> /\ ProcessOK(s)
         /\ Guided(s) /\ Orderly(s) /\ Unmoved(s) /\ ReleaseOK /\ HostOK
         /\ faults \in Nat
  BY DEF SwitchInv, ProcessesOK, ProcessOK, ReleaseInv, Guided, HostOK

\* A step that leaves the files and the units alone but for the proxy's.
LEMMA Unpublished ==
  ASSUME ReleaseOK, Routed', UNCHANGED <<journal, switchState, running, starting, enabled>>,
         faults \in Nat, faults' \in {faults, faults + 1}
  PROVE  ReleaseOK'
  <1>1. Current' = Current
    BY DEF Current
  <1>2. OnlyActive' /\ Resolved' /\ Journalled' /\ Advanced' /\ OneRuns'
    BY <1>1 DEF ReleaseOK, OnlyActive, Resolved, Journalled, Advanced, OneRuns
  <1>3. Cleared' /\ StartsAfterFault'
    BY <1>1 DEF ReleaseOK, Cleared, Clean, StartsAfterFault
  <1> QED
    BY <1>2, <1>3 DEF ReleaseOK

LEMMA SetsProxyReleases ==
  ASSUME SwitchInv, ReleaseInv, NEW s \in sw, SetsProxy(s)
  PROVE  ReleaseInv'
  <1> DEFINE st == Head(s.todo)
             b  == Site(s.state)
  <1>1. /\ s \in Process /\ s.todo # <<>> /\ Guided(s) /\ Orderly(s) /\ Unmoved(s)
        /\ ReleaseOK /\ faults \in Nat
    BY Opened
  <1>2. /\ st.do = "setProxy" /\ sw' = Continue(s)
        /\ UNCHANGED <<process, state, reading, phase, upstream, journal, switchState, running,
                       starting, enabled, faults>>
        /\ stateFile'.mode = st.mode /\ stateFile'.port = st.port
    BY DEF SetsProxy, At, Proceeds, statusVars, requestVars, linkVars, hostVars
  <1>3. st # Recovered
    BY <1>2 DEF Recovered
  <1>4. PICK o : Party(s, o) /\ \E K, C \in SUBSET Facts :
               /\ Sure(s, b, o, K) /\ Admits(b, o, st, K) /\ C \subseteq Outcome(b, o, st, K)
               /\ Plans(ReleaseRules(b, o), Tail(s.todo), C, AtBody)
    BY <1>1, <1>3, HeadGuided
  <1>5. PICK K \in SUBSET Facts, C \in SUBSET Facts :
               /\ Sure(s, b, o, K) /\ Admits(b, o, st, K) /\ C \subseteq Outcome(b, o, st, K)
               /\ Plans(ReleaseRules(b, o), Tail(s.todo), C, AtBody)
    BY <1>4
  <1> HIDE DEF st
  <1>6. st.mode # "hold" => st.port = switchState.port
    <2>1. Current.port = switchState.port
      BY DEF Current, Site
    <2> QED BY <1>2, <1>5, <2>1 DEF Admits, Sure
  <1>7. Routed'
    <2>1. InFlight' = InFlight
      BY <1>2 DEF InFlight
    <2> QED BY <1>1, <1>2, <1>6, <2>1 DEF Routed, ReleaseOK
  <1>8. ReleaseOK'
    BY <1>1, <1>2, <1>7, Unpublished
  <1>9. C \subseteq K /\ "quiet" \notin C
    BY <1>2, <1>5 DEF Outcome, Gains, Loses
  <1>10. Current' = Current /\ (\A x : Entering(x)' <=> Entering(x)) /\ (Clean' <=> Clean)
    BY <1>2 DEF Current, Entering, Entry, Clean
  <1>11. Sure(s, b, o, C)'
    <2> HIDE DEF b
    <2> QED BY <1>2, <1>5, <1>9, <1>10 DEF Sure
  <1>12. Orderly(s)' /\ Unmoved(s)' /\ Party(s, o)'
    BY <1>1, <1>2, <1>4, <1>10 DEF Orderly, Unmoved, Party, Between
  <1>13. Led(s, o, Tail(s.todo), C)'
    BY <1>5, <1>11 DEF Led
  <1>14. \A x \in sw' : Guided(x)'
    BY <1>1, <1>2, <1>12, <1>13, GoesOn
  <1> QED
    BY <1>8, <1>14 DEF ReleaseInv

LEMMA WaitsReleases ==
  ASSUME SwitchInv, ReleaseInv, NEW s \in sw, Waits(s)
  PROVE  ReleaseInv'
  <1> DEFINE st == Head(s.todo)
             b  == Site(s.state)
  <1>1. /\ s \in Process /\ s.todo # <<>> /\ Guided(s) /\ Orderly(s) /\ Unmoved(s)
        /\ ReleaseOK /\ faults \in Nat /\ HostOK
    BY Opened
  <1>2. /\ st.do \in {"waitProxy", "waitIdle", "waitWritersIdle", "waitLock", "waitReady"}
        /\ st.do = "waitReady" => Listening(st.port)
        /\ UNCHANGED <<proxyVars, journal, switchState, running, starting, enabled, faults>>
    BY DEF Waits, At, Proceeds, linkVars, hostVars
  <1>3. st # Recovered
    BY <1>2 DEF Recovered
  <1>4. PICK t : /\ sw' = Continue(t)
                 /\ t \in Process /\ t.todo = s.todo /\ t.state = s.state /\ t.target = s.target
                 /\ t.interrupted = s.interrupted /\ t.pending = s.pending /\ t.marks = s.marks
    <2>1. stateFile \in ProxyState
      BY DEF SwitchInv, TypeOK
    <2>2. [s EXCEPT !.proxy = stateFile] \in Process
      BY <1>1, <2>1 DEF Process
    <2>3. sw' = Continue(s) \/ sw' = Continue([s EXCEPT !.proxy = stateFile])
      BY DEF Waits, Proceeds
    <2>4. CASE sw' = Continue(s)
      BY <1>1, <2>4
    <2>5. CASE sw' = Continue([s EXCEPT !.proxy = stateFile])
      <3> DEFINE t == [s EXCEPT !.proxy = stateFile]
      <3>1. /\ t.todo = s.todo /\ t.state = s.state /\ t.target = s.target
            /\ t.interrupted = s.interrupted /\ t.pending = s.pending /\ t.marks = s.marks
        BY <1>1 DEF Process
      <3>2. t \in Process /\ sw' = Continue(t)
        BY <2>2, <2>5
      <3> HIDE DEF t
      <3> QED BY <3>1, <3>2
    <2> QED BY <2>3, <2>4, <2>5
  <1>5. PICK o : Party(s, o) /\ \E K, C \in SUBSET Facts :
               /\ Sure(s, b, o, K) /\ Admits(b, o, st, K) /\ C \subseteq Outcome(b, o, st, K)
               /\ Plans(ReleaseRules(b, o), Tail(s.todo), C, AtBody)
    BY <1>1, <1>3, HeadGuided
  <1>6. PICK K \in SUBSET Facts, C \in SUBSET Facts :
               /\ Sure(s, b, o, K) /\ Admits(b, o, st, K) /\ C \subseteq Outcome(b, o, st, K)
               /\ Plans(ReleaseRules(b, o), Tail(s.todo), C, AtBody)
    BY <1>5
  <1> HIDE DEF st
  <1>7. Routed' /\ Held /\ InFlight' = InFlight
    <2>1. UNCHANGED <<stateFile, process, state, reading, upstream>> /\ InFlight' = InFlight
      BY <1>2 DEF proxyVars, InFlight
    <2> QED BY <1>1, <1>2, <2>1, RoutedStays, Resting DEF ReleaseOK
  <1>8. ReleaseOK'
    BY <1>1, <1>2, <1>7, Unpublished
  <1>9. /\ C \subseteq K \union {"onlyBase"}
        /\ "onlyBase" \in C => "onlyBase" \in K \/ (st.do = "waitReady" /\ st.port = b.port
                                                     /\ {"atBase", "toBase"} \subseteq K)
    BY <1>2, <1>6 DEF Outcome, Gains, Loses
  <1>10. Current' = Current /\ (\A x : Entering(x)' <=> Entering(x)) /\ (Clean' <=> Clean)
    BY <1>2 DEF Current, Entering, Entry, Clean
  <1>11. "onlyBase" \in C => Entering(b) /\ running["active"] \subseteq {b}
    <2>1. CASE "onlyBase" \in K
      BY <1>6, <2>1 DEF Sure
    <2>2. CASE st.do = "waitReady" /\ st.port = b.port /\ {"atBase", "toBase"} \subseteq K
      <3>1. Current = b /\ Entering(b)
        BY <1>6, <2>2 DEF Sure
      <3>2. PICK u \in Units : \E x \in running[u] : x.port = st.port
        BY <1>2, <2>2 DEF Listening
      <3>3. PICK x \in running["active"] : x.port = b.port
        BY <1>1, <2>2, <3>2 DEF ReleaseOK, OnlyActive, Units
      <3>4. Current.port = switchState.port
        BY DEF Current, Site
      <3>5. x = Current
        BY <1>1, <3>1, <3>3, <3>4 DEF ReleaseOK, Resolved
      <3> QED BY <1>1, <3>1, <3>3, <3>5 DEF ReleaseOK, OneRuns
    <2> QED BY <1>9, <2>1, <2>2
  <1>12. Sure(t, b, o, C)'
    <2>1. /\ Acked /\ InFlight = {} => (Acked /\ InFlight = {})'
      BY <1>7 DEF Held
    <2> HIDE DEF b
    <2> QED BY <1>2, <1>4, <1>6, <1>9, <1>10, <1>11, <2>1 DEF Sure, Calm
  <1>13. Orderly(t)' /\ Unmoved(t)' /\ Party(t, o)'
    BY <1>1, <1>2, <1>4, <1>5, <1>10 DEF Orderly, Unmoved, Calm, Party, Between
  <1>14. Led(t, o, Tail(t.todo), C)'
    BY <1>4, <1>6, <1>12 DEF Led
  <1>15. \A x \in sw' : Guided(x)'
    BY <1>4, <1>13, <1>14, GoesOn
  <1> QED
    BY <1>8, <1>15 DEF ReleaseInv

LEMMA ThrowsReleases ==
  ASSUME SwitchInv, ReleaseInv, NEW s \in sw, TimesOut(s) \/ Throws(s)
  PROVE  ReleaseInv'
  <1> DEFINE st == Head(s.todo)
             b  == Site(s.state)
  <1>1. /\ s \in Process /\ s.todo # <<>> /\ Guided(s) /\ Orderly(s) /\ Unmoved(s)
        /\ ReleaseOK /\ faults \in Nat
    BY Opened
  <1>2. /\ UNCHANGED <<proxyVars, journal, switchState, running, starting, enabled>>
        /\ sw' = Raise(s)
    BY DEF TimesOut, Throws, linkVars, hostVars
  <1>3. Routed'
    <2>1. UNCHANGED <<stateFile, process, state, reading, upstream>> /\ InFlight' = InFlight
      BY <1>2 DEF proxyVars, InFlight
    <2> QED BY <1>1, <1>2, <2>1, RoutedStays DEF ReleaseOK
  <1>4. Current' = Current /\ (Clean' <=> Clean)
    BY <1>2 DEF Current, Clean
  <1>5. Orderly(s)'
    BY <1>1, <1>2, <1>4 DEF Orderly
  <1>6. faults' \in {faults, faults + 1}
    BY DEF TimesOut, Throws, Fault
  <1>7. ReleaseOK'
    BY <1>1, <1>2, <1>3, <1>6, Unpublished
  <1>8. CASE Throws(s)
    <2>1. faults' = faults + 1
      BY <1>8 DEF Throws, Fault
    <2>2. Undisturbed(s)
      BY <1>1, <1>2, <1>4 DEF Undisturbed, Unmoved
    <2>3. PICK o : Party(s, o)
      BY <1>1 DEF Guided
    <2>4. Party(s, o)'
      BY <1>2, <1>4, <2>3 DEF Party, Between
    <2>5. \A x \in sw' : Guided(x)'
      BY <1>1, <1>2, <1>5, <2>1, <2>2, <2>4, RaisesGuided
    <2> QED BY <1>7, <2>5 DEF ReleaseInv
  <1>9. CASE TimesOut(s)
    <2>1. st.do \in {"waitLock", "waitReady", "waitProxy"}
      BY <1>9 DEF TimesOut, Hopeless, Ignores, At
    <2>2. st # Recovered
      BY <2>1 DEF Recovered
    <2>3. PICK o : Party(s, o) /\ \E K, C \in SUBSET Facts :
                 /\ Sure(s, b, o, K) /\ Admits(b, o, st, K) /\ C \subseteq Outcome(b, o, st, K)
                 /\ Plans(ReleaseRules(b, o), Tail(s.todo), C, AtBody)
      BY <1>1, <2>2, HeadGuided
    <2> HIDE DEF st
    <2>4. journal = {} \/ Calm(s)
      BY <2>1, <2>3 DEF Admits, Sure
    <2>5. Party(s, o)'
      BY <1>2, <1>4, <2>3 DEF Party, Between
    <2>6. \A x \in sw' : Guided(x)'
      BY <1>1, <1>2, <1>5, <2>4, <2>5, RaisesGuided
    <2> QED BY <1>7, <2>6 DEF ReleaseInv
  <1> QED
    BY <1>8, <1>9

LEMMA ControlsReleases ==
  ASSUME SwitchInv, ReleaseInv, NEW s \in sw, ControlsUnit(s)
  PROVE  ReleaseInv'
  <1> DEFINE st == Head(s.todo)
             b  == Site(s.state)
  <1>1. /\ s \in Process /\ s.todo # <<>> /\ ProcessOK(s) /\ Guided(s) /\ Orderly(s) /\ Unmoved(s)
        /\ ReleaseOK /\ faults \in Nat /\ HostOK
    BY Opened
  <1>2. /\ UNCHANGED <<proxyVars, journal, switchState>> /\ Returns(s, s)
        /\ st.do \in {"stop", "start", "enable", "disable"}
    BY DEF ControlsUnit, At, linkVars
  <1>3. st # Recovered
    BY <1>2 DEF Recovered
  <1>4. PICK o : Party(s, o) /\ \E K, C \in SUBSET Facts :
               /\ Sure(s, b, o, K) /\ Admits(b, o, st, K) /\ C \subseteq Outcome(b, o, st, K)
               /\ Plans(ReleaseRules(b, o), Tail(s.todo), C, AtBody)
    BY <1>1, <1>3, HeadGuided
  <1>5. PICK K \in SUBSET Facts, C \in SUBSET Facts :
               /\ Sure(s, b, o, K) /\ Admits(b, o, st, K) /\ C \subseteq Outcome(b, o, st, K)
               /\ Plans(ReleaseRules(b, o), Tail(s.todo), C, AtBody)
    BY <1>4
  <1>6. st.do = "stop" => Quiet
    BY <1>1, <1>3, HeadTaken DEF Takes, Allowed, Known, Quiet
  <1>7. /\ st.do = "stop" => StopUnit(st.unit)
        /\ st.do = "start" => StartUnit(st.unit)
        /\ st.do = "enable" => enabled' = enabled \union {st.unit} /\ UNCHANGED <<running, starting>>
    BY DEF ControlsUnit, At
  <1> HIDE DEF st
  <1>8. st.do \in {"stop", "start", "enable"} /\ st.unit = "active"
    BY <1>2, <1>5 DEF Admits
  <1>9. faults' \in {faults, faults + 1}
    BY <1>2 DEF Returns, Fault
  <1>10. Routed' /\ Held
    <2>1. UNCHANGED <<stateFile, process, state, reading, upstream>> /\ InFlight' = InFlight
      BY <1>2 DEF proxyVars, InFlight
    <2> QED BY <1>1, <1>2, <2>1, RoutedStays, Resting DEF ReleaseOK
  <1>11. Current' = Current /\ (\A x : Entering(x)' <=> Entering(x))
    BY <1>2 DEF Current, Entering, Entry
  <1>12. Orderly(s)' /\ Party(s, o)'
    BY <1>1, <1>2, <1>4, <1>11 DEF Orderly, Party, Between
  <1>13. Calm(s) \/ journal = {}
    BY <1>5, <1>8 DEF Admits, Sure
  <1>14. Quiet => Quiet'
    BY <1>10 DEF Held, Quiet
  <1>15. CASE st.do = "stop"
    <2>1. /\ running'["active"] = {} /\ running'["legacy"] = running["legacy"]
          /\ starting' = {} /\ enabled' = enabled
      BY <1>1, <1>7, <1>8, <1>15 DEF StopUnit, ReleaseOK, OnlyActive, HostOK, Units
    <2>2. ReleaseOK'
      <3>1. \A u \in Units : running'[u] \subseteq running[u]
        BY <2>1 DEF Units
      <3>2. faults' \in Nat /\ faults' >= faults
        BY <1>1, <1>9
      <3>3. starting' \subseteq {"active"} /\ enabled' \subseteq {"active"}
        BY <1>1, <2>1 DEF ReleaseOK, OnlyActive
      <3> QED BY <1>1, <1>2, <1>10, <2>1, <3>1, <3>2, <3>3, NothingStarts
    <2>3. Clean' /\ Undisturbed(s)
      BY <2>1 DEF Clean, Undisturbed
    <2>4. /\ C \subseteq K \union {"quiet", "onlyBase", "onlyOther"}
          /\ "onlyBase" \in C => "onlyBase" \in K \/ "toBase" \in K
          /\ "onlyOther" \in C => "onlyOther" \in K \/ "toOther" \in K
      BY <1>5, <1>15 DEF Outcome, Gains
    <2>5. "onlyBase" \in K \/ "toBase" \in K => Entering(b)
      BY <1>5 DEF Sure
    <2>6. "onlyOther" \in K \/ "toOther" \in K => Entering(o)
      BY <1>5 DEF Sure
    <2>7. faults' = faults => Sure(s, b, o, C)'
      <3> SUFFICES ASSUME faults' = faults PROVE Sure(s, b, o, C)'
        OBVIOUS
      <3> HIDE DEF b
      <3>1. Quiet'
        BY <1>6, <1>14, <1>15
      <3> QED BY <1>2, <1>5, <1>11, <2>1, <2>3, <2>4, <2>5, <2>6, <3>1 DEF Sure, Quiet
    <2>8. faults' = faults => Led(s, o, Tail(s.todo), C)'
      BY <1>5, <2>7 DEF Led
    <2>9. \A x \in sw' : Guided(x)'
      BY <1>1, <1>2, <1>12, <2>3, <2>8, ReturnsGuided
    <2> QED BY <2>2, <2>9 DEF ReleaseInv
  <1>16. CASE st.do = "start"
    <2>1. /\ OnlyActive' /\ Resolved' /\ Journalled' /\ Advanced' /\ Cleared' /\ OneRuns'
          /\ starting' = {}
          /\ \A x : Entering(x) /\ running["active"] \subseteq {x} => running'["active"] \subseteq {x}
      <3>1. faults' \in Nat /\ faults' >= faults
        BY <1>1, <1>9
      <3> QED BY <1>1, <1>2, <1>7, <1>8, <1>16, <3>1, UnitStarts
    <2>2. ReleaseOK'
      BY <1>10, <2>1 DEF ReleaseOK, StartsAfterFault
    <2>3. Undisturbed(s)
      BY <1>2, <1>13 DEF Undisturbed
    <2>4. C \subseteq K /\ "still" \notin C
      BY <1>5, <1>16 DEF Outcome, Gains, Loses
    <2>5. Sure(s, b, o, C)'
      <3> HIDE DEF b
      <3> QED BY <1>2, <1>5, <1>11, <1>14, <2>1, <2>4 DEF Sure, Quiet
    <2>6. Led(s, o, Tail(s.todo), C)'
      BY <1>5, <2>5 DEF Led
    <2>7. \A x \in sw' : Guided(x)'
      BY <1>1, <1>2, <1>12, <2>3, <2>6, ReturnsGuided
    <2> QED BY <2>2, <2>7 DEF ReleaseInv
  <1>17. CASE st.do = "enable"
    <2>1. enabled' \subseteq {"active"} /\ UNCHANGED <<running, starting>>
      BY <1>1, <1>7, <1>8, <1>17 DEF ReleaseOK, OnlyActive
    <2>2. ReleaseOK'
      <3>1. \A u \in Units : running'[u] \subseteq running[u]
        BY <2>1
      <3>2. faults' \in Nat /\ faults' >= faults /\ (faults' = 0 => faults = 0)
        BY <1>1, <1>9
      <3>3. starting' \subseteq {"active"} /\ (faults' = 0 => starting' = {})
        BY <1>1, <2>1, <3>2 DEF ReleaseOK, OnlyActive, StartsAfterFault
      <3> QED BY <1>1, <1>2, <1>10, <2>1, <3>1, <3>2, <3>3, NothingStarts
    <2>3. Undisturbed(s)
      BY <1>2, <1>13 DEF Undisturbed
    <2>4. C \subseteq K
      BY <1>5, <1>17 DEF Outcome, Gains
    <2>5. faults' = faults => Sure(s, b, o, C)'
      <3> HIDE DEF b
      <3> QED BY <1>2, <1>5, <1>11, <1>14, <2>1, <2>4 DEF Sure, Quiet, Clean
    <2>6. faults' = faults => Led(s, o, Tail(s.todo), C)'
      BY <1>5, <2>5 DEF Led
    <2>7. \A x \in sw' : Guided(x)'
      BY <1>1, <1>2, <1>12, <2>3, <2>6, ReturnsGuided
    <2> QED BY <2>2, <2>7 DEF ReleaseInv
  <1> QED
    BY <1>8, <1>15, <1>16, <1>17

\* The journal names the two places of the run.
LEMMA WritesReleases ==
  ASSUME SwitchInv, ReleaseInv, NEW s \in sw, WritesJournal(s)
  PROVE  ReleaseInv'
  <1> DEFINE st == Head(s.todo)
             b  == Site(s.state)
  <1>1. /\ s \in Process /\ s.todo # <<>> /\ ProcessOK(s) /\ Guided(s) /\ Orderly(s) /\ Unmoved(s)
        /\ ReleaseOK /\ faults \in Nat /\ HostOK
    BY Opened
  <1>2. /\ UNCHANGED <<proxyVars, switchState, running, starting, enabled>>
        /\ st.do \in {"journal", "clear"}
    BY DEF WritesJournal, At, linkVars, hostVars
  <1>3. st # Recovered
    BY <1>2 DEF Recovered
  <1>4. PICK o : Party(s, o) /\ \E K, C \in SUBSET Facts :
               /\ Sure(s, b, o, K) /\ Admits(b, o, st, K) /\ C \subseteq Outcome(b, o, st, K)
               /\ Plans(ReleaseRules(b, o), Tail(s.todo), C, AtBody)
    BY <1>1, <1>3, HeadGuided
  <1>5. PICK K \in SUBSET Facts, C \in SUBSET Facts :
               /\ Sure(s, b, o, K) /\ Admits(b, o, st, K) /\ C \subseteq Outcome(b, o, st, K)
               /\ Plans(ReleaseRules(b, o), Tail(s.todo), C, AtBody)
    BY <1>4
  <1>6. /\ st.do = "clear" => journal' = {} /\ Proceeds(s)
        /\ st.do = "journal" =>
              IF "recovered" \in s.marks
              THEN /\ journal' = {[phase |-> st.phase, base |-> s.state, target |-> s.target]}
                   /\ Returns(s, [s EXCEPT !.pending = TRUE])
              ELSE journal' = s.interrupted /\ Returns(s, s)
    BY DEF WritesJournal, At
  <1> HIDE DEF st
  <1>7. Routed' /\ Held
    <2>1. UNCHANGED <<stateFile, process, state, reading, upstream>> /\ InFlight' = InFlight
      BY <1>2 DEF proxyVars, InFlight
    <2> QED BY <1>1, <1>2, <2>1, RoutedStays, Resting DEF ReleaseOK
  <1>8. Quiet => Quiet'
    BY <1>7 DEF Held, Quiet
  <1>9. Current' = Current /\ (Clean' <=> Clean)
    BY <1>2 DEF Current, Clean
  <1>10. Calm(s) \/ journal = {}
    BY <1>2, <1>5 DEF Admits, Sure
  <1>11. faults' \in {faults, faults + 1}
    BY <1>2, <1>6 DEF Returns, Proceeds, Fault
  <1>12. OnlyActive' /\ Resolved' /\ OneRuns' /\ StartsAfterFault'
    BY <1>1, <1>2, <1>9, <1>11 DEF ReleaseOK, OnlyActive, Resolved, OneRuns, StartsAfterFault
  <1>13. journal = {} => (faults = 0 => starting' = {} /\ Clean')
    BY <1>1, <1>2, <1>9 DEF ReleaseOK, Cleared, StartsAfterFault
  <1>14. Undisturbed(s)
    BY <1>10, <1>13 DEF Undisturbed
  <1>15. CASE st.do = "clear"
    <2>1. journal' = {} /\ sw' = Continue(s) /\ faults' = faults
      BY <1>6, <1>15 DEF Proceeds
    <2>2. faults <= 1 => Clean
      <3>1. \/ "none" \in K \/ "still" \in K
            \/ {"atBase", "onlyBase"} \subseteq K \/ {"atOther", "onlyOther"} \subseteq K
        BY <1>5, <1>15 DEF Admits
      <3> QED BY <1>1, <1>5, <3>1 DEF Sure, ReleaseOK, Cleared, Clean
    <2>3. ReleaseOK'
      BY <1>7, <1>9, <1>12, <2>1, <2>2 DEF ReleaseOK, Journalled, Advanced, Cleared
    <2>4. C \subseteq (K \ {"toBase", "onlyBase", "toOther", "onlyOther"}) \union {"none"}
      BY <1>5, <1>15 DEF Outcome, Gains, Loses
    <2>5. Sure(s, b, o, C)'
      <3> HIDE DEF b
      <3> QED BY <1>2, <1>5, <1>8, <1>9, <2>1, <2>4 DEF Sure, Quiet
    <2>6. Led(s, o, Tail(s.todo), C)'
      BY <1>5, <2>5 DEF Led
    <2>7. Orderly(s)' /\ Unmoved(s)' /\ Party(s, o)'
      BY <1>1, <1>4, <1>9, <2>1 DEF Orderly, Unmoved, Party, Between
    <2>8. \A x \in sw' : Guided(x)'
      BY <1>1, <2>1, <2>6, <2>7, GoesOn
    <2> QED BY <2>3, <2>8 DEF ReleaseInv
  <1>16. CASE st.do = "journal" /\ "recovered" \in s.marks
    <2> DEFINE t == [s EXCEPT !.pending = TRUE]
               j == [phase |-> st.phase, base |-> s.state, target |-> s.target]
    <2>1. journal' = {j} /\ Returns(s, t)
      BY <1>6, <1>16
    <2>2. j.phase = st.phase /\ j.base = s.state /\ j.target = s.target
      OBVIOUS
    <2>3. /\ t \in Process /\ t.todo = s.todo /\ t.state = s.state /\ t.target = s.target
          /\ t.interrupted = s.interrupted /\ t.pending = TRUE /\ t.marks = s.marks
          /\ t \in {s, [s EXCEPT !.pending = TRUE]}
      BY <1>1 DEF Process
    <2> HIDE DEF t, j
    <2>4. /\ o = Site(s.target) /\ b.port # o.port /\ s.state.port # s.target.port
          /\ st.phase \in {"publishing", "published"} => "onlyOther" \in K
      BY <1>4, <1>5, <1>16 DEF Admits, Party, Site
    <2>5. /\ Journalled' /\ Between(b, o)'
      <3>1. Current \in {b, o}
        BY <1>4 DEF Party, Between
      <3> QED BY <1>1, <1>9, <2>1, <2>2, <2>4, <3>1 DEF Journalled, Between, Orderly
    <2>6. Advanced' /\ Cleared'
      <3>1. "onlyOther" \in K => running["active"] \subseteq {o}
        BY <1>5 DEF Sure
      <3>2. Site(j.target) = o
        BY <2>2, <2>4
      <3> QED BY <1>2, <2>1, <2>2, <2>4, <3>1, <3>2 DEF Advanced, Cleared
    <2>7. ReleaseOK'
      BY <1>7, <1>12, <2>5, <2>6 DEF ReleaseOK
    <2>8. Entry("active")' = IF st.phase = "recovering" THEN b ELSE o
      <3>1. (CHOOSE k \in journal : TRUE)' = j
        BY <2>1
      <3> QED BY <2>1, <2>2, <2>4, <3>1 DEF Entry, Site
    <2>9. Entering(IF st.phase = "recovering" THEN b ELSE o)'
      BY <2>1, <2>8 DEF Entering
    <2>10. /\ st.phase = "recovering" =>
                C \subseteq (K \ {"toOther", "onlyOther", "none"}) \union {"toBase"}
           /\ st.phase # "recovering" =>
                C \subseteq (K \ {"toBase", "onlyBase", "none"}) \union {"toOther", "pending"}
      BY <1>5, <1>16 DEF Outcome, Gains, Loses
    <2>11. faults' = faults => Sure(t, b, o, C)'
      <3> SUFFICES ASSUME faults' = faults PROVE Sure(t, b, o, C)'
        OBVIOUS
      <3> HIDE DEF b
      <3>1. CASE st.phase = "recovering"
        <4>1. C \subseteq (K \ {"toOther", "onlyOther", "none"}) \union {"toBase"} /\ Entering(b)'
          BY <2>9, <2>10, <3>1
        <4> QED BY <1>2, <1>5, <1>8, <1>9, <2>3, <4>1 DEF Sure, Quiet, Calm
      <3>2. CASE st.phase # "recovering"
        <4>1. C \subseteq (K \ {"toBase", "onlyBase", "none"}) \union {"toOther", "pending"} /\ Entering(o)'
          BY <2>9, <2>10, <3>2
        <4> QED BY <1>2, <1>5, <1>8, <1>9, <2>3, <4>1 DEF Sure, Quiet, Calm
      <3> QED BY <3>1, <3>2
    <2>12. faults' = faults => Led(t, o, Tail(s.todo), C)'
      BY <1>5, <2>3, <2>11 DEF Led
    <2>13. Orderly(s)' /\ Orderly(t)' /\ Party(s, o)'
      BY <1>1, <1>4, <1>9, <1>16, <2>3, <2>4, <2>5 DEF Orderly, Party
    <2>14. \A x \in sw' : Guided(x)'
      BY <1>1, <1>14, <2>1, <2>3, <2>12, <2>13, ReturnsGuided
    <2> QED BY <2>7, <2>14 DEF ReleaseInv
  <1>17. CASE st.do = "journal" /\ "recovered" \notin s.marks
    <2>1. journal' = s.interrupted /\ Returns(s, s)
      BY <1>6, <1>17
    <2>2. b.port # o.port /\ st.phase = "recovering" /\ "torn" \in K
      BY <1>5, <1>17 DEF Admits, Sure
    <2>3. PICK j : /\ s.interrupted = {j} /\ j.phase = "recovering"
                   /\ j.base.unit = "active" /\ j.target.unit = "active"
                   /\ Site(j.base) = b /\ Site(j.target) = o
      BY <1>5, <2>2 DEF Sure
    <2> HIDE DEF b
    <2>4. j.base.port # j.target.port
      <3>1. b.port = j.base.port /\ o.port = j.target.port
        BY <2>3 DEF Site
      <3> QED BY <2>2, <3>1
    <2>5. Between(b, o)
      BY <1>4 DEF Party, b
    <2>6. Between(b, o)' /\ Journalled'
      BY <1>9, <2>1, <2>3, <2>4, <2>5 DEF Journalled, Between
    <2>7. Advanced' /\ Cleared'
      BY <2>1, <2>3 DEF Advanced, Cleared
    <2>8. ReleaseOK'
      BY <1>7, <1>12, <2>6, <2>7 DEF ReleaseOK
    <2>9. Entering(b)'
      <3>1. (CHOOSE k \in journal : TRUE)' = j
        BY <2>1, <2>3
      <3>2. Entry("active")' = b
        BY <2>1, <2>3, <3>1 DEF Entry, Site
      <3> QED BY <2>1, <2>3, <3>2 DEF Entering
    <2>10. C \subseteq (K \ {"toOther", "onlyOther", "none"}) \union {"toBase"}
      BY <1>5, <1>17, <2>2 DEF Outcome, Gains, Loses
    <2>11. faults' = faults => Sure(s, b, o, C)'
      BY <1>2, <1>5, <1>8, <1>9, <2>9, <2>10 DEF Sure, Quiet
    <2>12. faults' = faults => Led(s, o, Tail(s.todo), C)'
      BY <1>5, <2>11 DEF Led, b
    <2>13. Orderly(s)' /\ Party(s, o)'
      <3>1. s.interrupted # {}
        BY <2>3
      <3> QED BY <1>1, <1>4, <1>9, <1>17, <2>6, <3>1 DEF Orderly, Party, b
    <2>14. \A x \in sw' : Guided(x)'
      BY <1>1, <1>14, <2>1, <2>12, <2>13, ReturnsGuided
    <2> QED BY <2>8, <2>14 DEF ReleaseInv
  <1> QED
    BY <1>2, <1>15, <1>16, <1>17

\* Another release is published only where it alone runs, behind an idle proxy.
LEMMA PublishesReleases ==
  ASSUME SwitchInv, ReleaseInv, NEW s \in sw, PublishesLinks(s)
  PROVE  ReleaseInv'
  <1> DEFINE st == Head(s.todo)
             b  == Site(s.state)
  <1>1. /\ s \in Process /\ s.todo # <<>> /\ ProcessOK(s) /\ Guided(s) /\ Orderly(s) /\ Unmoved(s)
        /\ ReleaseOK /\ faults \in Nat /\ HostOK /\ TypeOK
    BY Opened DEF SwitchInv
  <1>2. /\ UNCHANGED <<proxyVars, journal, running, starting, enabled>>
        /\ st.do \in {"webLink", "apiLink", "switchState"}
        /\ st.do # "switchState" => switchState' = switchState /\ Proceeds(s)
        /\ st.do = "switchState" => switchState' = st.to
        /\ Returns(s, s)
    BY DEF PublishesLinks, At, Returns, Proceeds, hostVars
  <1>3. st # Recovered
    BY <1>2 DEF Recovered
  <1>4. PICK o : Party(s, o) /\ \E K, C \in SUBSET Facts :
               /\ Sure(s, b, o, K) /\ Admits(b, o, st, K) /\ C \subseteq Outcome(b, o, st, K)
               /\ Plans(ReleaseRules(b, o), Tail(s.todo), C, AtBody)
    BY <1>1, <1>3, HeadGuided
  <1>5. PICK K \in SUBSET Facts, C \in SUBSET Facts :
               /\ Sure(s, b, o, K) /\ Admits(b, o, st, K) /\ C \subseteq Outcome(b, o, st, K)
               /\ Plans(ReleaseRules(b, o), Tail(s.todo), C, AtBody)
    BY <1>4
  <1> HIDE DEF st
  <1>6. /\ UNCHANGED <<stateFile, process, state, reading, upstream>> /\ InFlight' = InFlight
        /\ Held
    BY <1>2, Resting DEF proxyVars, InFlight
  <1>7. Quiet => Quiet'
    BY <1>6 DEF Held, Quiet
  <1>8. faults' \in {faults, faults + 1}
    BY <1>2 DEF Returns, Fault
  <1>9. Calm(s) \/ journal = {}
    BY <1>2, <1>5 DEF Admits, Sure
  <1>10. Undisturbed(s)
    BY <1>2, <1>9 DEF Undisturbed
  <1>11. \A x : Entering(x)' <=> Entering(x)
    BY <1>2 DEF Entering, Entry
  <1>12. Current.port = switchState.port /\ (Current.port = switchState.port)'
    BY DEF Current, Site
  <1>13. b.port = s.state.port
    BY DEF Site
  \* What is published is the same place, or the place that alone runs.
  <1>14. \/ /\ Current' = Current /\ switchState'.unit = "active"
            /\ C \subseteq K \union {"atBase", "atOther"}
            /\ "atBase" \in C => "atBase" \in K \/ Current = b
            /\ "atOther" \in C => "atOther" \in K \/ Current = o
         \/ /\ Current' \in {b, o} /\ switchState'.unit = "active"
            /\ Entering(Current') /\ running["active"] \subseteq {Current'} /\ Quiet
            /\ C \ {"atBase", "atOther"} \subseteq K /\ "still" \notin C
            /\ "atBase" \in C => Current' = b
            /\ "atOther" \in C => Current' = o
            /\ "newStart" \notin s.marks => Current' = b
    <2>1. CASE st.do # "switchState"
      <3>1. Current' = Current /\ switchState'.unit = "active"
        BY <1>1, <1>2, <2>1 DEF Current, ReleaseOK, OnlyActive
      <3>2. C \subseteq K
        BY <1>2, <1>5, <2>1 DEF Outcome, Gains
      <3> QED BY <3>1, <3>2
    <2>2. CASE st.do = "switchState" /\ Site(st.to) = b /\ "atBase" \in K
      <3>1. Current' = b /\ Current = b /\ switchState'.unit = "active"
        BY <1>2, <1>5, <2>2 DEF Current, Admits, Sure
      <3>2. /\ C \subseteq K \union {"atBase", "atOther"}
            /\ "atOther" \in C => "atOther" \in K \/ b = o
        BY <1>5, <2>2 DEF Outcome, Gains
      <3> QED BY <3>1, <3>2
    <2>3. CASE st.do = "switchState" /\ ~(Site(st.to) = b /\ "atBase" \in K)
      <3>1. Current' = Site(st.to) /\ switchState'.unit = "active"
        BY <1>2, <1>5, <2>3 DEF Current, Admits
      <3>2. /\ C \ {"atBase", "atOther"} \subseteq K /\ "still" \notin C
            /\ "atBase" \in C => Site(st.to) = b
            /\ "atOther" \in C => Site(st.to) = o
        BY <1>5, <2>3 DEF Outcome, Gains, Loses
      <3>3. \/ Site(st.to) = b /\ {"onlyBase", "quiet"} \subseteq K
            \/ Site(st.to) = o /\ {"onlyOther", "quiet", "started"} \subseteq K
        BY <1>5, <2>3 DEF Admits
      <3>4. /\ Site(st.to) \in {b, o} /\ Quiet
            /\ Entering(Site(st.to)) /\ running["active"] \subseteq {Site(st.to)}
            /\ "newStart" \notin s.marks => Site(st.to) = b
        BY <1>5, <3>3 DEF Sure, Quiet
      <3> QED BY <3>1, <3>2, <3>4
    <2> QED BY <2>1, <2>2, <2>3
  <1>15. /\ Current' \in {b, o} /\ switchState'.unit = "active"
         /\ "atBase" \in C => Current' = b
         /\ "atOther" \in C => Current' = o
         /\ C \ {"atBase", "atOther"} \subseteq K
         /\ "still" \in C => Current' = Current
         /\ "recovered" \in s.marks /\ "newStart" \notin s.marks => Current' = b
    <2>1. Current \in {b, o}
      BY <1>4 DEF Party, Between
    <2>2. "recovered" \in s.marks /\ "newStart" \notin s.marks => Current = b
      BY <1>1 DEF Orderly
    <2>3. ("atBase" \in K => Current = b) /\ ("atOther" \in K => Current = o)
      BY <1>5 DEF Sure
    <2> HIDE DEF b
    <2> QED BY <1>14, <2>1, <2>2, <2>3
  <1>16. Routed'
    <2>1. CASE Current' = Current
      BY <1>1, <1>6, <1>12, <2>1 DEF ReleaseOK, Routed
    <2>2. CASE Quiet
      <3>1. \A v \in reading : v.mode # "hold" => ~(v.generation > state.generation)
        <4>1. \A v \in reading : v.generation \in Nat /\ state.generation \in Nat
          BY <1>1 DEF TypeOK, ProxyState
        <4> QED BY <2>2, <4>1 DEF Quiet, Acked
      <3> QED BY <1>6, <2>2, <3>1 DEF Quiet, Acked, Routed
    <2> QED BY <1>14, <2>1, <2>2
  <1>17. Resolved' /\ Cleared'
    <2>1. CASE Current' = Current
      BY <1>1, <1>2, <1>8, <1>12, <2>1 DEF ReleaseOK, Resolved, Cleared, Clean
    <2>2. CASE Entering(Current') /\ running["active"] \subseteq {Current'}
      BY <1>2, <2>2 DEF Resolved, Cleared, Entering
    <2> QED BY <1>14, <2>1, <2>2
  <1>18. Party(s, o)' /\ Journalled'
    <2>1. \A j \in journal : {b, o} \subseteq {Site(j.base), Site(j.target)}
      BY <1>4 DEF Party, Between
    <2> HIDE DEF b
    <2>2. Journalled'
      BY <1>1, <1>2, <1>15, <2>1 DEF ReleaseOK, Journalled
    <2>3. Between(b, o)'
      BY <1>2, <1>15, <2>1 DEF Between
    <2> QED BY <1>4, <2>2, <2>3 DEF Party, b
  <1>19. ReleaseOK'
    <2>1. OnlyActive' /\ Advanced' /\ OneRuns' /\ StartsAfterFault'
      BY <1>1, <1>2, <1>8, <1>15 DEF ReleaseOK, OnlyActive, Advanced, OneRuns, StartsAfterFault
    <2> QED BY <1>16, <1>17, <1>18, <2>1 DEF ReleaseOK
  <1>20. Orderly(s)'
    BY <1>1, <1>2, <1>15 DEF Orderly
  <1>21. faults' = faults => Sure(s, b, o, C)'
    <2> HIDE DEF b
    <2> QED BY <1>2, <1>5, <1>7, <1>11, <1>15 DEF Sure, Quiet, Clean
  <1>22. faults' = faults => Led(s, o, Tail(s.todo), C)'
    BY <1>5, <1>21 DEF Led
  <1>23. \A x \in sw' : Guided(x)'
    BY <1>1, <1>2, <1>10, <1>18, <1>20, <1>22, ReturnsGuided
  <1> QED
    BY <1>19, <1>23 DEF ReleaseInv

\* A mark changes nothing but what the catch block will do; after "recovered" the body of
\* the command is planned.
LEMMA MarksReleases ==
  ASSUME SwitchInv, ReleaseInv, NEW s \in sw, Marks(s)
  PROVE  ReleaseInv'
  <1> DEFINE st   == Head(s.todo)
             b    == Site(s.state)
             flag == st.flag
             plan == s.todo \o When(flag = "recovered", SwitchTo(s.state, s.target))
             t    == [s EXCEPT !.marks = @ \union {flag}, !.todo = plan]
  <1>1. /\ s \in Process /\ s.todo # <<>> /\ Guided(s) /\ Orderly(s) /\ Unmoved(s)
        /\ ReleaseOK /\ faults \in Nat
    BY Opened
  <1>2. /\ UNCHANGED <<proxyVars, journal, switchState, running, starting, enabled, faults>>
        /\ st.do = "mark" /\ sw' = Continue(t)
    BY DEF Marks, At, Proceeds, linkVars, hostVars
  <1>3. Routed' /\ InFlight' = InFlight /\ Held
    <2>1. UNCHANGED <<stateFile, process, state, reading, upstream>> /\ InFlight' = InFlight
      BY <1>2 DEF proxyVars, InFlight
    <2> QED BY <1>1, <1>2, <2>1, RoutedStays, Resting DEF ReleaseOK
  <1>4. ReleaseOK'
    BY <1>1, <1>2, <1>3, Unpublished
  <1>5. Current' = Current /\ (\A x : Entering(x)' <=> Entering(x)) /\ (Clean' <=> Clean)
    BY <1>2 DEF Current, Entering, Entry, Clean
  <1>6. CASE st # Recovered
    <2>1. PICK o : Party(s, o) /\ \E K, C \in SUBSET Facts :
                 /\ Sure(s, b, o, K) /\ Admits(b, o, st, K) /\ C \subseteq Outcome(b, o, st, K)
                 /\ Plans(ReleaseRules(b, o), Tail(s.todo), C, AtBody)
      BY <1>1, <1>6, HeadGuided
    <2>2. PICK K \in SUBSET Facts, C \in SUBSET Facts :
                 /\ Sure(s, b, o, K) /\ Admits(b, o, st, K) /\ C \subseteq Outcome(b, o, st, K)
                 /\ Plans(ReleaseRules(b, o), Tail(s.todo), C, AtBody)
      BY <2>1
    <2>3. flag \in Flags /\ flag # "recovered"
      BY <1>1, <1>2, <1>6, HeadGuided, StepTypes DEF Flags
    <2>4. plan = s.todo
      <3>1. s.todo \in Seq(Steps \union {Recovered})
        BY <1>1 DEF Process
      <3>2. When(flag = "recovered", SwitchTo(s.state, s.target)) = <<>>
        BY <2>3 DEF When
      <3> QED BY <3>1, <3>2, ConcatEmptySeq
    <2>5. /\ "recovered" \in s.marks
          /\ flag = "oldStop" => s.pending
          /\ flag = "newStart" => "oldStop" \in s.marks
      BY <1>2, <2>2 DEF Admits, Sure
    <2>6. C \subseteq K \union (IF flag = "oldStop" THEN {"old", "calm"} ELSE {})
                        \union (IF flag = "newStart" THEN {"started"} ELSE {})
      BY <1>2, <2>2 DEF Outcome, Gains
    <2> HIDE DEF plan, flag
    <2>7. /\ t \in Process /\ t.todo = s.todo /\ t.state = s.state /\ t.target = s.target
          /\ t.interrupted = s.interrupted /\ t.pending = s.pending
          /\ t.marks = s.marks \union {flag}
      BY <1>1, <2>3, <2>4 DEF Process
    <2> HIDE DEF t
    <2>8. Calm(s) => Calm(t)
      BY <2>5, <2>7 DEF Calm
    <2>9. flag = "oldStop" => Calm(t)
      BY <2>7 DEF Calm
    <2>10. Orderly(t)'
      BY <1>1, <1>2, <1>5, <2>5, <2>7 DEF Orderly
    <2>11. Unmoved(t)'
      BY <1>1, <1>2, <1>5, <2>8 DEF Unmoved, Calm
    <2>12. Party(t, o)'
      BY <1>2, <1>5, <2>1, <2>5, <2>7 DEF Party, Between
    <2>13. Sure(t, b, o, C)'
      <3> HIDE DEF b
      <3>1. ("quiet" \in K => (Acked /\ InFlight = {})') /\ ("calm" \in K => Calm(t))
        BY <1>3, <2>2, <2>8 DEF Sure, Held
      <3> QED BY <1>2, <1>5, <2>2, <2>6, <2>7, <2>9, <3>1 DEF Sure, Calm
    <2>14. Led(t, o, Tail(t.todo), C)'
      BY <2>2, <2>7, <2>13 DEF Led
    <2>15. \A x \in sw' : Guided(x)'
      BY <1>2, <2>7, <2>10, <2>11, <2>12, <2>14, GoesOn
    <2> QED BY <1>4, <2>15 DEF ReleaseInv
  <1>7. CASE st = Recovered
    <2>1. PICK o : Party(s, o) /\ \E K \in SUBSET Facts : Led(s, o, s.todo, K)
      BY <1>1 DEF Guided
    <2>2. PICK A \in SUBSET Facts : Sure(s, b, o, A) /\ Plans(ReleaseRules(b, o), s.todo, A, AtBody)
      BY <2>1 DEF Led
    <2>3. s.todo = <<Recovered>> /\ AtBody \subseteq A
      BY <1>1, <1>7, <2>2, PlansEnd
    <2>4. Current = b /\ journal = {}
      BY <2>2, <2>3 DEF AtBody, Sure
    <2> DEFINE next == SwitchTo(s.state, s.target)
               p    == Site(s.target)
               F    == {"atBase", "none", "begun"}
    <2>5. /\ s.state \in Active /\ s.target \in Active /\ s.state.unit = "active"
          /\ s.target.unit = "active" /\ (s.target.api = s.state.api <=> s.target.port = s.state.port)
      BY <1>1 DEF Process, Orderly
    <2>6. Guides(b, p, next, F, {})
      BY <2>5, SwitchToGuides
    <2> HIDE DEF next
    <2>7. next \in Seq(Steps)
      BY <2>6 DEF Guides, Carries
    <2>8. flag = "recovered" /\ plan = <<Recovered>> \o next
      BY <1>7, <2>3 DEF Recovered, When, next
    <2> HIDE DEF flag, plan
    <2>9. plan \in Seq(Steps \union {Recovered}) /\ Tail(plan) = next
      <3> DEFINE T == Steps \union {Recovered}
      <3>1. next \in Seq(T) /\ Recovered \in T
        BY <2>7
      <3> HIDE DEF T
      <3>2. <<Recovered>> \o next \in Seq(T) /\ Tail(<<Recovered>> \o next) = next
        BY <3>1, AfterFirst
      <3> QED BY <2>8, <3>2 DEF T
    <2>10. /\ t \in Process /\ t.todo = plan /\ t.state = s.state /\ t.target = s.target
           /\ t.interrupted = s.interrupted /\ t.pending = s.pending
           /\ t.marks = s.marks \union {"recovered"}
      BY <1>1, <2>8, <2>9 DEF Process
    <2> HIDE DEF t
    <2>11. Orderly(t)'
      BY <1>1, <1>2, <1>5, <2>4, <2>10 DEF Orderly
    <2>12. Unmoved(t)' /\ Party(t, p)'
      BY <1>2, <1>5, <2>4, <2>10 DEF Unmoved, Party, Between
    <2>13. Sure(t, b, p, F)'
      BY <1>2, <1>5, <2>4, <2>10 DEF Sure
    <2>14. F \in SUBSET Facts
      BY DEF Facts, ReleaseFacts
    <2>15. Led(t, p, Tail(t.todo), F)'
      <3> DEFINE N == {}
      <3>1. N \in SUBSET Facts /\ Guides(b, p, next, F, N)
        BY <2>6
      <3> HIDE DEF F, p, N
      <3>2. Plans(ReleaseRules(b, p), next, F, AtBody)
        BY <3>1 DEF Plans, Guides
      <3> QED BY <2>9, <2>10, <2>13, <3>2 DEF Led
    <2>16. \A x \in sw' : Guided(x)'
      <3> HIDE DEF F, p
      <3> QED BY <1>2, <2>10, <2>11, <2>12, <2>14, <2>15, GoesOn
    <2> QED BY <1>4, <2>16 DEF ReleaseInv
  <1> QED
    BY <1>6, <1>7

-----------------------------------------------------------------------------
(* A run begins *)

\* The ports of the two places differ when their releases do.
LEMMA PublicSites ==
  ASSUME NEW t \in Targets, NEW base \in Active, base.unit = "active"
  PROVE  /\ PublicTarget(t, base).unit = "active"
         /\ PublicTarget(t, base).api = base.api <=> PublicTarget(t, base).port = base.port
  <1>1. CASE t.api = base.api
    BY <1>1 DEF PublicTarget, Active
  <1>2. CASE t.api # base.api
    <2>1. (IF base.port = "blue" THEN "green" ELSE "blue") # base.port
      OBVIOUS
    <2> QED BY <1>2, <2>1 DEF PublicTarget
  <1> QED
    BY <1>1, <1>2

\* Without a journal the run goes on from what is published; with one, from its target if
\* that was published and alone runs, and else from its base, which a start would run as
\* soon as the journal says so.
LEMMA RunBegins ==
  ASSUME SwitchInv, ReleaseOK, NEW base, base = Reconciled,
         NEW interrupted,
         interrupted = {IF Committed(j) THEN j ELSE [j EXCEPT !.phase = "recovering"] : j \in journal},
         NEW x, x.state = base, x.interrupted = interrupted, x.marks = {}
  PROVE  /\ base.unit = "active"
         /\ \E o : /\ Between(Site(base), o)
                   /\ \E A \in SUBSET Facts :
                        /\ Sure(x, Site(base), o, A)
                        /\ Guides(Site(base), o,
                                  When(interrupted # journal, Write("recovering"))
                                    \o EnsureProxy(base, interrupted), A, AtBody)
  <1> DEFINE first == When(interrupted # journal, Write("recovering"))
             next  == EnsureProxy(base, interrupted)
             b     == Site(base)
  <1>1. /\ HostOK /\ base \in Active /\ Current = Site(switchState) /\ switchState.unit = "active"
        /\ Journalled /\ Advanced /\ Calm(x)
    BY ReconciledType DEF SwitchInv, Current, ReleaseOK, OnlyActive, Calm
  <1>2. CASE journal = {}
    <2> DEFINE f == "none"
               A == {"atBase", f, "calm"}
               undone == FALSE
    <2>1. interrupted = {} /\ base = switchState
      BY <1>2 DEF Reconciled
    <2>2. undone = \E j \in interrupted : j.target # base
      BY <2>1
    <2>3. Guides(b, b, next, A, AtBody)
      BY <1>1, <2>1, <2>2, EnsureProxyGuides
    <2>4. A \in SUBSET Facts
      BY DEF Facts, ReleaseFacts
    <2>5. Guides(b, b, first, A, A)
      <3>1. (interrupted # journal) = FALSE
        BY <1>2, <2>1
      <3> HIDE DEF A, b
      <3> QED BY <2>4, <3>1, GuidesWhen
    <2>6. Between(b, b) /\ Sure(x, b, b, A)
      BY <1>1, <1>2, <2>1 DEF Between, Sure
    <2> HIDE DEF A, b, first, next
    <2>7. Guides(b, b, first \o next, A, AtBody)
      BY <2>3, <2>5, GuidesThen
    <2> QED BY <1>1, <2>1, <2>4, <2>6, <2>7 DEF b, first, next
  <1>3. CASE journal # {}
    <2> DEFINE k == CHOOSE k \in journal : TRUE
    <2>1. k \in journal /\ k \in Pending /\ journal = {k}
      BY <1>1, <1>3 DEF HostOK
    <2>2. base = IF Committed(k) THEN k.target ELSE OnActiveUnit(k.base)
      BY <1>3 DEF Reconciled
    <2>3. Entry("active") = IF k.phase = "recovering" THEN Site(k.base) ELSE Site(k.target)
      BY <1>3 DEF Entry, Site
    <2> HIDE DEF k
    <2>4. /\ k.base.unit = "active" /\ k.target.unit = "active" /\ k.base.port # k.target.port
          /\ Current \in {Site(k.base), Site(k.target)}
      BY <1>1, <2>1 DEF Journalled
    <2>5. k.base \in Active /\ k.target \in Active /\ OnActiveUnit(k.base) = k.base
      BY <2>1, <2>4 DEF Pending, Active, OnActiveUnit
    <2>6. CASE Committed(k)
      <3> DEFINE f == "onlyBase"
                 A == {"atBase", f, "calm"}
                 o == Site(k.base)
                 undone == FALSE
      <3>1. interrupted = {k} /\ base = k.target /\ switchState = k.target /\ k.phase = "published"
        BY <2>1, <2>2, <2>6 DEF Committed
      <3>2. /\ undone = \E j \in interrupted : j.target # base
            /\ \A j \in interrupted : j.base.unit = "active" /\ j.target.unit = "active"
            /\ f = IF interrupted = {} THEN "none" ELSE "onlyBase"
        BY <2>4, <3>1
      <3>3. Guides(b, o, next, A, AtBody)
        BY <1>1, <2>4, <3>1, <3>2, EnsureProxyGuides
      <3>4. A \in SUBSET Facts
        BY DEF Facts, ReleaseFacts
      <3>5. Guides(b, o, first, A, A)
        <4>1. (interrupted # journal) = FALSE
          BY <2>1, <3>1
        <4> HIDE DEF A, b, o
        <4> QED BY <3>4, <4>1, GuidesWhen
      <3>6. Between(b, o)
        BY <1>1, <2>1, <3>1 DEF Between
      <3>7. Entering(b) /\ running["active"] \subseteq {b} /\ Current = b
        BY <1>1, <1>3, <2>1, <2>3, <3>1 DEF Entering, Advanced
      <3>8. Sure(x, b, o, A)
        <4> HIDE DEF b, o
        <4> QED BY <1>1, <3>7 DEF Sure
      <3> HIDE DEF A, b, o, first, next
      <3>9. Guides(b, o, first \o next, A, AtBody)
        BY <3>3, <3>5, GuidesThen
      <3> QED BY <2>4, <3>1, <3>4, <3>6, <3>8, <3>9 DEF b, first, next
    <2>7. CASE ~Committed(k)
      <3> DEFINE f == "onlyBase"
                 P == {"toBase", "calm"}
                 A == IF interrupted # journal THEN {"torn", "calm"} ELSE P
                 o == Site(k.target)
                 r == [k EXCEPT !.phase = "recovering"]
                 undone == TRUE
      <3>1. interrupted = {r} /\ base = k.base
        BY <2>1, <2>2, <2>5, <2>7
      <3>2. r.phase = "recovering" /\ r.base = k.base /\ r.target = k.target
        BY <2>1 DEF Pending
      <3> HIDE DEF r
      <3>3. /\ undone = \E j \in interrupted : j.target # base
            /\ \A j \in interrupted : j.base.unit = "active" /\ j.target.unit = "active"
            /\ f = IF interrupted = {} THEN "none" ELSE "onlyBase"
        BY <2>4, <3>1, <3>2
      <3>4. Guides(b, o, next, P, AtBody)
        BY <1>1, <2>4, <3>1, <3>3, EnsureProxyGuides
      <3>5. A \in SUBSET Facts /\ P \in SUBSET Facts
        BY DEF Facts, ReleaseFacts
      <3>6. b.port # o.port
        BY <2>4, <3>1 DEF Site
      <3>7. Guides(b, o, first, A, P)
        <4>1. CASE interrupted # journal
          <5>1. /\ Guarded(A) /\ "torn" \in A
                /\ P \in SUBSET ((A \ {"toOther", "onlyOther", "none"}) \union {"toBase"})
            BY <4>1 DEF Guarded
          <5> HIDE DEF A, P, b, o
          <5>2. Guides(b, o, Write("recovering"), A, P)
            BY <3>5, <3>6, <5>1, GuidesUndo
          <5> QED BY <4>1, <5>2 DEF When
        <4>2. CASE interrupted = journal
          <5>1. (interrupted # journal) = FALSE /\ P \subseteq A
            BY <4>2
          <5> HIDE DEF A, P, b, o
          <5> QED BY <3>5, <5>1, GuidesWhen
        <4> QED BY <4>1, <4>2
      <3>8. Between(b, o)
        BY <1>1, <2>1, <2>4, <3>1 DEF Between
      <3>9. interrupted = journal => Entering(b)
        <4>1. interrupted = journal => k.phase = "recovering"
          BY <2>1, <3>1, <3>2
        <4> QED BY <1>3, <2>3, <3>1, <4>1 DEF Entering
      <3>10. Sure(x, b, o, A)
        <4>1. /\ x.interrupted = {r} /\ r.phase = "recovering"
              /\ r.base.unit = "active" /\ r.target.unit = "active"
              /\ Site(r.base) = b /\ Site(r.target) = o
          BY <2>4, <3>1, <3>2
        <4> HIDE DEF b, o
        <4> QED BY <1>1, <3>9, <4>1 DEF Sure
      <3> HIDE DEF A, P, b, o, first, next
      <3>11. Guides(b, o, first \o next, A, AtBody)
        BY <3>4, <3>7, GuidesThen
      <3> QED BY <2>4, <3>1, <3>5, <3>8, <3>10, <3>11 DEF b, first, next
    <2> QED BY <2>6, <2>7
  <1> QED
    BY <1>2, <1>3

\* A run of the command finds, or puts, its two places into the journal.
LEMMA RunReleases ==
  ASSUME SwitchInv, ReleaseInv, NEW t \in Targets, Run(t)
  PROVE  ReleaseInv'
  <1> DEFINE base        == Reconciled
             target      == PublicTarget(t, base)
             after(j)    == IF Committed(j) THEN j ELSE [j EXCEPT !.phase = "recovering"]
             interrupted == {after(j) : j \in journal}
             noOp        == t.web = base.web /\ t.api = base.api
             start       == When(interrupted # journal, Write("recovering"))
                              \o EnsureProxy(base, interrupted)
             plan        == start \o When(~noOp, Mark("recovered"))
             x           == [todo |-> plan, state |-> base, target |-> target,
                             interrupted |-> interrupted, pending |-> FALSE, proxy |-> stateFile,
                             marks |-> {}]
  <1>1. /\ sw' = {x}
        /\ UNCHANGED <<proxyVars, journal, switchState, running, starting, enabled, faults>>
    BY DEF Run, linkVars, hostVars
  <1>2. ReleaseOK /\ HostOK /\ faults \in Nat
    BY FaultsAssumption DEF SwitchInv, HostOK, ReleaseInv
  <1>3. /\ x.todo = plan /\ x.state = base /\ x.target = target /\ x.interrupted = interrupted
        /\ x.pending = FALSE /\ x.marks = {}
    OBVIOUS
  <1>4. base \in Active /\ target \in Active
    BY <1>2, ReconciledType, PublicTargetType
  <1>5. journal = {} <=> interrupted = {}
    OBVIOUS
  <1>6. /\ base.unit = "active"
        /\ \E o : /\ Between(Site(base), o)
                  /\ \E A \in SUBSET Facts :
                       Sure(x, Site(base), o, A) /\ Guides(Site(base), o, start, A, AtBody)
    <2> DEFINE B == base
               I == interrupted
               X == x
    <2>1. /\ B = Reconciled
          /\ I = {IF Committed(j) THEN j ELSE [j EXCEPT !.phase = "recovering"] : j \in journal}
          /\ X.state = B /\ X.interrupted = I /\ X.marks = {}
      BY <1>3
    <2> HIDE DEF B, I, X
    <2>2. /\ B.unit = "active"
          /\ \E o : /\ Between(Site(B), o)
                    /\ \E A \in SUBSET Facts :
                        /\ Sure(X, Site(B), o, A)
                        /\ Guides(Site(B), o,
                                  When(I # journal, Write("recovering")) \o EnsureProxy(B, I), A, AtBody)
      BY <1>2, <2>1, RunBegins
    <2> QED BY <2>2 DEF B, I, X
  <1>7. target.unit = "active" /\ (target.api = base.api <=> target.port = base.port)
    <2> HIDE DEF base
    <2> QED BY <1>4, <1>6, PublicSites
  <1>8. PICK o : /\ Between(Site(base), o)
                 /\ \E A \in SUBSET Facts :
                       Sure(x, Site(base), o, A) /\ Guides(Site(base), o, start, A, AtBody)
    BY <1>6
  <1>9. PICK A \in SUBSET Facts : Sure(x, Site(base), o, A) /\ Guides(Site(base), o, start, A, AtBody)
    BY <1>8
  <1> HIDE DEF start, interrupted, target, base
  <1>10. Plans(ReleaseRules(Site(base), o), plan, A, AtBody)
    <2>1. start \in Seq(Steps)
      BY <1>9 DEF Guides, Carries
    <2>2. CASE noOp
      <3>1. plan = start
        <4>1. plan = start \o <<>>
          BY <2>2 DEF When
        <4> HIDE DEF plan
        <4> QED BY <2>1, <4>1, ConcatEmptySeq
      <3>2. AtBody \in SUBSET Facts
        BY DEF AtBody, Facts, ReleaseFacts
      <3> HIDE DEF plan
      <3> QED BY <1>9, <3>1, <3>2 DEF Plans, Guides
    <2>3. CASE ~noOp
      <3>1. plan = start \o <<Recovered>>
        BY <2>3 DEF When, Mark, Recovered
      <3> HIDE DEF plan
      <3> QED BY <1>9, <2>1, <3>1 DEF Plans, Guides
    <2> QED BY <2>2, <2>3
  <1> HIDE DEF plan, x
  <1>11. Guided(x)
    <2>1. Orderly(x) /\ Unmoved(x)
      BY <1>3, <1>5, <1>6, <1>7 DEF Orderly, Unmoved, Calm
    <2>2. Party(x, o)
      BY <1>3, <1>8 DEF Party
    <2>3. Led(x, o, x.todo, A)
      BY <1>3, <1>9, <1>10 DEF Led
    <2> QED BY <2>1, <2>2, <2>3 DEF Guided
  <1>12. PICK y : y = x
    OBVIOUS
  <1>13. Routed' /\ InFlight' = InFlight /\ Held
    <2>1. UNCHANGED <<stateFile, process, state, reading, upstream>> /\ InFlight' = InFlight
      BY <1>1 DEF proxyVars, InFlight
    <2> QED BY <1>1, <1>2, <2>1, RoutedStays, Resting DEF ReleaseOK
  <1>14. ReleaseOK'
    BY <1>1, <1>2, <1>13, Unpublished
  <1>15. Guided(y)'
    <2>1. Clean' <=> Clean
      BY <1>1 DEF Clean, Current
    <2>2. (Still => Still') /\ (Quiet => Quiet')
      BY <1>1, <1>13, <2>1 DEF Still, Quiet, Held
    <2>3. Guided(y)
      BY <1>11, <1>12
    <2>4. \A z : Entering(z) /\ running["active"] \subseteq {z} => running'["active"] \subseteq {z}
      BY <1>1
    <2> QED BY <1>1, <2>1, <2>2, <2>3, <2>4, StaysGuided
  <1> QED
    BY <1>1, <1>12, <1>14, <1>15 DEF ReleaseInv

-----------------------------------------------------------------------------
(* What is served, and what runs *)

LEMMA InitReleaseInv ==
  ASSUME SwitchInit, Installed.unit = "active"
  PROVE  ReleaseInv
  <1>1. /\ switchState = Installed /\ starting = {} /\ journal = {} /\ sw = {} /\ faults = 0
        /\ enabled = {"active"} /\ stateFile.port = Installed.port
        /\ running["legacy"] = {} /\ running["active"] = {Site(Installed)}
    BY DEF SwitchInit, Units, Site
  <1>2. Current = Site(Installed)
    BY <1>1 DEF Current
  <1>3. state = stateFile /\ reading = {} /\ InFlight = {}
    BY DEF SwitchInit, Init, InFlight
  <1>4. Routed
    BY <1>1, <1>3 DEF Routed
  <1>5. OnlyActive /\ Resolved /\ Journalled /\ Advanced /\ Cleared /\ OneRuns /\ StartsAfterFault
    BY <1>1, <1>2
       DEF OnlyActive, Resolved, Journalled, Advanced, Cleared, Clean, OneRuns, StartsAfterFault
  <1> QED
    BY <1>1, <1>4, <1>5 DEF ReleaseInv, ReleaseOK

LEMMA NextReleaseInv == SwitchInv /\ ReleaseInv /\ [SwitchNext]_vars => ReleaseInv'
  <1> SUFFICES ASSUME SwitchInv, ReleaseInv, [SwitchNext]_vars PROVE ReleaseInv'
    OBVIOUS
  <1>1. ASSUME NEW s \in sw, Step(s) \/ Throws(s) PROVE ReleaseInv'
    BY <1>1, SetsProxyReleases, WaitsReleases, ThrowsReleases, ControlsReleases, WritesReleases,
       PublishesReleases, MarksReleases DEF Step
  <1>2. CASE \E t \in Targets : Run(t)
    BY <1>2, RunReleases
  <1>3. CASE UNCHANGED vars
    <2>1. UNCHANGED <<proxyVars, journal, switchState, running, starting, enabled, sw, faults>>
      BY <1>3 DEF vars, switchVars
    <2>2. ReleaseOK /\ faults \in Nat
      BY FaultsAssumption DEF SwitchInv, HostOK, ReleaseInv
    <2>3. Routed' /\ InFlight' = InFlight /\ Held
      <3>1. UNCHANGED <<stateFile, process, state, reading, upstream>> /\ InFlight' = InFlight
        BY <2>1 DEF proxyVars, InFlight
      <3> QED BY <2>1, <2>2, <3>1, RoutedStays, Resting DEF ReleaseOK
    <2>4. ReleaseOK'
      BY <2>1, <2>2, <2>3, Unpublished
    <2>5. ASSUME NEW s \in sw PROVE Guided(s)'
      <3>1. Guided(s) /\ (Clean' <=> Clean)
        BY <2>1 DEF ReleaseInv, Clean, Current
      <3>2. (Still => Still') /\ (Quiet => Quiet')
        BY <2>1, <2>3, <3>1 DEF Still, Quiet, Held
      <3>3. \A x : Entering(x) /\ running["active"] \subseteq {x} => running'["active"] \subseteq {x}
        BY <2>1
      <3> QED BY <2>1, <3>1, <3>2, <3>3, StaysGuided
    <2> QED BY <2>1, <2>4, <2>5 DEF ReleaseInv
  <1> QED
    BY <1>1, <1>2, <1>3, EnvironmentReleases DEF SwitchNext, SwitchStep

LEMMA PublishedServes ==
  ASSUME ReleaseInv
  PROVE  ServesPublished
  <1> SUFFICES ASSUME NEW r \in InFlight, NEW u \in Units, NEW x \in running[u], x.port = upstream[r]
               PROVE  x.api = switchState.api
    BY DEF ServesPublished
  <1>1. x \in running["active"]
    BY DEF Units, ReleaseInv, ReleaseOK, OnlyActive
  <1>2. x = Current
    BY <1>1 DEF ReleaseInv, ReleaseOK, Routed, Resolved
  <1> QED
    BY <1>2 DEF Current, Site

LEMMA PublishedRuns ==
  ASSUME ReleaseInv, faults <= 1
  PROVE  RunsPublished
  <1> SUFFICES ASSUME journal = {}, NEW u \in Units PROVE running[u] \subseteq {Current}
    BY DEF RunsPublished, Current, Site
  <1>1. running["active"] \subseteq {Current} /\ running["legacy"] = {}
    BY DEF ReleaseInv, ReleaseOK, OnlyActive, Cleared, Clean
  <1> QED
    BY <1>1 DEF Units

\* Once the API runs on the active unit, a request that the proxy has sent is never behind
\* another release than the published one, however often a call of the switch throws, the
\* switch dies, the proxy or the API crashes, or the host reboots: the proxy was sent to the
\* published port, and no other release ever runs there.
THEOREM AlwaysServesPublished ==
  ASSUME Installed.unit = "active"
  PROVE  SwitchSpec => []ServesPublished
  <1>1. SwitchInit => SwitchInv /\ ReleaseInv
    BY InitSwitchInv, InitReleaseInv
  <1>2. SwitchInv /\ ReleaseInv /\ [SwitchNext]_vars => (SwitchInv /\ ReleaseInv)'
    BY NextSwitchInv, NextReleaseInv
  <1>3. ReleaseInv => ServesPublished
    BY PublishedServes
  <1> QED
    BY <1>1, <1>2, <1>3, PTL DEF SwitchSpec

\* Up to the second fault the catch block and the next run leave nothing behind: without a
\* journal no release runs but the published one, on the published port.
THEOREM RunsPublishedAfterFault ==
  ASSUME Installed.unit = "active"
  PROVE  SwitchSpec => [](faults <= 1 => RunsPublished)
  <1>1. SwitchInit => SwitchInv /\ ReleaseInv
    BY InitSwitchInv, InitReleaseInv
  <1>2. SwitchInv /\ ReleaseInv /\ [SwitchNext]_vars => (SwitchInv /\ ReleaseInv)'
    BY NextSwitchInv, NextReleaseInv
  <1>3. ReleaseInv => (faults <= 1 => RunsPublished)
    BY PublishedRuns
  <1> QED
    BY <1>1, <1>2, <1>3, PTL DEF SwitchSpec

\* After any number of faults, with a journal or without: what listens on the published port
\* is the published release; a journal names the published release as its base or its target;
\* and from "publishing" on nothing runs but the target, until "recovering" is written.
THEOREM OnPublishedPort ==
  ASSUME Installed.unit = "active"
  PROVE  SwitchSpec => [](Resolved /\ Journalled /\ Advanced)
  <1>1. SwitchInit => SwitchInv /\ ReleaseInv
    BY InitSwitchInv, InitReleaseInv
  <1>2. SwitchInv /\ ReleaseInv /\ [SwitchNext]_vars => (SwitchInv /\ ReleaseInv)'
    BY NextSwitchInv, NextReleaseInv
  <1>3. ReleaseInv => Resolved /\ Journalled /\ Advanced
    BY DEF ReleaseInv, ReleaseOK
  <1> QED
    BY <1>1, <1>2, <1>3, PTL DEF SwitchSpec

=============================================================================
