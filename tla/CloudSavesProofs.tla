-------------------------- MODULE CloudSavesProofs --------------------------
(***************************************************************************)
(* What holds of CloudSaves for any operations, contents, limits and number *)
(* of faults.  The invariant has five parts: the slot is a history with its *)
(* newest revision on top (Sound, CurrentIsNewest), a delivery is in one    *)
(* place (Placed), the mutation that runs works on the published state      *)
(* (Serial), an upload that landed has its receipt and its client was told  *)
(* so if anything (Settled), and tables and counts follow the history       *)
(* (Stored).  Serial makes every commit a step of CloudSlot.                *)
(***************************************************************************)
EXTENDS CloudSaves, FiniteSetTheorems, TLAPS

\* A slot's record.
Sound(s) ==
    /\ s = [current |-> s.current, history |-> s.history, receipts |-> s.receipts]
    /\ s.current \in Nat
    /\ DOMAIN s.history \subseteq Nat \ {0}
    /\ IsFiniteSet(DOMAIN s.history)
    /\ s.history \in [DOMAIN s.history -> Contents]
    /\ s.receipts = [o \in DOMAIN s.receipts |-> s.receipts[o]]

InFlight == sent \union queued \union {m.call : m \in mutation}

Placed ==
    /\ tries \in [Ops -> Nat]
    /\ InFlight \subseteq Calls
    /\ sent \intersect queued = {}
    /\ \A m \in mutation : m.call \notin sent \union queued
    /\ \A call \in InFlight : call.try <= tries[call.op]
    /\ \A o \in Ops : asked[o] = Unasked <=> tries[o] = 0

Serial ==
    /\ server \in {"up", "closing", "down"}
    /\ \A m, n \in mutation : m = n
    /\ NoneOvertaken
    /\ server = "down" => mutation = {} /\ queued = {}

\* What an upload becomes.
Saved(o) == [revision |-> asked[o].expected + 1, content |-> asked[o].content]

Settled ==
    /\ asked \in [Ops -> Requests \union {Unasked}]
    /\ landed \in [Ops -> Nat]
    /\ reply = [o \in Ops |-> reply[o]]
    /\ \A o \in DOMAIN saves.receipts :
          o \in Ops /\ asked[o].kind = "put" /\ saves.receipts[o] = Saved(o)
    /\ \A o \in Ops : asked[o] = Unasked => landed[o] = 0 /\ reply[o] = None
    /\ \A o \in Ops : asked[o].kind = "put" =>
          landed[o] = IF o \in DOMAIN saves.receipts THEN 1 ELSE 0
    /\ \A call \in InFlight :
          tries[call.op] = 1 => reply[call.op] = None /\ landed[call.op] = 0
    /\ TruthfulReplies

Stored == PayloadsResolve /\ IndexExact

CloudInv == Sound(saves) /\ CurrentIsNewest /\ Placed /\ Serial /\ Settled /\ Stored

-----------------------------------------------------------------------------
(* The tables *)

\* A table after some rows are deleted and others written; the rows that go.
After(R, D, W)   == [r \in (DOMAIN R \ D) \union DOMAIN W |->
                         IF r \in DOMAIN W THEN W[r] ELSE R[r]]
Removed(R, D, W) == (D \union DOMAIN W) \intersect DOMAIN R

\* The counts a commit projects are the counts of the table it leaves.
LEMMA CountsAfterWrite ==
    ASSUME NEW R, IsFiniteSet(DOMAIN R), NEW D, NEW W, IsFiniteSet(DOMAIN W), NEW c
    PROVE  /\ IsFiniteSet({r \in DOMAIN After(R, D, W) : After(R, D, W)[r] = c})
           /\ Count(After(R, D, W), c) =
                  (Count(R, c) + Cardinality({r \in DOMAIN W : W[r] = c}))
                  - Cardinality({r \in Removed(R, D, W) : R[r] = c})
<1> DEFINE N == After(R, D, W)
           removed == Removed(R, D, W)
           A == {r \in DOMAIN R : R[r] = c}
           B == {r \in removed : R[r] = c}
           C == {r \in DOMAIN W : W[r] = c}
           E == {r \in DOMAIN N : N[r] = c}
<1>1. IsFiniteSet(A) /\ IsFiniteSet(B) /\ IsFiniteSet(C)
  <2>1. A \subseteq DOMAIN R /\ B \subseteq DOMAIN R /\ C \subseteq DOMAIN W  BY DEF Removed
  <2> QED BY <2>1, FS_Subset
<1>2. E = (A \ B) \union C
  BY DEF After, Removed
<1>3. (A \ B) \intersect C = {} /\ A \intersect B = B
  BY DEF Removed
<1>4. IsFiniteSet(A \ B) /\ Cardinality(A \ B) = Cardinality(A) - Cardinality(B)
  <2> HIDE DEF A, B, C, E
  <2>1. IsFiniteSet(A \ B) /\ Cardinality(A \ B) = Cardinality(A) - Cardinality(A \intersect B)
    BY <1>1, FS_Difference
  <2> QED BY <1>3, <2>1
<1>5. /\ IsFiniteSet(E)
      /\ Cardinality(E) = Cardinality(A \ B) + Cardinality(C)
                          - Cardinality((A \ B) \intersect C)
  <2> DEFINE F == A \ B
  <2>1. IsFiniteSet(F) /\ E = F \union C  BY <1>2, <1>4
  <2> HIDE DEF A, B, C, E, F
  <2>2. /\ IsFiniteSet(F \union C)
        /\ Cardinality(F \union C) = Cardinality(F) + Cardinality(C) - Cardinality(F \intersect C)
    BY <1>1, <2>1, FS_Union
  <2>3. /\ IsFiniteSet(E)
        /\ Cardinality(E) = Cardinality(F) + Cardinality(C) - Cardinality(F \intersect C)
    BY <2>1, <2>2
  <2> QED BY <2>3 DEF F
<1>6. Cardinality(A) \in Nat /\ Cardinality(B) \in Nat /\ Cardinality(C) \in Nat
      /\ Cardinality(E) \in Nat
  <2> HIDE DEF A, B, C, E
  <2> QED BY <1>1, <1>5, FS_CardinalityType
<1>7. Cardinality((A \ B) \intersect C) = 0
  <2> HIDE DEF A, B, C
  <2> QED BY <1>3, FS_EmptySet
<1>8. Count(N, c) = Cardinality(E) /\ Count(R, c) = Cardinality(A)
  BY DEF Count
<1> HIDE DEF A, B, C, E
<1> QED
  <2>1. Cardinality(E) = (Cardinality(A) + Cardinality(C)) - Cardinality(B)
    BY <1>4, <1>5, <1>6, <1>7
  <2> QED BY <1>5, <1>6, <1>8, <2>1 DEF A, B, C, E

\* A commit leaves the table it was asked for, the blobs of that table and no other, and
\* the index that a start would build from it.
LEMMA TablesAfterWrite ==
    ASSUME NEW D, NEW W, IsFiniteSet(DOMAIN W), W \in [DOMAIN W -> Contents],
           IsFiniteSet(DOMAIN rows), rows \in [DOMAIN rows -> Contents],
           blobs = {rows[r] : r \in DOMAIN rows},
           refs = Indexed(rows),
           Write(D, W)
    PROVE  /\ rows' = After(rows, D, W)
           /\ blobs' = {rows'[r] : r \in DOMAIN rows'}
           /\ refs' = Indexed(rows')
<1> DEFINE removed == Removed(rows, D, W)
           counts  == Projected(removed, W)
<1>1. refs.index = rows /\ refs.counts = [c \in Contents |-> Count(rows, c)]
  BY DEF Indexed
<1>2. rows' = After(rows, D, W)
  BY DEF Write, After
<1>3. blobs' = (blobs \union {W[r] : r \in DOMAIN W})
               \ Unreferenced({rows[r] : r \in removed}, counts)
  BY <1>1 DEF Write, Removed
<1>4. refs' = [index |-> rows', counts |-> counts]
  BY <1>1, <1>2 DEF Write, Removed, After
<1>5. \A c \in Contents : /\ counts[c] = Count(rows', c)
                          /\ IsFiniteSet({r \in DOMAIN rows' : rows'[r] = c})
  <2> SUFFICES ASSUME NEW c \in Contents
               PROVE  /\ counts[c] = Count(rows', c)
                      /\ IsFiniteSet({r \in DOMAIN rows' : rows'[r] = c})
    OBVIOUS
  <2>1. counts[c] = (Count(rows, c) + Cardinality({r \in DOMAIN W : W[r] = c}))
                    - Cardinality({r \in removed : rows[r] = c})
    BY <1>1 DEF Projected
  <2> HIDE DEF counts
  <2> QED BY <1>2, <2>1, CountsAfterWrite
<1>6. refs' = Indexed(rows')
  <2>1. counts = [c \in Contents |-> Count(rows', c)]
    <3>1. counts = [c \in Contents |-> counts[c]]  BY DEF Projected
    <3> HIDE DEF counts
    <3> QED BY <1>5, <3>1
  <2> QED BY <1>4, <2>1 DEF Indexed
<1>7. ASSUME NEW c \in Contents
      PROVE  counts[c] = 0 <=> ~ \E r \in DOMAIN rows' : rows'[r] = c
  <2> DEFINE E == {r \in DOMAIN rows' : rows'[r] = c}
  <2>1. counts[c] = Cardinality(E) /\ IsFiniteSet(E)  BY <1>5 DEF Count
  <2>2. Cardinality(E) = 0 <=> E = {}
    <3> HIDE DEF E
    <3> QED BY <2>1, FS_EmptySet
  <2>3. E = {} <=> ~ \E r \in DOMAIN rows' : rows'[r] = c  OBVIOUS
  <2> HIDE DEF E, counts
  <2> QED BY <2>1, <2>2, <2>3
<1>8. blobs' = {rows'[r] : r \in DOMAIN rows'}
  <2> HIDE DEF counts
  <2>1. ASSUME NEW c \in blobs' PROVE c \in {rows'[r] : r \in DOMAIN rows'}
    <3>1. c \in Contents  BY <1>3, <2>1
    <3>2. CASE \E r \in DOMAIN W : c = W[r]
      BY <1>2, <3>2 DEF After
    <3>3. CASE \E r \in DOMAIN rows : c = rows[r]
      <4>1. PICK r \in DOMAIN rows : c = rows[r]  BY <3>3
      <4>2. CASE r \in removed
        <5>1. counts[c] # 0  BY <1>3, <2>1, <4>1, <4>2 DEF Unreferenced
        <5> QED BY <1>7, <3>1, <5>1
      <4>3. CASE r \notin removed
        BY <1>2, <4>1, <4>3 DEF After, Removed
      <4> QED BY <4>2, <4>3
    <3> QED BY <1>3, <2>1, <3>2, <3>3
  <2>2. ASSUME NEW r \in DOMAIN rows' PROVE rows'[r] \in blobs'
    <3>1. rows'[r] \in Contents /\ rows'[r] \in blobs \union {W[x] : x \in DOMAIN W}
      BY <1>2, <2>2 DEF After
    <3>2. counts[rows'[r]] # 0  BY <1>7, <2>2, <3>1
    <3> QED BY <1>3, <3>1, <3>2 DEF Unreferenced
  <2> QED BY <2>1, <2>2
<1> QED BY <1>2, <1>6, <1>8

-----------------------------------------------------------------------------
(* The slot *)

LEMMA RequestShape ==
    \A q \in Requests :
        /\ q # Unasked
        /\ q.kind \in {"put", "delete", "restore"}
        /\ q.expected \in Nat
        /\ q.kind = "put" => q.content \in Contents
BY SlotAssumption DEF Requests, Revision, Unasked

LEMMA ReceiptUpdate ==
    ASSUME NEW s, NEW c, NEW h, NEW r, s = [current |-> c, history |-> h, receipts |-> r], NEW a
    PROVE  [s EXCEPT !.receipts = a] = [current |-> c, history |-> h, receipts |-> a]
OBVIOUS

\* A new revision on top of a pruned history.
LEMMA AppendKeeps ==
    ASSUME Sound(saves), CurrentIsNewest, NEW d \in Prunes(saves), NEW content \in Contents, NEW o,
           \/ saves' = Appended(saves, d, content)
           \/ saves' = Receipted(Appended(saves, d, content), o)
    PROVE  /\ Sound(saves')
           /\ CurrentIsNewest'
           /\ Current(Appended(saves, d, content)) =
                  [revision |-> saves.current + 1, content |-> content]
           /\ Current(saves') = Current(Appended(saves, d, content))
           /\ saves'.current = saves.current + 1
           /\ saves'.history =
                  After(saves.history, d, [r \in {saves.current + 1} |-> content])
<1> DEFINE t == Appended(saves, d, content)
           H == saves.history
           top == saves.current + 1
           kept == DOMAIN H \ d
<1>1. /\ saves.current \in Nat /\ DOMAIN H \subseteq Nat \ {0} /\ IsFiniteSet(DOMAIN H)
      /\ H \in [DOMAIN H -> Contents]
      /\ saves.receipts = [x \in DOMAIN saves.receipts |-> saves.receipts[x]]
  BY DEF Sound
<1>2. t = [current |-> top, receipts |-> saves.receipts,
           history |-> [r \in kept \union {top} |-> IF r = top THEN content ELSE H[r]]]
  BY DEF Appended
<1>3. d \subseteq DOMAIN H \ {saves.current} /\ Cardinality(kept) < HistoryLimit
  BY DEF Prunes
<1>4. /\ saves'.current = t.current /\ saves'.history = t.history
      /\ saves' = [current |-> t.current, history |-> t.history, receipts |-> saves'.receipts]
      /\ saves'.receipts = [x \in DOMAIN saves'.receipts |-> saves'.receipts[x]]
  <2>1. t = [current |-> t.current, history |-> t.history, receipts |-> t.receipts]
        /\ t.receipts = saves.receipts
    BY <1>2
  <2>2. CASE saves' = t
    <3> HIDE DEF t
    <3> QED BY <1>1, <2>1, <2>2
  <2>3. CASE saves' = Receipted(t, o)
    <3> DEFINE added == [x \in DOMAIN t.receipts \union {o} |->
                             IF x = o THEN Current(t) ELSE t.receipts[x]]
    <3>1. saves' = [t EXCEPT !.receipts = added]  BY <2>3 DEF Receipted
    <3>2. added = [x \in DOMAIN added |-> added[x]]  OBVIOUS
    <3> HIDE DEF t, added
    <3>3. saves' = [current |-> t.current, history |-> t.history, receipts |-> added]
      BY <2>1, <3>1, ReceiptUpdate
    <3> QED BY <3>2, <3>3
  <2> QED BY <2>2, <2>3
<1>5. /\ t.current = top /\ DOMAIN t.history = kept \union {top} /\ t.history[top] = content
      /\ t.history \in [kept \union {top} -> Contents]
  BY <1>1, <1>2
<1>6. top \in Nat \ {0} /\ \A r \in DOMAIN H : r <= saves.current
  BY <1>1 DEF CurrentIsNewest
<1>7. /\ IsFiniteSet(kept) /\ Cardinality(kept) \in Nat
      /\ IsFiniteSet(kept \union {top})
      /\ Cardinality(kept \union {top}) <= HistoryLimit
  <2>1. IsFiniteSet(kept)  BY <1>1, FS_Subset
  <2>2. top \notin kept  BY <1>1, <1>6
  <2> HIDE DEF kept, top
  <2>3. Cardinality(kept) \in Nat  BY <2>1, FS_CardinalityType
  <2>4. /\ IsFiniteSet(kept \union {top})
        /\ Cardinality(kept \union {top}) = Cardinality(kept) + 1
    BY <2>1, <2>2, FS_AddElement
  <2> QED BY <1>3, <2>1, <2>3, <2>4, SlotAssumption
<1>8. Sound(saves')
  <2>1. DOMAIN saves'.history = kept \union {top}  BY <1>4, <1>5
  <2>2. DOMAIN saves'.history \subseteq Nat \ {0}  BY <1>1, <1>6, <2>1
  <2>3. saves'.history \in [DOMAIN saves'.history -> Contents]  BY <1>4, <1>5
  <2>4. saves'.current \in Nat  BY <1>4, <1>5, <1>6
  <2>5. saves' = [current |-> saves'.current, history |-> saves'.history,
                  receipts |-> saves'.receipts]
    <3> HIDE DEF t
    <3> QED BY <1>4
  <2> HIDE DEF kept, top
  <2> QED BY <1>4, <1>7, <2>1, <2>2, <2>3, <2>4, <2>5 DEF Sound
<1>9. CurrentIsNewest'
  <2>1. DOMAIN saves'.history = kept \union {top} /\ saves'.current = top
    BY <1>4, <1>5
  <2>2. \A r \in kept \union {top} : r <= top  BY <1>1, <1>6
  <2> HIDE DEF kept, t
  <2> QED BY <1>6, <1>7, <2>1, <2>2 DEF CurrentIsNewest
<1>10. Current(t) = [revision |-> top, content |-> content] /\ Current(saves') = Current(t)
  BY <1>4, <1>5, <1>6 DEF Current
<1>11. t.history = After(H, d, [r \in {top} |-> content])
  BY <1>2 DEF After
<1> QED BY <1>4, <1>5, <1>8, <1>9, <1>10, <1>11

\* A deletion.
LEMMA EmptyKeeps ==
    ASSUME Sound(saves), saves' = Emptied(saves)
    PROVE  /\ Sound(saves')
           /\ CurrentIsNewest'
           /\ saves'.history = After(saves.history, DOMAIN saves.history, Nothing)
           /\ saves'.receipts = saves.receipts
<1>1. saves' = [current |-> 0, history |-> Nothing, receipts |-> saves.receipts]
  BY DEF Sound, Emptied
<1>2. saves.receipts = [o \in DOMAIN saves.receipts |-> saves.receipts[o]]
  BY DEF Sound
<1>3. DOMAIN Nothing = {} /\ Nothing \in [{} -> Contents]
  BY DEF Nothing
<1>4. IsFiniteSet({}) /\ Cardinality({}) = 0
  BY FS_EmptySet
<1>5. Nothing = After(saves.history, DOMAIN saves.history, Nothing)
  BY <1>3 DEF After, Nothing
<1> HIDE DEF Nothing
<1>6. Sound(saves')
  BY <1>1, <1>2, <1>3, <1>4 DEF Sound
<1>7. CurrentIsNewest'
  BY <1>1, <1>3, <1>4, SlotAssumption DEF CurrentIsNewest
<1> QED BY <1>1, <1>5, <1>6, <1>7

-----------------------------------------------------------------------------
(* Deliveries and receipts *)

\* Deliveries that only leave are still each in one place.
LEMMA PlacedLeaving ==
    ASSUME Placed, sent' \subseteq sent, queued' \subseteq queued, mutation' \subseteq mutation,
           UNCHANGED <<asked, tries>>
    PROVE  Placed' /\ InFlight' \subseteq InFlight
BY DEF Placed, InFlight

\* What was told stays true while nothing is told or committed.
LEMMA SettledKept ==
    ASSUME Settled, InFlight' \subseteq InFlight, UNCHANGED <<asked, tries, reply, landed, saves>>
    PROVE  Settled'
BY DEF Settled, TruthfulReplies, Saved

\* A delivery that was made once is the only one of its operation.
LEMMA OnlyDelivery ==
    ASSUME Placed, NEW call \in InFlight, NEW other \in InFlight, other.op = call.op,
           tries[call.op] = 1
    PROVE  other = call
<1>1. /\ call \in Calls /\ other \in Calls
      /\ call.try <= 1 /\ other.try <= 1
  BY DEF Placed
<1> QED BY <1>1, CloudAssumption DEF Calls

\* A delivery leaves without a commit, and its answer is so.
LEMMA SettledLeaving ==
    ASSUME Placed, Settled, NEW call \in InFlight, InFlight' \subseteq InFlight \ {call},
           UNCHANGED <<asked, tries, landed, saves>>,
           NEW result, NEW save, Answer(call, result, save) \/ UNCHANGED reply,
           asked[call.op].kind = "put" /\ result = "saved"
               => call.op \in DOMAIN saves.receipts /\ save = Saved(call.op)
    PROVE  Settled'
<1>1. CASE UNCHANGED reply
  BY <1>1, SettledKept
<1>2. CASE /\ ~Abandoned(call)
           /\ reply' = [reply EXCEPT ![call.op] = [result |-> result, save |-> save]]
  <2>1. call.op \in Ops /\ reply = [o \in Ops |-> reply[o]]
    BY DEF Placed, Calls, Settled
  <2>2. /\ reply' = [o \in Ops |-> reply'[o]]
        /\ reply'[call.op].result = result /\ reply'[call.op].save = save
        /\ \A o \in Ops : o # call.op => reply'[o] = reply[o]
    BY <1>2, <2>1
  <2>3. \A o \in Ops : asked[o] = Unasked => o # call.op
    <3>1. call.try \in Nat \ {0} /\ call.try <= tries[call.op]
      BY CloudAssumption DEF Placed, Calls
    <3> QED BY <2>1, <3>1 DEF Placed
  <2>4. \A other \in InFlight' : tries[other.op] = 1 => other.op # call.op
    BY OnlyDelivery
  <2>5. tries[call.op] = 1 => landed[call.op] = 0
    BY DEF Settled
  <2>6. \A o \in Ops : asked[o] = Unasked => landed[o] = 0 /\ reply'[o] = None
    BY <2>2, <2>3 DEF Settled
  <2>7. \A other \in InFlight' : tries[other.op] = 1 => reply'[other.op] = None /\ landed[other.op] = 0
    <3>1. \A other \in InFlight' : other.op \in Ops  BY DEF Placed, Calls
    <3> QED BY <2>2, <2>4, <3>1 DEF Settled
  <2>8. TruthfulReplies'
    <3>1. ASSUME NEW o \in Ops, asked[o].kind = "put", reply'[o] # None, o = call.op
          PROVE  IF reply'[o].result = "saved"
                 THEN landed[o] > 0 /\ reply'[o].save = Saved(o)
                 ELSE tries[o] = 1 => landed[o] = 0
      BY <2>2, <2>5, <3>1 DEF Settled
    <3>2. ASSUME NEW o \in Ops, asked[o].kind = "put", reply'[o] # None, o # call.op
          PROVE  IF reply'[o].result = "saved"
                 THEN landed[o] > 0 /\ reply'[o].save = Saved(o)
                 ELSE tries[o] = 1 => landed[o] = 0
      BY <2>2, <3>2 DEF Settled, TruthfulReplies, Saved
    <3> QED BY <3>1, <3>2 DEF TruthfulReplies, Saved
  <2> QED BY <2>2, <2>6, <2>7, <2>8 DEF Settled, Saved
<1> QED BY <1>1, <1>2 DEF Answer

\* A commit is settled: an upload has a receipt of what it became, and is told so.
LEMMA SettledCommit ==
    ASSUME Placed, Settled, NEW call \in InFlight, InFlight' \subseteq InFlight \ {call},
           UNCHANGED <<asked, tries>>,
           landed' = [landed EXCEPT ![call.op] = @ + 1],
           NEW result, NEW save, Answer(call, result, save),
           IF asked[call.op].kind = "put"
           THEN /\ result = "saved" /\ save = Saved(call.op)
                /\ call.op \notin DOMAIN saves.receipts
                /\ saves'.receipts = [x \in DOMAIN saves.receipts \union {call.op} |->
                                          IF x = call.op THEN Saved(x) ELSE saves.receipts[x]]
           ELSE saves'.receipts = saves.receipts
    PROVE  Settled'
<1>1. /\ call.op \in Ops /\ landed \in [Ops -> Nat]
      /\ reply = [o \in Ops |-> reply[o]]
  BY DEF Placed, Calls, Settled
<1>2. /\ landed' \in [Ops -> Nat] /\ landed'[call.op] = landed[call.op] + 1
      /\ \A o \in Ops : o # call.op => landed'[o] = landed[o]
  BY <1>1
<1>3. /\ reply' = [o \in Ops |-> reply'[o]]
      /\ \A o \in Ops : o # call.op => reply'[o] = reply[o]
      /\ \/ reply'[call.op] = reply[call.op]
         \/ reply'[call.op] = [result |-> result, save |-> save]
  BY <1>1 DEF Answer
<1>4. \A o \in Ops : asked[o] = Unasked => o # call.op
  <2>1. call.try \in Nat \ {0} /\ call.try <= tries[call.op]
    BY CloudAssumption DEF Placed, Calls
  <2> QED BY <1>1, <2>1 DEF Placed
<1>5. \A other \in InFlight' : tries[other.op] = 1 => other.op # call.op
  BY OnlyDelivery
<1>6. \A o \in DOMAIN saves'.receipts :
          o \in Ops /\ asked[o].kind = "put" /\ saves'.receipts[o] = Saved(o)
  BY <1>1 DEF Settled
<1>7. \A o \in Ops : asked[o] = Unasked => landed'[o] = 0 /\ reply'[o] = None
  BY <1>2, <1>3, <1>4 DEF Settled
<1>8. \A o \in Ops : asked[o].kind = "put" =>
          landed'[o] = IF o \in DOMAIN saves'.receipts THEN 1 ELSE 0
  BY <1>1, <1>2 DEF Settled
<1>9. \A other \in InFlight' : tries[other.op] = 1 => reply'[other.op] = None /\ landed'[other.op] = 0
  <2>1. \A other \in InFlight' : other.op \in Ops  BY DEF Placed, Calls
  <2> QED BY <1>2, <1>3, <1>5, <2>1 DEF Settled
<1>10. TruthfulReplies'
  <2>1. ASSUME NEW o \in Ops, asked[o].kind = "put", reply'[o] # None, o = call.op
        PROVE  IF reply'[o].result = "saved"
               THEN landed'[o] > 0 /\ reply'[o].save = Saved(o)
               ELSE tries[o] = 1 => landed'[o] = 0
    <3>1. tries[o] = 1 => reply[o] = None  BY <2>1 DEF Settled
    <3>2. CASE reply'[o] = [result |-> result, save |-> save]
      BY <1>1, <1>2, <2>1, <3>2
    <3>3. CASE reply'[o] = reply[o]
      BY <1>1, <1>2, <2>1, <3>1, <3>3 DEF Settled, TruthfulReplies, Saved
    <3> QED BY <1>3, <2>1, <3>2, <3>3
  <2>2. ASSUME NEW o \in Ops, asked[o].kind = "put", reply'[o] # None, o # call.op
        PROVE  IF reply'[o].result = "saved"
               THEN landed'[o] > 0 /\ reply'[o].save = Saved(o)
               ELSE tries[o] = 1 => landed'[o] = 0
    BY <1>2, <1>3, <2>2 DEF Settled, TruthfulReplies, Saved
  <2> QED BY <2>1, <2>2 DEF TruthfulReplies, Saved
<1> QED BY <1>2, <1>3, <1>6, <1>7, <1>8, <1>9, <1>10 DEF Settled, Saved

-----------------------------------------------------------------------------
(* The mutation that runs *)

\* Every delivery, queued or running, is of an operation that was asked for.
LEMMA MutationFacts ==
    ASSUME CloudInv, NEW m \in mutation
    PROVE  /\ m.call \in InFlight /\ m.call.op \in Ops
           /\ asked[m.call.op] \in Requests
           /\ m.base = generation /\ m.draft = saves
           /\ mutation = {m} /\ server # "down"
<1>1. m.call \in InFlight /\ m.call \in Calls
  BY DEF CloudInv, Placed, InFlight
<1>2. tries[m.call.op] # 0
  BY <1>1, CloudAssumption DEF CloudInv, Placed, Calls
<1>3. asked[m.call.op] \in Requests
  BY <1>1, <1>2 DEF CloudInv, Placed, Settled, Calls
<1> QED BY <1>1, <1>3 DEF CloudInv, Serial, NoneOvertaken, Calls

\* A mutation ends without a commit.
LEMMA DeclineKeeps ==
    ASSUME CloudInv, NEW m \in mutation, NEW result, NEW save, Decline(m, result, save),
           asked[m.call.op].kind = "put" /\ result = "saved"
               => m.call.op \in DOMAIN saves.receipts /\ save = Saved(m.call.op)
    PROVE  CloudInv'
<1>1. mutation' = {} /\ UNCHANGED <<asked, tries, sent, queued, server, generation, saves, rows, blobs, refs, landed>>
  BY MutationFacts DEF Decline, tableVars
<1>2. Placed' /\ InFlight' \subseteq InFlight
  BY <1>1, PlacedLeaving DEF CloudInv
<1>3. m.call \in InFlight /\ InFlight' \subseteq InFlight \ {m.call}
  BY <1>1, <1>2, MutationFacts DEF InFlight, CloudInv, Placed
<1>4. Answer(m.call, result, save)
  BY DEF Decline
<1>5. Settled'
  BY <1>1, <1>3, <1>4, SettledLeaving DEF CloudInv
<1>6. Serial'
  BY <1>1 DEF CloudInv, Serial, NoneOvertaken
<1>7. Stored' /\ Sound(saves)' /\ CurrentIsNewest'
  BY <1>1 DEF CloudInv, Stored, PayloadsResolve, IndexExact, Indexed, Count, Sound, CurrentIsNewest
<1> QED BY <1>2, <1>5, <1>6, <1>7 DEF CloudInv

\* A commit writes the tables of the slot it publishes.
LEMMA CommitKeeps ==
    ASSUME CloudInv, NEW m \in mutation, NEW draft, NEW D, NEW W, Commit(m, draft, D, W),
           IsFiniteSet(DOMAIN W), W \in [DOMAIN W -> Contents],
           draft.history = After(saves.history, D, W)
    PROVE  /\ Placed' /\ Serial' /\ Stored'
           /\ m.call \in InFlight /\ InFlight' \subseteq InFlight \ {m.call}
           /\ saves' = draft /\ landed' = [landed EXCEPT ![m.call.op] = @ + 1]
           /\ UNCHANGED <<asked, tries>>
<1>1. /\ mutation' = {} /\ saves' = draft /\ Write(D, W)
      /\ UNCHANGED <<asked, tries, sent, queued, server>>
      /\ landed' = [landed EXCEPT ![m.call.op] = @ + 1]
  BY MutationFacts DEF Commit
<1>2. Placed' /\ InFlight' \subseteq InFlight
  BY <1>1, PlacedLeaving DEF CloudInv
<1>3. m.call \in InFlight /\ InFlight' \subseteq InFlight \ {m.call}
  BY <1>1, <1>2, MutationFacts DEF InFlight, CloudInv, Placed
<1>4. Serial'
  BY <1>1, MutationFacts DEF CloudInv, Serial, NoneOvertaken
<1>5. Stored'
  <2>1. /\ rows = saves.history /\ blobs = {rows[r] : r \in DOMAIN rows}
        /\ refs = Indexed(rows)
        /\ IsFiniteSet(DOMAIN rows) /\ rows \in [DOMAIN rows -> Contents]
    BY MutationFacts DEF CloudInv, Stored, PayloadsResolve, IndexExact, Sound
  <2>2. /\ rows' = After(rows, D, W) /\ blobs' = {rows'[r] : r \in DOMAIN rows'}
        /\ refs' = Indexed(rows')
    BY <1>1, <2>1, TablesAfterWrite
  <2>3. rows' = saves'.history
    BY <1>1, <2>1, <2>2
  <2> QED BY <2>2, <2>3 DEF Stored, PayloadsResolve, IndexExact, Indexed, Count
<1> QED BY <1>1, <1>2, <1>3, <1>4, <1>5

\* A new revision, uploaded or restored.
LEMMA SaveKeeps ==
    ASSUME CloudInv, NEW m \in mutation, NEW d \in Prunes(saves), NEW content \in Contents,
           NEW o, NEW draft, draft = Appended(saves, d, content) \/ draft = Receipted(Appended(saves, d, content), o),
           CommitSave(m, draft, d, content)
    PROVE  /\ Placed' /\ Serial' /\ Stored' /\ Sound(saves') /\ CurrentIsNewest'
           /\ m.call \in InFlight /\ InFlight' \subseteq InFlight \ {m.call}
           /\ saves' = draft /\ landed' = [landed EXCEPT ![m.call.op] = @ + 1]
           /\ UNCHANGED <<asked, tries>>
           /\ Current(draft) = [revision |-> saves.current + 1, content |-> content]
           /\ Current(Appended(saves, d, content)) = Current(draft)
           /\ Answer(m.call, "saved", Current(draft))
<1> DEFINE W == [r \in {draft.current} |-> content]
<1>1. Commit(m, draft, d, W) /\ Answer(m.call, "saved", Current(draft))
  BY DEF CommitSave
<1>2. saves' = draft
  BY <1>1 DEF Commit
<1>3. /\ Sound(saves') /\ CurrentIsNewest'
      /\ draft.current = saves.current + 1
      /\ Current(draft) = [revision |-> saves.current + 1, content |-> content]
      /\ Current(Appended(saves, d, content)) = Current(draft)
      /\ draft.history = After(saves.history, d, [r \in {saves.current + 1} |-> content])
  <2>1. saves' = Appended(saves, d, content) \/ saves' = Receipted(Appended(saves, d, content), o)
    BY <1>2
  <2>2. Sound(saves) /\ CurrentIsNewest  BY DEF CloudInv
  <2>3. /\ Sound(saves') /\ CurrentIsNewest'
        /\ Current(Appended(saves, d, content)) =
               [revision |-> saves.current + 1, content |-> content]
        /\ Current(saves') = Current(Appended(saves, d, content))
        /\ saves'.current = saves.current + 1
        /\ saves'.history =
               After(saves.history, d, [r \in {saves.current + 1} |-> content])
    BY <2>1, <2>2, AppendKeeps
  <2> QED BY <1>2, <2>3
<1>4. /\ IsFiniteSet(DOMAIN W) /\ W \in [DOMAIN W -> Contents]
      /\ draft.history = After(saves.history, d, W)
  BY <1>3, FS_Singleton
<1> HIDE DEF W
<1>5. /\ Placed' /\ Serial' /\ Stored'
      /\ m.call \in InFlight /\ InFlight' \subseteq InFlight \ {m.call}
      /\ landed' = [landed EXCEPT ![m.call.op] = @ + 1]
      /\ UNCHANGED <<asked, tries>>
  BY <1>1, <1>4, CommitKeeps
<1> QED BY <1>1, <1>2, <1>3, <1>5

-----------------------------------------------------------------------------
(* The invariant *)

LEMMA InvInit == CloudInit => CloudInv
<1> SUFFICES ASSUME CloudInit PROVE CloudInv
  OBVIOUS
<1> USE DEF CloudInit, SlotInit
<1>1. /\ IsFiniteSet({}) /\ Cardinality({}) = 0
      /\ DOMAIN Nothing = {} /\ Nothing \in [{} -> Contents]
      /\ Nothing = [o \in {} |-> Nothing[o]]
  BY FS_EmptySet DEF Nothing
<1>2. Sound(saves) /\ CurrentIsNewest
  <2> HIDE DEF Nothing
  <2> QED BY <1>1, SlotAssumption DEF Sound, NoSaves, CurrentIsNewest
<1>3. Placed /\ Serial
  BY DEF Placed, InFlight, Serial, NoneOvertaken
<1>4. Settled
  <2>1. \A o \in Ops : asked[o] = Unasked /\ reply[o] = None /\ landed[o] = 0 /\ tries[o] = 0
    OBVIOUS
  <2>2. Unasked.kind # "put"  BY DEF Unasked
  <2>3. DOMAIN saves.receipts = {} /\ InFlight = {}
    BY <1>1 DEF NoSaves, InFlight
  <2> QED BY <2>1, <2>2, <2>3 DEF Settled, TruthfulReplies
<1>5. Stored
  BY <1>1 DEF Stored, PayloadsResolve, IndexExact, NoSaves
<1> QED BY <1>2, <1>3, <1>4, <1>5 DEF CloudInv

LEMMA InvStep == CloudInv /\ [CloudNext]_cloudVars => CloudInv'
<1> SUFFICES ASSUME CloudInv, [CloudNext]_cloudVars PROVE CloudInv'
  OBVIOUS
<1> USE DEF callVars, tableVars
<1>1. ASSUME NEW o \in Ops, NEW q \in Requests, Ask(o, q) PROVE CloudInv'
  <2>1. /\ asked[o] = Unasked /\ asked' = [asked EXCEPT ![o] = q]
        /\ tries' = [tries EXCEPT ![o] = 1] /\ sent' = sent \union {[op |-> o, try |-> 1]}
        /\ UNCHANGED <<queued, reply, server, mutation, generation, saves, rows, blobs, refs, landed>>
    BY <1>1 DEF Ask, SlotAsk
  <2>2. /\ tries \in [Ops -> Nat] /\ asked \in [Ops -> Requests \union {Unasked}]
        /\ tries[o] = 0 /\ q # Unasked /\ landed[o] = 0 /\ reply[o] = None
    BY <2>1, RequestShape DEF CloudInv, Placed, Settled
  <2>3. /\ [op |-> o, try |-> 1] \in Calls
        /\ \A call \in InFlight : call.op # o
    <3>1. \A call \in InFlight : call.try \in Nat \ {0} /\ call.try <= tries[call.op]
      BY CloudAssumption DEF CloudInv, Placed, Calls
    <3> QED BY <2>2, <3>1, CloudAssumption DEF Calls
  <2>4. InFlight' = InFlight \union {[op |-> o, try |-> 1]}
    BY <2>1 DEF InFlight
  <2>5. Placed'
    <3>1. tries' \in [Ops -> Nat] /\ InFlight' \subseteq Calls
      BY <2>1, <2>2, <2>3, <2>4 DEF CloudInv, Placed
    <3>2. [op |-> o, try |-> 1] \notin InFlight
      BY <2>3
    <3>3. sent' \intersect queued' = {} /\ \A m \in mutation' : m.call \notin sent' \union queued'
      BY <2>1, <3>2 DEF CloudInv, Placed, InFlight
    <3>4. \A call \in InFlight' : call.try <= tries'[call.op]
      BY <2>1, <2>2, <2>3, <2>4 DEF CloudInv, Placed, Calls
    <3>5. \A x \in Ops : asked'[x] = Unasked <=> tries'[x] = 0
      BY <2>1, <2>2 DEF CloudInv, Placed
    <3> QED BY <3>1, <3>3, <3>4, <3>5 DEF Placed
  <2>6. Settled'
    <3>1. /\ asked' \in [Ops -> Requests \union {Unasked}]
          /\ asked'[o] = q /\ \A x \in Ops : x # o => asked'[x] = asked[x] /\ tries'[x] = tries[x]
      BY <2>1, <2>2
    <3>2. o \notin DOMAIN saves.receipts
      BY <2>1 DEF CloudInv, Settled, Unasked
    <3>3. \A x \in DOMAIN saves.receipts :
              x \in Ops /\ asked'[x].kind = "put" /\ saves.receipts[x] = Saved(x)'
      BY <3>1, <3>2 DEF CloudInv, Settled, Saved
    <3>4. \A call \in InFlight' : tries'[call.op] = 1 => reply[call.op] = None /\ landed[call.op] = 0
      <4>1. \A call \in InFlight : call.op \in Ops  BY DEF CloudInv, Placed, Calls
      <4> QED BY <2>2, <2>3, <2>4, <3>1, <4>1 DEF CloudInv, Settled
    <3>5. TruthfulReplies'
      BY <2>1, <2>2, <3>1 DEF CloudInv, Settled, TruthfulReplies
    <3>6. \A x \in Ops : /\ asked'[x] = Unasked => landed[x] = 0 /\ reply[x] = None
                         /\ asked'[x].kind = "put" => landed[x] = IF x \in DOMAIN saves.receipts THEN 1 ELSE 0
      BY <2>2, <3>1, <3>2 DEF CloudInv, Settled
    <3> QED BY <2>1, <3>1, <3>3, <3>4, <3>5, <3>6 DEF CloudInv, Settled
  <2> QED BY <2>1, <2>5, <2>6 DEF CloudInv, Serial, NoneOvertaken, Stored, PayloadsResolve,
             IndexExact, Indexed, Count, Sound, CurrentIsNewest
<1>2. ASSUME NEW o \in Ops, AskAgain(o) PROVE CloudInv'
  <2> DEFINE new == [op |-> o, try |-> tries[o] + 1]
  <2>1. /\ asked[o].kind = "put" /\ tries[o] < MaxTries
        /\ tries' = [tries EXCEPT ![o] = @ + 1] /\ sent' = sent \union {new}
        /\ reply' = [reply EXCEPT ![o] = None]
        /\ UNCHANGED <<asked, queued, server, mutation, generation, saves, rows, blobs, refs, landed>>
    BY <1>2 DEF AskAgain
  <2>2. /\ tries \in [Ops -> Nat] /\ tries[o] # 0
        /\ reply = [x \in Ops |-> reply[x]]
    BY <2>1 DEF CloudInv, Placed, Settled, Unasked
  <2>3. new \in Calls /\ new \notin InFlight
    <3>1. \A call \in InFlight : call.try <= tries[call.op]
      BY DEF CloudInv, Placed
    <3> QED BY <2>1, <2>2, <3>1, CloudAssumption DEF Calls
  <2>4. InFlight' = InFlight \union {new}
    BY <2>1 DEF InFlight
  <2>5. tries'[o] = tries[o] + 1 /\ \A x \in Ops : x # o => tries'[x] = tries[x] /\ reply'[x] = reply[x]
    BY <2>1, <2>2
  <2>6. Placed'
    <3>1. tries' \in [Ops -> Nat] /\ InFlight' \subseteq Calls
      BY <2>1, <2>2, <2>3, <2>4 DEF CloudInv, Placed
    <3>2. sent' \intersect queued' = {} /\ \A m \in mutation' : m.call \notin sent' \union queued'
      BY <2>1, <2>3 DEF CloudInv, Placed, InFlight
    <3>3. \A call \in InFlight' : call.try <= tries'[call.op]
      <4>1. \A call \in InFlight : call.op \in Ops /\ call.try \in Nat /\ call.try <= tries[call.op]
        BY CloudAssumption DEF CloudInv, Placed, Calls
      <4> QED BY <2>2, <2>4, <2>5, <4>1
    <3>4. \A x \in Ops : asked'[x] = Unasked <=> tries'[x] = 0
      BY <2>1, <2>2, <2>5 DEF CloudInv, Placed, Unasked
    <3> QED BY <3>1, <3>2, <3>3, <3>4 DEF Placed
  <2>7. Settled'
    <3>1. reply' = [x \in Ops |-> reply'[x]] /\ reply'[o] = None
      BY <2>1, <2>2
    <3>2. \A call \in InFlight' : tries'[call.op] = 1 => reply'[call.op] = None /\ landed[call.op] = 0
      <4>1. \A call \in InFlight : call.op \in Ops  BY DEF CloudInv, Placed, Calls
      <4> QED BY <2>2, <2>4, <2>5, <4>1 DEF CloudInv, Settled
    <3>3. TruthfulReplies'
      BY <2>1, <2>5, <3>1 DEF CloudInv, Settled, TruthfulReplies
    <3>4. \A x \in Ops : asked[x] = Unasked => landed[x] = 0 /\ reply'[x] = None
      BY <2>5, <3>1 DEF CloudInv, Settled
    <3> QED BY <2>1, <3>1, <3>2, <3>3, <3>4 DEF CloudInv, Settled, Saved
  <2> QED BY <2>1, <2>6, <2>7 DEF CloudInv, Serial, NoneOvertaken, Stored, PayloadsResolve,
             IndexExact, Indexed, Count, Sound, CurrentIsNewest
<1>3. ASSUME NEW call \in sent, Refuse(call) PROVE CloudInv'
  <2>1. /\ sent' = sent \ {call} /\ Answer(call, "refused", NoEntry)
        /\ UNCHANGED <<asked, tries, queued, server, mutation, generation, saves, rows, blobs, refs, landed>>
    BY <1>3 DEF Refuse
  <2>2. Placed' /\ InFlight' \subseteq InFlight
    BY <2>1, PlacedLeaving DEF CloudInv
  <2>3. call \in InFlight /\ InFlight' \subseteq InFlight \ {call}
    BY <2>1, <2>2 DEF InFlight, CloudInv, Placed
  <2>4. Settled'
    BY <2>1, <2>3, SettledLeaving DEF CloudInv
  <2> QED BY <2>1, <2>2, <2>4 DEF CloudInv, Serial, NoneOvertaken, Stored, PayloadsResolve,
             IndexExact, Indexed, Count, Sound, CurrentIsNewest
<1>4. ASSUME NEW call \in sent, Enqueue(call) PROVE CloudInv'
  <2>1. /\ server = "up" /\ sent' = sent \ {call} /\ queued' = queued \union {call}
        /\ UNCHANGED <<asked, tries, reply, server, mutation, generation, saves, rows, blobs, refs, landed>>
    BY <1>4 DEF Enqueue
  <2>2. InFlight' = InFlight
    BY <2>1 DEF InFlight
  <2>3. Placed'
    BY <2>1, <2>2 DEF CloudInv, Placed
  <2>4. Settled'
    BY <2>1, <2>2, SettledKept DEF CloudInv
  <2> QED BY <2>1, <2>3, <2>4 DEF CloudInv, Serial, NoneOvertaken, Stored, PayloadsResolve,
             IndexExact, Indexed, Count, Sound, CurrentIsNewest
<1>5. ASSUME NEW call \in queued, Start(call) PROVE CloudInv'
  <2>1. /\ mutation = {} /\ queued' = queued \ {call}
        /\ mutation' = {[call |-> call, draft |-> saves, base |-> generation]}
        /\ UNCHANGED <<asked, tries, sent, reply, server, generation, saves, rows, blobs, refs, landed>>
    BY <1>5 DEF Start, StartsNext
  <2>2. InFlight' = InFlight
    BY <2>1 DEF InFlight
  <2>3. Placed'
    BY <2>1, <2>2 DEF CloudInv, Placed
  <2>4. Settled'
    BY <2>1, <2>2, SettledKept DEF CloudInv
  <2>5. server # "down"
    BY DEF CloudInv, Serial
  <2> QED BY <2>1, <2>3, <2>4, <2>5 DEF CloudInv, Serial, NoneOvertaken, Stored, PayloadsResolve,
             IndexExact, Indexed, Count, Sound, CurrentIsNewest
<1>6. ASSUME NEW call \in queued, Cancel(call) PROVE CloudInv'
  <2>1. /\ queued' = queued \ {call}
        /\ Answer(call, "refused", NoEntry) \/ UNCHANGED reply
        /\ UNCHANGED <<asked, tries, sent, server, mutation, generation, saves, rows, blobs, refs, landed>>
    BY <1>6 DEF Cancel
  <2>2. Placed' /\ InFlight' \subseteq InFlight
    BY <2>1, PlacedLeaving DEF CloudInv
  <2>3. call \in InFlight /\ InFlight' \subseteq InFlight \ {call}
    BY <2>1, <2>2 DEF InFlight, CloudInv, Placed
  <2>4. Settled'
    BY <2>1, <2>3, SettledLeaving DEF CloudInv
  <2> QED BY <2>1, <2>2, <2>4 DEF CloudInv, Serial, NoneOvertaken, Stored, PayloadsResolve,
             IndexExact, Indexed, Count, Sound, CurrentIsNewest
<1>7. ASSUME NEW m \in mutation, Replay(m) \/ Conflict(m) \/ TurnDown(m) \/ CommitFails(m)
      PROVE  CloudInv'
  <2>1. CASE Replay(m)
    <3>1. m.call.op \in DOMAIN saves.receipts /\ Receipt(m) = Saved(m.call.op)
      BY <2>1, MutationFacts DEF Replay, Replayed, Receipt, CloudInv, Settled
    <3> QED BY <2>1, <3>1, DeclineKeeps DEF Replay
  <2>2. CASE Conflict(m)
    BY <2>2, DeclineKeeps DEF Conflict
  <2>3. CASE TurnDown(m)
    BY <2>3, DeclineKeeps DEF TurnDown
  <2>4. CASE CommitFails(m)
    BY <2>4, DeclineKeeps DEF CommitFails
  <2> QED BY <1>7, <2>1, <2>2, <2>3, <2>4
<1>8. ASSUME NEW m \in mutation, Put(m) PROVE CloudInv'
  <2> DEFINE o == m.call.op
             q == asked[o]
  <2>1. /\ o \in Ops /\ q \in Requests /\ q.kind = "put" /\ m.draft = saves
        /\ o \notin DOMAIN saves.receipts /\ q.expected = saves.current
        /\ q.content \in Contents
    BY <1>8, MutationFacts, RequestShape DEF Put, Replayed, Moved, Outdated
  <2>2. PICK d \in Prunes(saves) :
            CommitSave(m, Receipted(Appended(saves, d, q.content), o), d, q.content)
    BY <1>8, <2>1 DEF Put
  <2> DEFINE t == Appended(saves, d, q.content)
  <2> HIDE DEF o, q
  <2>3. /\ Placed' /\ Serial' /\ Stored' /\ Sound(saves') /\ CurrentIsNewest'
        /\ m.call \in InFlight /\ InFlight' \subseteq InFlight \ {m.call}
        /\ saves' = Receipted(t, o) /\ landed' = [landed EXCEPT ![m.call.op] = @ + 1]
        /\ UNCHANGED <<asked, tries>>
        /\ Current(Receipted(t, o)) = [revision |-> saves.current + 1, content |-> q.content]
        /\ Current(t) = Current(Receipted(t, o))
        /\ Answer(m.call, "saved", Current(Receipted(t, o)))
    BY <2>1, <2>2, SaveKeeps
  <2>4. Current(t) = Saved(o)
    BY <2>1, <2>3 DEF Saved, q
  <2>5. saves'.receipts = [x \in DOMAIN saves.receipts \union {o} |->
                               IF x = o THEN Saved(x) ELSE saves.receipts[x]]
    <3>1. t = [current |-> t.current, history |-> t.history, receipts |-> saves.receipts]
      BY DEF Appended
    <3> DEFINE added == [x \in DOMAIN t.receipts \union {o} |->
                             IF x = o THEN Current(t) ELSE t.receipts[x]]
    <3>2. saves' = [t EXCEPT !.receipts = added]
      BY <2>3 DEF Receipted
    <3>3. t.receipts = saves.receipts
      BY DEF Appended
    <3> HIDE DEF t, added
    <3>4. saves'.receipts = added
      BY <3>1, <3>2, ReceiptUpdate
    <3> QED BY <2>4, <3>3, <3>4 DEF added
  <2>6. Settled'
    <3> HIDE DEF t
    <3>1. Answer(m.call, "saved", Saved(o))
      BY <2>3, <2>4
    <3> QED BY <2>1, <2>3, <2>5, <3>1, SettledCommit DEF CloudInv, o, q
  <2> QED BY <2>3, <2>6 DEF CloudInv
<1>9. ASSUME NEW m \in mutation, Restore(m) PROVE CloudInv'
  <2> DEFINE q == asked[m.call.op]
             content == saves.history[q.source]
  <2>1. /\ q.kind = "restore" /\ m.draft = saves
        /\ q.source \in DOMAIN saves.history /\ content \in Contents
    BY <1>9, MutationFacts DEF Restore, CloudInv, Sound
  <2>2. PICK d \in Prunes(saves) : CommitSave(m, Appended(saves, d, content), d, content)
    BY <1>9, <2>1 DEF Restore
  <2> DEFINE t == Appended(saves, d, content)
  <2> HIDE DEF q, content
  <2>3. /\ Placed' /\ Serial' /\ Stored' /\ Sound(saves') /\ CurrentIsNewest'
        /\ m.call \in InFlight /\ InFlight' \subseteq InFlight \ {m.call}
        /\ saves' = t /\ landed' = [landed EXCEPT ![m.call.op] = @ + 1]
        /\ UNCHANGED <<asked, tries>>
        /\ Answer(m.call, "saved", Current(t))
    BY <2>1, <2>2, SaveKeeps
  <2>4. saves'.receipts = saves.receipts
    BY <2>3 DEF Appended
  <2>5. Settled'
    <3> HIDE DEF t
    <3> QED BY <2>1, <2>3, <2>4, SettledCommit DEF CloudInv, q
  <2> QED BY <2>3, <2>5 DEF CloudInv
<1>10. ASSUME NEW m \in mutation, Delete(m) PROVE CloudInv'
  <2>1. /\ asked[m.call.op].kind = "delete" /\ m.draft = saves
        /\ Commit(m, Emptied(saves), DOMAIN saves.history, Nothing)
        /\ Answer(m.call, "deleted", Current(saves))
    <3>1. m.draft = saves  BY MutationFacts
    <3> QED BY <1>10, <3>1 DEF Delete
  <2>2. saves' = Emptied(saves)
    BY <2>1 DEF Commit
  <2>3. /\ Sound(saves') /\ CurrentIsNewest' /\ saves'.receipts = saves.receipts
        /\ Emptied(saves).history = After(saves.history, DOMAIN saves.history, Nothing)
    BY <2>2, EmptyKeeps DEF CloudInv
  <2>4. IsFiniteSet(DOMAIN Nothing) /\ Nothing \in [DOMAIN Nothing -> Contents]
    BY FS_EmptySet DEF Nothing
  <2>5. /\ Placed' /\ Serial' /\ Stored'
        /\ m.call \in InFlight /\ InFlight' \subseteq InFlight \ {m.call}
        /\ landed' = [landed EXCEPT ![m.call.op] = @ + 1]
        /\ UNCHANGED <<asked, tries>>
    BY <2>1, <2>3, <2>4, CommitKeeps
  <2>6. Settled'
    BY <2>1, <2>3, <2>5, SettledCommit DEF CloudInv
  <2> QED BY <2>3, <2>5, <2>6 DEF CloudInv
<1>11. CASE Close \/ Stop \/ Boot
  <2>1. /\ UNCHANGED <<asked, tries, sent, queued, reply, mutation, saves, rows, blobs, landed>>
        /\ server' \in {"up", "closing", "down"}
        /\ server' = "down" => mutation = {} /\ queued = {}
        /\ \/ server # "down" /\ UNCHANGED <<generation, refs>>
           \/ server = "down" /\ refs' = Indexed(rows)
    BY <1>11 DEF Close, Stop, Boot
  <2>2. Placed' /\ InFlight' \subseteq InFlight
    BY <2>1, PlacedLeaving DEF CloudInv
  <2>3. Settled'
    BY <2>1, <2>2, SettledKept DEF CloudInv
  <2>4. Serial'
    BY <2>1 DEF CloudInv, Serial, NoneOvertaken
  <2>5. Stored'
    BY <2>1 DEF CloudInv, Stored, PayloadsResolve, IndexExact, Indexed, Count
  <2> QED BY <2>1, <2>2, <2>3, <2>4, <2>5 DEF CloudInv, Sound, CurrentIsNewest
<1>12. CASE Crash
  <2>1. /\ UNCHANGED <<asked, tries, sent, reply, generation, saves, rows, blobs, refs, landed>>
        /\ server' = "down" /\ queued' = {} /\ mutation' = {}
    BY <1>12 DEF Crash
  <2>2. Placed' /\ InFlight' \subseteq InFlight
    BY <2>1, PlacedLeaving DEF CloudInv
  <2>3. Settled'
    BY <2>1, <2>2, SettledKept DEF CloudInv
  <2> QED BY <2>1, <2>2, <2>3 DEF CloudInv, Serial, NoneOvertaken, Stored, PayloadsResolve,
             IndexExact, Sound, CurrentIsNewest
<1>13. CASE UNCHANGED cloudVars
  <2>1. UNCHANGED <<asked, tries, sent, queued, reply, server, mutation, generation, saves, rows, blobs, refs, landed>>
    BY <1>13 DEF cloudVars
  <2>2. Placed' /\ InFlight' \subseteq InFlight
    BY <2>1, PlacedLeaving DEF CloudInv
  <2>3. Settled'
    BY <2>1, <2>2, SettledKept DEF CloudInv
  <2> QED BY <2>1, <2>2, <2>3 DEF CloudInv, Serial, NoneOvertaken, Stored, PayloadsResolve,
             IndexExact, Indexed, Count, Sound, CurrentIsNewest
<1> QED BY <1>1, <1>2, <1>3, <1>4, <1>5, <1>6, <1>7, <1>8, <1>9, <1>10, <1>11, <1>12, <1>13
        DEF CloudNext, ServerStep, Mishap, AnyClient, Finish

-----------------------------------------------------------------------------
(* The server implements the slot *)

\* A step of the server is a step of the slot, or no step of it.
LEMMA SlotStep == CloudInv /\ [CloudNext]_cloudVars => [SlotNext]_slotVars
<1> SUFFICES ASSUME CloudInv, [CloudNext]_cloudVars PROVE [SlotNext]_slotVars
  OBVIOUS
<1> USE DEF callVars, tableVars, slotVars
<1>1. ASSUME NEW o \in Ops, NEW q \in Requests, Ask(o, q) PROVE SlotNext
  BY <1>1 DEF Ask, SlotNext
<1>2. ASSUME NEW o \in Ops, AskAgain(o) PROVE UNCHANGED slotVars
  BY <1>2 DEF AskAgain
<1>3. ASSUME NEW m \in mutation, Replay(m) \/ Conflict(m) \/ TurnDown(m) \/ CommitFails(m)
      PROVE  UNCHANGED slotVars
  BY <1>3 DEF Replay, Conflict, TurnDown, CommitFails, Decline
<1>4. ASSUME NEW m \in mutation, Put(m) PROVE SlotPut(m.call.op)
  <2> DEFINE q == asked[m.call.op]
  <2>1. m.draft = saves  BY MutationFacts
  <2>2. /\ q.kind = "put" /\ ~Outdated(saves, q) /\ m.call.op \notin DOMAIN saves.receipts
        /\ \E d \in Prunes(saves) :
               CommitSave(m, Receipted(Appended(saves, d, q.content), m.call.op), d, q.content)
    BY <1>4, <2>1 DEF Put, Replayed, Moved
  <2> QED BY <2>2 DEF SlotPut, CommitSave, Commit
<1>5. ASSUME NEW m \in mutation, Restore(m) PROVE SlotRestore(m.call.op)
  <2> DEFINE q == asked[m.call.op]
  <2>1. m.draft = saves  BY MutationFacts
  <2>2. /\ q.kind = "restore" /\ ~Outdated(saves, q) /\ q.source \in DOMAIN saves.history
        /\ \E d \in Prunes(saves) :
               CommitSave(m, Appended(saves, d, saves.history[q.source]), d,
                          saves.history[q.source])
    BY <1>5, <2>1 DEF Restore, Moved
  <2> QED BY <2>2 DEF SlotRestore, CommitSave, Commit
<1>6. ASSUME NEW m \in mutation, Delete(m) PROVE SlotDelete(m.call.op)
  <2>1. m.draft = saves  BY MutationFacts
  <2> QED BY <1>6, <2>1 DEF Delete, Moved, SlotDelete, Commit
<1>7. \A m \in mutation : m.call.op \in Ops
  BY MutationFacts
<1>8. CASE \/ \E call \in sent : Enqueue(call) \/ Refuse(call)
           \/ \E call \in queued : Start(call) \/ Cancel(call)
           \/ Close \/ Stop \/ Boot \/ Crash
  BY <1>8 DEF Enqueue, Refuse, Start, Cancel, Close, Stop, Boot, Crash
<1>9. CASE UNCHANGED cloudVars
  BY <1>9 DEF cloudVars
<1> QED BY <1>1, <1>2, <1>3, <1>4, <1>5, <1>6, <1>7, <1>8, <1>9
        DEF CloudNext, ServerStep, Mishap, AnyClient, Finish, SlotNext

\* The invariant holds in every reachable state.
THEOREM CloudInvariant == CloudSpec => []CloudInv
<1> QED BY InvInit, InvStep, PTL DEF CloudSpec

\* Every revision of the history has its payload and no payload outlives its revisions,
\* through uploads, pruning, restoration, deletion, failed commits and crashes.
THEOREM PayloadsAlwaysResolve == CloudSpec => []PayloadsResolve
<1>1. CloudInv => PayloadsResolve  BY DEF CloudInv, Stored
<1> QED BY <1>1, CloudInvariant, PTL

\* The reference counts a commit projects are those a start would count.
THEOREM IndexAlwaysExact == CloudSpec => []IndexExact
<1>1. CloudInv => IndexExact  BY DEF CloudInv, Stored
<1> QED BY <1>1, CloudInvariant, PTL

\* What a client is told of its upload is so, however often the upload is delivered.
THEOREM RepliesTruthful == CloudSpec => []TruthfulReplies
<1>1. CloudInv => TruthfulReplies  BY DEF CloudInv, Settled
<1> QED BY <1>1, CloudInvariant, PTL

\* The current save is the newest of a bounded history, whatever the quota prunes.
THEOREM CurrentAlwaysNewest == CloudSpec => []CurrentIsNewest
<1>1. CloudInv => CurrentIsNewest  BY DEF CloudInv
<1> QED BY <1>1, CloudInvariant, PTL

\* The queue serialises mutations: the check of the generation at a commit never fails.
THEOREM NeverOvertaken == CloudSpec => []NoneOvertaken
<1>1. CloudInv => NoneOvertaken  BY DEF CloudInv, Serial
<1> QED BY <1>1, CloudInvariant, PTL

\* An upload lands at most once, however often it is delivered.
THEOREM LandsOnce == CloudSpec => []OnceOnly
<1>1. CloudInv => OnceOnly  BY DEF CloudInv, Settled, OnceOnly
<1> QED BY <1>1, CloudInvariant, PTL

\* The queued, drafted and committed mutations of the server, with crashes, lost answers
\* and repeated deliveries, are the atomic operations of CloudSlot.
THEOREM ServerImplementsSlot == CloudSpec => ImplementsSlot
<1>1. CloudInit => SlotInit
  BY DEF CloudInit, SlotInit
<1> QED BY <1>1, CloudInvariant, SlotStep, PTL DEF CloudSpec, ImplementsSlot, SlotSpec

-----------------------------------------------------------------------------
(* Types *)

\* A save as a client is shown it.
Entries == [revision : Nat, content : Contents \union {None}]

\* What the types need beside the invariant: the bounds, and answers that are answers.
Typed ==
    /\ tries \in [Ops -> 0..MaxTries]
    /\ reply \in [Ops -> Replies \union {None}]
    /\ generation \in Nat
    /\ faults \in 0..MaxFaults

LEMMA CurrentTyped == CloudInv => Current(saves) \in Entries
<1> SUFFICES ASSUME CloudInv PROVE Current(saves) \in Entries
  OBVIOUS
<1>1. saves.current \in Nat /\ saves.history \in [DOMAIN saves.history -> Contents]
  BY DEF CloudInv, Sound
<1>2. saves.current # 0 => saves.current \in DOMAIN saves.history
  BY DEF CloudInv, CurrentIsNewest
<1> QED BY <1>1, <1>2 DEF Current, NoEntry, Entries

\* The receipt of an upload is the save it became.
LEMMA ReceiptTyped ==
    ASSUME CloudInv, NEW m \in mutation, Replayed(m)
    PROVE  Receipt(m) \in Entries
<1>1. /\ asked[m.call.op] \in Requests /\ asked[m.call.op].kind = "put"
      /\ Receipt(m) = Saved(m.call.op)
  BY MutationFacts DEF Replayed, Receipt, CloudInv, Settled
<1> QED BY <1>1, RequestShape DEF Saved, Entries

LEMMA AnswerTyped ==
    ASSUME Typed, NEW call, NEW result \in {"saved", "deleted", "conflict", "refused", "failed"},
           NEW save \in Entries, Answer(call, result, save)
    PROVE  reply' \in [Ops -> Replies \union {None}]
<1>1. [result |-> result, save |-> save] \in Replies
  BY DEF Replies, Entries
<1> QED BY <1>1 DEF Answer, Typed

LEMMA TypedStep == CloudInv /\ Typed /\ [CloudNext]_cloudVars => Typed'
<1> SUFFICES ASSUME CloudInv, Typed, [CloudNext]_cloudVars PROVE Typed'
  OBVIOUS
<1> USE DEF callVars, tableVars
<1>0. NoEntry \in Entries
  BY DEF NoEntry, Entries
<1>1. ASSUME NEW o \in Ops, NEW q \in Requests, Ask(o, q) PROVE Typed'
  <2>1. tries' = [tries EXCEPT ![o] = 1] /\ 1 \in 0..MaxTries
    BY <1>1, CloudAssumption DEF Ask
  <2>2. UNCHANGED <<reply, generation, faults>>
    BY <1>1 DEF Ask
  <2> QED BY <2>1, <2>2 DEF Typed
<1>2. ASSUME NEW o \in Ops, AskAgain(o) PROVE Typed'
  <2>1. /\ tries' = [tries EXCEPT ![o] = @ + 1] /\ tries[o] < MaxTries
        /\ reply' = [reply EXCEPT ![o] = None]
        /\ UNCHANGED <<generation, faults>>
    BY <1>2 DEF AskAgain
  <2>2. tries[o] + 1 \in 0..MaxTries
    BY <2>1, CloudAssumption DEF Typed
  <2> QED BY <2>1, <2>2 DEF Typed
<1>3. ASSUME NEW call \in sent, Refuse(call) PROVE Typed'
  <2>1. Answer(call, "refused", NoEntry) /\ UNCHANGED <<tries, generation, faults>>
    BY <1>3 DEF Refuse
  <2> QED BY <1>0, <2>1, AnswerTyped DEF Typed
<1>4. ASSUME NEW call \in queued, Cancel(call) PROVE Typed'
  <2>1. /\ Answer(call, "refused", NoEntry) \/ UNCHANGED reply
        /\ UNCHANGED <<tries, generation, faults>>
    BY <1>4 DEF Cancel
  <2> QED BY <1>0, <2>1, AnswerTyped DEF Typed
<1>5. ASSUME NEW m \in mutation, Replay(m) \/ Conflict(m) \/ TurnDown(m) \/ CommitFails(m)
      PROVE  Typed'
  <2>1. UNCHANGED <<tries, generation>>
    BY <1>5 DEF Replay, Conflict, TurnDown, CommitFails, Decline
  <2>2. faults' \in 0..MaxFaults
    <3>1. CASE UNCHANGED faults
      BY <3>1 DEF Typed
    <3>2. CASE faults < MaxFaults /\ faults' = faults + 1
      BY <3>2, CloudAssumption DEF Typed
    <3> QED BY <1>5, <3>1, <3>2 DEF Replay, Conflict, TurnDown, CommitFails
  <2>3. reply' \in [Ops -> Replies \union {None}]
    <3>1. CASE Replay(m)
      BY <3>1, ReceiptTyped, AnswerTyped DEF Replay, Decline
    <3>2. CASE Conflict(m)
      <4>1. Answer(m.call, "conflict", Current(saves))
        BY <3>2, MutationFacts DEF Conflict, Decline
      <4> QED BY <4>1, CurrentTyped, AnswerTyped
    <3>3. CASE TurnDown(m) \/ CommitFails(m)
      BY <1>0, <3>3, AnswerTyped DEF TurnDown, CommitFails, Decline
    <3> QED BY <1>5, <3>1, <3>2, <3>3
  <2> QED BY <2>1, <2>2, <2>3 DEF Typed
<1>6. ASSUME NEW m \in mutation, Put(m) PROVE Typed'
  <2> DEFINE o == m.call.op
             q == asked[o]
  <2>1. m.draft = saves /\ q.content \in Contents /\ saves.current + 1 \in Nat
    BY <1>6, MutationFacts, RequestShape DEF Put, CloudInv, Sound
  <2>2. PICK d \in Prunes(saves) :
            CommitSave(m, Receipted(Appended(saves, d, q.content), o), d, q.content)
    BY <1>6, <2>1 DEF Put
  <2> DEFINE draft == Receipted(Appended(saves, d, q.content), o)
  <2> HIDE DEF o, q
  <2>3. /\ Current(draft) = [revision |-> saves.current + 1, content |-> q.content]
        /\ Answer(m.call, "saved", Current(draft))
    BY <2>1, <2>2, SaveKeeps
  <2>4. UNCHANGED <<tries, faults>> /\ generation' = generation + 1
    BY <2>2 DEF CommitSave, Commit
  <2> HIDE DEF draft
  <2>5. Current(draft) \in Entries
    BY <2>1, <2>3 DEF Entries
  <2>6. reply' \in [Ops -> Replies \union {None}]
    BY <2>3, <2>5, AnswerTyped
  <2> QED BY <2>4, <2>6 DEF Typed
<1>7. ASSUME NEW m \in mutation, Restore(m) PROVE Typed'
  <2> DEFINE q == asked[m.call.op]
             content == saves.history[q.source]
  <2>1. m.draft = saves /\ content \in Contents /\ saves.current + 1 \in Nat
    <3>1. m.draft = saves
      BY MutationFacts
    <3>2. q.source \in DOMAIN saves.history
      BY <1>7, <3>1 DEF Restore
    <3>3. Sound(saves)
      BY DEF CloudInv
    <3> HIDE DEF q
    <3> QED BY <3>1, <3>2, <3>3 DEF Sound
  <2>2. PICK d \in Prunes(saves) : CommitSave(m, Appended(saves, d, content), d, content)
    BY <1>7, <2>1 DEF Restore
  <2> DEFINE draft == Appended(saves, d, content)
  <2> HIDE DEF q, content
  <2>3. /\ Current(draft) = [revision |-> saves.current + 1, content |-> content]
        /\ Answer(m.call, "saved", Current(draft))
    BY <2>1, <2>2, SaveKeeps
  <2>4. UNCHANGED <<tries, faults>> /\ generation' = generation + 1
    BY <2>2 DEF CommitSave, Commit
  <2> HIDE DEF draft
  <2>5. Current(draft) \in Entries
    BY <2>1, <2>3 DEF Entries
  <2>6. reply' \in [Ops -> Replies \union {None}]
    BY <2>3, <2>5, AnswerTyped
  <2> QED BY <2>4, <2>6 DEF Typed
<1>8. ASSUME NEW m \in mutation, Delete(m) PROVE Typed'
  <2>1. /\ Answer(m.call, "deleted", Current(saves))
        /\ UNCHANGED <<tries, faults>> /\ generation' = generation + 1
    BY <1>8, MutationFacts DEF Delete, Commit
  <2>2. reply' \in [Ops -> Replies \union {None}]
    BY <2>1, CurrentTyped, AnswerTyped
  <2> QED BY <2>1, <2>2 DEF Typed
<1>9. CASE Crash
  <2>1. /\ faults < MaxFaults /\ faults' = faults + 1
        /\ UNCHANGED <<tries, reply, generation>>
    BY <1>9 DEF Crash
  <2>2. faults' \in 0..MaxFaults
    BY <2>1, CloudAssumption DEF Typed
  <2> QED BY <2>1, <2>2 DEF Typed
<1>10. CASE \/ \E call \in sent : Enqueue(call)
            \/ \E call \in queued : Start(call)
            \/ Close \/ Stop \/ Boot \/ UNCHANGED cloudVars
  <2>1. /\ UNCHANGED <<tries, reply, faults>>
        /\ generation' = generation \/ generation' = 0
    BY <1>10 DEF Enqueue, Start, Close, Stop, Boot, cloudVars
  <2> QED BY <2>1 DEF Typed
<1> QED BY <1>1, <1>2, <1>3, <1>4, <1>5, <1>6, <1>7, <1>8, <1>9, <1>10
        DEF CloudNext, ServerStep, Mishap, AnyClient, Finish

LEMMA TypesFollow == CloudInv /\ Typed => CloudTypeOK
<1> SUFFICES ASSUME CloudInv, Typed PROVE CloudTypeOK
  OBVIOUS
<1>1. /\ asked \in [Ops -> Requests \union {Unasked}] /\ landed \in [Ops -> Nat]
      /\ DOMAIN saves.receipts \subseteq Ops
  BY DEF CloudInv, Settled
<1>2. /\ sent \subseteq Calls /\ queued \subseteq Calls
      /\ \A m \in mutation : m.call \in Calls
  BY DEF CloudInv, Placed, InFlight
<1>3. /\ server \in {"up", "closing", "down"}
      /\ \A m \in mutation : m.base \in Nat
  BY DEF CloudInv, Serial, NoneOvertaken, Typed
<1>4. Cardinality(mutation) <= 1
  <2>1. CASE mutation = {}
    <3>1. Cardinality(mutation) = 0  BY <2>1, FS_EmptySet
    <3> QED BY <3>1
  <2>2. CASE mutation # {}
    <3>1. PICK m \in mutation : mutation = {m}  BY <2>2, MutationFacts
    <3>2. Cardinality(mutation) = 1  BY <3>1, FS_Singleton
    <3> QED BY <3>2
  <2> QED BY <2>1, <2>2
<1>5. /\ saves.current \in Nat /\ DOMAIN saves.history \subseteq Nat \ {0}
      /\ saves.history \in [DOMAIN saves.history -> Contents]
  BY DEF CloudInv, Sound
<1>6. blobs \subseteq Contents
  BY <1>5 DEF CloudInv, Stored, PayloadsResolve
<1> QED BY <1>1, <1>2, <1>3, <1>4, <1>5, <1>6 DEF CloudTypeOK, Typed

\* Server, queue and tables keep their types and bounds, for any operations, contents and
\* faults: at most one mutation runs, and every answer shows a save that is one.
THEOREM ServerTypes == CloudSpec => []CloudTypeOK
<1>1. CloudInit => Typed
  BY CloudAssumption DEF CloudInit, Typed
<1>2. CloudSpec => []Typed
  BY <1>1, TypedStep, CloudInvariant, PTL DEF CloudSpec
<1> QED BY <1>2, TypesFollow, CloudInvariant, PTL
=============================================================================
