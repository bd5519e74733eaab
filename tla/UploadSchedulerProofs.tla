------------------------ MODULE UploadSchedulerProofs ------------------------
(***************************************************************************)
(* The upload scheduler keeps its limits and counts exactly, for any        *)
(* number of uploads, of any sizes, and any limits.                         *)
(*                                                                         *)
(* Two recursions are reasoned about: the sum of what a set of uploads      *)
(* reserves, and the pass over the queue.  Both are functions on the        *)
(* subsets of a finite set; that they are well defined, and what they       *)
(* compute, is proved by taking a smallest counterexample (SmallestNumber). *)
(***************************************************************************)
EXTENDS UploadScheduler, FiniteSetTheorems, SequenceTheorems, TLAPS

-----------------------------------------------------------------------------
(* Recursion on the subsets of a finite set *)

\* A set of natural numbers has a smallest element.
LEMMA SmallestNumber ==
  ASSUME NEW T, T \subseteq Nat, T # {}
  PROVE  \E m \in T : \A n \in T : m <= n
  <1> DEFINE R == OpToRel(<, Nat)
  <1>1. IsWellFoundedOn(R, Nat)
    BY NatLessThanWellFounded
  <1>2. ASSUME NEW m \in Nat, NEW n \in Nat, n < m PROVE <<n, m>> \in R
    <2>1. <<n, m>> \in Nat \X Nat /\ <<n, m>>[1] < <<n, m>>[2]
      BY <1>2
    <2> QED
      BY <2>1 DEF OpToRel
  <1> HIDE DEF R
  <1>3. PICK m \in T : \A n \in T : ~(<<n, m>> \in R)
    BY <1>1, WFMin
  <1>4. ASSUME NEW n \in T PROVE m <= n
    <2>1. m \in Nat /\ n \in Nat
      OBVIOUS
    <2>2. ~(<<n, m>> \in R)
      BY <1>3
    <2>3. ~(n < m)
      BY <1>2, <2>1, <2>2
    <2> QED
      BY <2>1, <2>3
  <1> QED
    BY <1>4

Chooses(c, S) == \A s \in SUBSET S : s # {} => c[s] \in s

\* g is base for no element, and otherwise what h makes, of the element that c chooses,
\* from the value of g without it.
Recurses(g, S, base, c, h) ==
  \A s \in SUBSET S : g[s] = IF s = {} THEN base ELSE h[c[s]][g[s \ {c[s]}]]

\* A finite set has such a function.
LEMMA RecursionOnSubsets ==
  ASSUME NEW S, IsFiniteSet(S), NEW V, NEW base \in V,
         NEW c, Chooses(c, S),
         NEW h \in [S -> [V -> V]]
  PROVE  \E g \in [SUBSET S -> V] : Recurses(g, S, base, c, h)
  <1> DEFINE Small(n) == {s \in SUBSET S : Cardinality(s) <= n}
             Good(n)  == \E g \in [Small(n) -> V] : \A s \in Small(n) :
                            g[s] = IF s = {} THEN base ELSE h[c[s]][g[s \ {c[s]}]]
             T        == {n \in Nat : ~Good(n)}
  <1>0. \A s \in SUBSET S : IsFiniteSet(s) /\ Cardinality(s) \in Nat
    BY FS_Subset, FS_CardinalityType
  <1>1. Good(0)
    <2>1. \A s \in SUBSET S : Cardinality(s) <= 0 <=> s = {}
      BY <1>0, FS_EmptySet
    <2>2. Small(0) = {{}}
      BY <2>1
    <2> DEFINE g == [s \in Small(0) |-> base]
    <2>3. g \in [Small(0) -> V] /\ \A s \in Small(0) : s = {} /\ g[s] = base
      BY <2>2
    <2> HIDE DEF g
    <2> QED
      BY <2>3
  <1>2. ASSUME NEW n \in Nat, Good(n) PROVE Good(n + 1)
    <2>1. PICK f \in [Small(n) -> V] : \A s \in Small(n) :
             f[s] = IF s = {} THEN base ELSE h[c[s]][f[s \ {c[s]}]]
      BY <1>2
    <2>2. ASSUME NEW s \in Small(n + 1), s # {}
          PROVE  c[s] \in S /\ s \ {c[s]} \in Small(n)
      <3>1. s \in SUBSET S /\ c[s] \in s /\ IsFiniteSet(s) /\ Cardinality(s) \in Nat
        BY <1>0, <2>2 DEF Chooses
      <3>2. \A x \in s : Cardinality(s \ {x}) = Cardinality(s) - 1
        BY <3>1, FS_RemoveElement
      <3> QED
        BY <3>1, <3>2
    <2>3. Small(n) \subseteq Small(n + 1)
      BY <1>0
    <2> HIDE DEF Small
    <2> DEFINE g == [s \in Small(n + 1) |-> IF s = {} THEN base
                                             ELSE h[c[s]][f[s \ {c[s]}]]]
    <2>4. g \in [Small(n + 1) -> V]
      <3> SUFFICES ASSUME NEW s \in Small(n + 1)
                   PROVE  (IF s = {} THEN base ELSE h[c[s]][f[s \ {c[s]}]]) \in V
        OBVIOUS
      <3>1. CASE s = {}
        BY <3>1
      <3>2. CASE s # {}
        <4>1. h[c[s]] \in [V -> V] /\ f[s \ {c[s]}] \in V
          BY <2>2, <3>2
        <4> QED
          BY <3>2, <4>1
      <3> QED
        BY <3>1, <3>2
    <2>5. ASSUME NEW s \in Small(n) PROVE g[s] = f[s]
      BY <2>1, <2>3
    <2>6. ASSUME NEW s \in Small(n + 1)
          PROVE  g[s] = IF s = {} THEN base ELSE h[c[s]][g[s \ {c[s]}]]
      <3>1. g[s] = IF s = {} THEN base ELSE h[c[s]][f[s \ {c[s]}]]
        OBVIOUS
      <3>2. s # {} => g[s \ {c[s]}] = f[s \ {c[s]}]
        BY <2>2, <2>5
      <3> HIDE DEF g
      <3> QED
        BY <3>1, <3>2
    <2> HIDE DEF g
    <2> QED
      BY <2>4, <2>6
  <1>3. T = {}
    <2> HIDE DEF Good
    <2> SUFFICES ASSUME T # {} PROVE FALSE
      OBVIOUS
    <2>1. PICK m \in T : \A n \in T : m <= n
      BY SmallestNumber
    <2>2. m - 1 \in Nat /\ m - 1 \notin T
      BY <1>1, <2>1
    <2>3. Good((m - 1) + 1)
      BY <1>2, <2>2
    <2>4. (m - 1) + 1 = m
      BY <2>1
    <2>5. Good(m)
      BY <2>3, <2>4
    <2> QED
      BY <2>1, <2>5
  <1>4. Cardinality(S) \in Nat /\ Small(Cardinality(S)) = SUBSET S
    <2>1. \A s \in SUBSET S : Cardinality(s) <= Cardinality(S)
      BY FS_Subset
    <2> QED
      BY <1>0, <2>1
  <1>5. Good(Cardinality(S))
    <2> HIDE DEF Good
    <2> QED
      BY <1>3, <1>4
  <1> HIDE DEF Small
  <1> QED
    BY <1>4, <1>5 DEF Recurses

-----------------------------------------------------------------------------
(* What a set of uploads reserves *)

Total(S) == MapThenSumSet(Bytes, S)

\* The function that defines the sum over the subsets of S.
Sums(g, S) ==
  g = [s \in SUBSET S |->
         IF s = {} THEN 0
         ELSE LET x == CHOOSE x \in s : TRUE IN Bytes(x) + g[s \ {x}]]

LEMMA SumsExist ==
  ASSUME NEW S \in SUBSET Uploads, IsFiniteSet(S)
  PROVE  \E g \in [SUBSET S -> Nat] : Sums(g, S) /\ Total(S) = g[S]
  <1> DEFINE c  == [s \in SUBSET S |-> CHOOSE x \in s : TRUE]
             h  == [x \in S |-> [n \in Nat |-> Bytes(x) + n]]
             it == CHOOSE it : Sums(it, S)
  <1>1. Chooses(c, S)
    BY DEF Chooses
  <1>2. h \in [S -> [Nat -> Nat]]
    BY SchedulerAssumption
  <1>3. c = [s \in SUBSET S |-> CHOOSE x \in s : TRUE]
    OBVIOUS
  <1>4. \A x \in S, n \in Nat : h[x][n] = Bytes(x) + n
    OBVIOUS
  <1> HIDE DEF c, h
  <1>5. PICK g \in [SUBSET S -> Nat] : Recurses(g, S, 0, c, h)
    <2>1. 0 \in Nat
      OBVIOUS
    <2> QED
      BY <1>1, <1>2, <2>1, RecursionOnSubsets
  <1>6. ASSUME NEW s \in SUBSET S
        PROVE  g[s] = IF s = {} THEN 0
                      ELSE LET x == CHOOSE x \in s : TRUE IN Bytes(x) + g[s \ {x}]
    <2>1. CASE s = {}
      BY <1>5, <2>1 DEF Recurses
    <2>2. CASE s # {}
      <3>1. c[s] \in S /\ g[s \ {c[s]}] \in Nat
        BY <1>1, <2>2 DEF Chooses
      <3>2. g[s] = Bytes(c[s]) + g[s \ {c[s]}]
        BY <1>4, <1>5, <2>2, <3>1 DEF Recurses
      <3> QED
        BY <1>3, <2>2, <3>2
    <2> QED
      BY <2>1, <2>2
  <1>7. Sums(g, S)
    BY <1>6 DEF Sums
  <1>8. Sums(it, S)
    BY <1>7
  <1>9. Total(S) = it[S]
    BY DEF Total, MapThenSumSet, MapThenFoldSet, Sums
  <1> HIDE DEF it
  <1>10. it \in [SUBSET S -> Nat]
    \* Both satisfy the same equation; they agree by the size of the subset.
    <2> DEFINE T == {n \in Nat : \E s \in SUBSET S : Cardinality(s) = n /\ it[s] # g[s]}
    <2>1. T = {}
      <3> SUFFICES ASSUME T # {} PROVE FALSE
        OBVIOUS
      <3>1. PICK m \in T : \A n \in T : m <= n
        BY SmallestNumber
      <3>2. PICK s \in SUBSET S : Cardinality(s) = m /\ it[s] # g[s]
        OBVIOUS
      <3> DEFINE x == CHOOSE x \in s : TRUE
      <3>3. s # {} /\ it[s] = Bytes(x) + it[s \ {x}] /\ g[s] = Bytes(x) + g[s \ {x}]
        BY <1>7, <1>8, <3>2 DEF Sums
      <3>4. x \in s /\ s \ {x} \in SUBSET S
        BY <3>3
      <3>5. Cardinality(s \ {x}) = m - 1 /\ m \in Nat /\ m - 1 \in Nat
        <4>1. IsFiniteSet(s) /\ IsFiniteSet(s \ {x})
          BY <3>4, FS_Subset
        <4>2. Cardinality(s \ {x}) = m - 1
          BY <3>2, <3>4, <4>1, FS_RemoveElement
        <4>3. Cardinality(s \ {x}) \in Nat
          BY <4>1, FS_CardinalityType
        <4> QED
          BY <4>2, <4>3
      <3>6. m - 1 \in T
        BY <3>2, <3>3, <3>4, <3>5
      <3> QED
        BY <3>1, <3>5, <3>6
    <2>2. \A s \in SUBSET S : Cardinality(s) \in Nat
      BY FS_Subset, FS_CardinalityType
    <2>3. \A s \in SUBSET S : it[s] = g[s]
      BY <2>1, <2>2
    <2>4. it = [s \in SUBSET S |-> it[s]]
      BY <1>8 DEF Sums
    <2> QED
      BY <2>3, <2>4
  <1> QED
    BY <1>8, <1>9, <1>10

\* The sum over a set does not depend on the set whose subsets it is defined on.
LEMMA SumsAgree ==
  ASSUME NEW S \in SUBSET Uploads, IsFiniteSet(S), NEW S2 \in SUBSET S,
         NEW g, Sums(g, S), NEW f, Sums(f, S2)
  PROVE  f[S2] = g[S2]
  <1> DEFINE T == {n \in Nat : \E s \in SUBSET S2 : Cardinality(s) = n /\ f[s] # g[s]}
  <1>1. T = {}
    <2> SUFFICES ASSUME T # {} PROVE FALSE
      OBVIOUS
    <2>1. PICK m \in T : \A n \in T : m <= n
      BY SmallestNumber
    <2>2. PICK s \in SUBSET S2 : Cardinality(s) = m /\ f[s] # g[s]
      OBVIOUS
    <2> DEFINE x == CHOOSE x \in s : TRUE
    <2>3. s # {} /\ f[s] = Bytes(x) + f[s \ {x}] /\ g[s] = Bytes(x) + g[s \ {x}]
      BY <2>2 DEF Sums
    <2>4. x \in s /\ s \ {x} \in SUBSET S2
      BY <2>3
    <2>5. IsFiniteSet(s) /\ IsFiniteSet(s \ {x})
      BY <2>4, FS_Subset
    <2>6. Cardinality(s \ {x}) = m - 1 /\ Cardinality(s \ {x}) \in Nat
      BY <2>2, <2>4, <2>5, FS_RemoveElement, FS_CardinalityType
    <2>7. m - 1 \in T
      BY <2>2, <2>3, <2>4, <2>6
    <2> QED
      BY <2>1, <2>6, <2>7
  <1>2. Cardinality(S2) \in Nat
    BY FS_Subset, FS_CardinalityType
  <1> QED
    BY <1>1, <1>2

\* Any element of a set can be taken out of its sum.
LEMMA SumsInAnyOrder ==
  ASSUME NEW S \in SUBSET Uploads, IsFiniteSet(S),
         NEW g \in [SUBSET S -> Nat], Sums(g, S)
  PROVE  \A s \in SUBSET S : \A u \in s : g[s] = Bytes(u) + g[s \ {u}]
  <1> DEFINE T == {n \in Nat : \E s \in SUBSET S : Cardinality(s) = n
                                  /\ \E u \in s : g[s] # Bytes(u) + g[s \ {u}]}
  <1>0. \A s \in SUBSET S : IsFiniteSet(s) /\ Cardinality(s) \in Nat
    BY FS_Subset, FS_CardinalityType
  <1>1. T = {}
    <2> SUFFICES ASSUME T # {} PROVE FALSE
      OBVIOUS
    <2>1. PICK m \in T : \A n \in T : m <= n
      BY SmallestNumber
    <2>2. PICK s \in SUBSET S : Cardinality(s) = m
                                /\ \E u \in s : g[s] # Bytes(u) + g[s \ {u}]
      OBVIOUS
    <2>3. PICK u \in s : g[s] # Bytes(u) + g[s \ {u}]
      BY <2>2
    <2> DEFINE x == CHOOSE x \in s : TRUE
    <2>4. x \in s /\ g[s] = Bytes(x) + g[s \ {x}]
      BY <2>3 DEF Sums
    <2> HIDE DEF x
    <2>5. x # u
      BY <2>3, <2>4
    <2>6. Cardinality(s \ {x}) = m - 1 /\ Cardinality(s \ {u}) = m - 1
      BY <1>0, <2>2, <2>4, FS_RemoveElement
    <2>7. m - 1 \in Nat /\ m - 1 \notin T
      BY <1>0, <2>1, <2>6
    <2>8. g[s \ {x}] = Bytes(u) + g[(s \ {x}) \ {u}]
      BY <2>5, <2>6, <2>7
    <2>9. g[s \ {u}] = Bytes(x) + g[(s \ {u}) \ {x}]
      BY <2>4, <2>5, <2>6, <2>7
    <2>10. g[s \ {u}] = Bytes(x) + g[(s \ {x}) \ {u}]
      <3>1. (s \ {u}) \ {x} = (s \ {x}) \ {u}
        OBVIOUS
      <3> QED
        BY <2>9, <3>1
    <2>11. Bytes(x) \in Nat /\ Bytes(u) \in Nat /\ g[(s \ {x}) \ {u}] \in Nat
      BY <2>4, SchedulerAssumption
    <2>12. Bytes(x) + (Bytes(u) + g[(s \ {x}) \ {u}])
             = Bytes(u) + (Bytes(x) + g[(s \ {x}) \ {u}])
      BY <2>11
    <2> QED
      BY <2>3, <2>4, <2>8, <2>10, <2>12
  <1> QED
    BY <1>0, <1>1

LEMMA TotalOfNone == Total({}) = 0
  <1>1. IsFiniteSet({})
    BY FS_EmptySet
  <1>2. PICK g \in [SUBSET {} -> Nat] : Sums(g, {}) /\ Total({}) = g[{}]
    BY <1>1, SumsExist
  <1> QED
    BY <1>2 DEF Sums

\* An upload adds what it reserves.
LEMMA TotalTakesOut ==
  ASSUME NEW S \in SUBSET Uploads, IsFiniteSet(S), NEW u \in S
  PROVE  /\ Total(S) \in Nat /\ Total(S \ {u}) \in Nat
         /\ Total(S) = Bytes(u) + Total(S \ {u})
  <1>1. IsFiniteSet(S \ {u})
    BY FS_RemoveElement
  <1>2. PICK g \in [SUBSET S -> Nat] : Sums(g, S) /\ Total(S) = g[S]
    BY SumsExist
  <1>3. PICK f \in [SUBSET (S \ {u}) -> Nat] :
           Sums(f, S \ {u}) /\ Total(S \ {u}) = f[S \ {u}]
    BY <1>1, SumsExist
  <1>4. f[S \ {u}] = g[S \ {u}]
    BY <1>2, <1>3, SumsAgree
  <1>5. g[S] = Bytes(u) + g[S \ {u}]
    <2>1. \A s \in SUBSET S : \A v \in s : g[s] = Bytes(v) + g[s \ {v}]
      BY <1>2, SumsInAnyOrder
    <2> QED
      BY <2>1
  <1> QED
    BY <1>2, <1>3, <1>4, <1>5

-----------------------------------------------------------------------------
(* One state of the scheduler *)

States == [queue : Seq(Uploads), running : SUBSET Uploads, active : Nat, reserved : Nat]

\* An upload waits or runs, once.
Placed(s) ==
  /\ \A i, j \in 1..Len(s.queue) : s.queue[i] = s.queue[j] => i = j
  /\ \A i \in 1..Len(s.queue) : s.queue[i] \notin s.running

\* The counters say what runs, and are within the limits.
Counted(s) ==
  /\ IsFiniteSet(s.running)
  /\ s.active = Cardinality(s.running) /\ s.active <= Concurrency
  /\ s.reserved = Total(s.running) /\ s.reserved <= MaxBytes

\* What waits does not fit.
Packed(s) == \A i \in 1..Len(s.queue) : ~Fits(s, s.queue[i])

\* s with other tasks, and the counts of them.
With(s, r, a, b) == [s EXCEPT !.running = r, !.active = a, !.reserved = b]

LEMMA WithFields ==
  ASSUME NEW s \in States, NEW r, NEW a, NEW b
  PROVE  /\ With(s, r, a, b).queue = s.queue /\ With(s, r, a, b).running = r
         /\ With(s, r, a, b).active = a /\ With(s, r, a, b).reserved = b
  BY DEF With, States

LEMMA WithType ==
  ASSUME NEW s \in States, NEW r \in SUBSET Uploads, NEW a \in Nat, NEW b \in Nat
  PROVE  With(s, r, a, b) \in States
  BY DEF With, States

\* An upload that fits is admitted within the limits.
LEMMA AdmittedIsCounted ==
  ASSUME NEW s \in States, Counted(s),
         NEW u \in Uploads, u \notin s.running, Fits(s, u)
  PROVE  Admitted(s, u) \in States /\ Counted(Admitted(s, u))
  <1> DEFINE run == s.running \union {u}
  <1>1. IsFiniteSet(run) /\ Cardinality(run) = Cardinality(s.running) + 1
    BY FS_AddElement DEF Counted
  <1>2. run \in SUBSET Uploads /\ u \in run /\ run \ {u} = s.running
    BY DEF States
  <1>3. Total(run) = Bytes(u) + Total(s.running)
    BY <1>1, <1>2, TotalTakesOut
  <1>4. /\ Bytes(u) \in Nat /\ s.active \in Nat /\ s.reserved \in Nat
        /\ Concurrency \in Nat /\ MaxBytes \in Nat
    BY SchedulerAssumption DEF States
  <1> HIDE DEF run
  <1>5. Admitted(s, u) = With(s, run, s.active + 1, s.reserved + Bytes(u))
    BY DEF Admitted, With, run
  <1>6. /\ Admitted(s, u).running = run /\ Admitted(s, u).active = s.active + 1
        /\ Admitted(s, u).reserved = s.reserved + Bytes(u)
        /\ Admitted(s, u) \in States
    <2>1. s.active + 1 \in Nat /\ s.reserved + Bytes(u) \in Nat
      BY <1>4
    <2> QED
      BY <1>2, <1>5, <2>1, WithFields, WithType
  <1>7. s.active + 1 <= Concurrency /\ s.reserved + Bytes(u) <= MaxBytes
    BY <1>4 DEF Fits
  <1>8. s.active + 1 = Cardinality(run) /\ s.reserved + Bytes(u) = Total(run)
    BY <1>1, <1>3, <1>4 DEF Counted
  <1> QED
    BY <1>1, <1>6, <1>7, <1>8 DEF Counted

\* A task that ends gives back its slot and its bytes.
LEMMA ReleasedIsCounted ==
  ASSUME NEW s \in States, Counted(s), NEW u \in s.running
  PROVE  Released(s, u) \in States /\ Counted(Released(s, u))
  <1> DEFINE run == s.running \ {u}
  <1>1. s.running \in SUBSET Uploads /\ IsFiniteSet(s.running) /\ u \in Uploads
    BY DEF States, Counted
  <1>2. IsFiniteSet(run) /\ Cardinality(run) = Cardinality(s.running) - 1
    BY <1>1, FS_RemoveElement
  <1>3. Cardinality(run) \in Nat
    BY <1>2, FS_CardinalityType
  <1>4. Total(run) \in Nat /\ Total(s.running) = Bytes(u) + Total(run)
    BY <1>1, TotalTakesOut
  <1>5. /\ Bytes(u) \in Nat /\ s.active \in Nat /\ s.reserved \in Nat
        /\ Concurrency \in Nat /\ MaxBytes \in Nat
    BY <1>1, SchedulerAssumption DEF States
  <1>6. Released(s, u) = With(s, run, s.active - 1, s.reserved - Bytes(u))
    BY DEF Released, With
  <1>7. run \in SUBSET Uploads /\ s.queue \in Seq(Uploads)
    BY <1>1 DEF States
  <1>8. s.active - 1 = Cardinality(run) /\ s.active - 1 <= Concurrency
    BY <1>2, <1>3, <1>5 DEF Counted
  <1>9. s.reserved - Bytes(u) = Total(run) /\ s.reserved - Bytes(u) <= MaxBytes
    BY <1>4, <1>5 DEF Counted
  <1> HIDE DEF run
  <1>10. /\ Released(s, u).running = run /\ Released(s, u).active = s.active - 1
         /\ Released(s, u).reserved = s.reserved - Bytes(u)
         /\ Released(s, u) \in States
    <2>1. s.active - 1 \in Nat /\ s.reserved - Bytes(u) \in Nat
      BY <1>3, <1>4, <1>8, <1>9
    <2> QED
      BY <1>6, <1>7, <2>1, WithFields, WithType
  <1> QED
    BY <1>2, <1>8, <1>9, <1>10 DEF Counted

-----------------------------------------------------------------------------
(* The pass over the queue *)

\* What dispatch does with one waiting upload.
Placing(s, u) == IF Fits(s, u) THEN Admitted(s, u) ELSE [s EXCEPT !.queue = Append(@, u)]

\* The function that defines the pass over the subsets of the queue's positions.
Passes(g, s) ==
  g = [t \in SUBSET (DOMAIN s.queue) |->
         IF t = {} THEN [s EXCEPT !.queue = <<>>]
         ELSE LET x == Max(t) IN Placing(g[t \ {x}], s.queue[x])]

LEMMA PlacingType ==
  ASSUME NEW s \in States, NEW u \in Uploads
  PROVE  Placing(s, u) \in States
  <1>1. Bytes(u) \in Nat
    BY SchedulerAssumption
  <1>2. s.running \union {u} \in SUBSET Uploads /\ s.active + 1 \in Nat
        /\ s.reserved + Bytes(u) \in Nat
    BY <1>1 DEF States
  <1>3. Admitted(s, u) \in States
    <2>1. Admitted(s, u)
            = With(s, s.running \union {u}, s.active + 1, s.reserved + Bytes(u))
      BY DEF Admitted, With
    <2> QED
      BY <1>2, <2>1, WithType
  <1>4. Append(s.queue, u) \in Seq(Uploads)
    BY AppendProperties DEF States
  <1>5. [s EXCEPT !.queue = Append(@, u)] \in States
    BY <1>4 DEF States
  <1> QED
    BY <1>3, <1>5 DEF Placing

\* The largest number of a finite set of numbers is one of them.
LEMMA MaxOfNumbers ==
  ASSUME NEW n \in Nat, NEW t \in SUBSET (1..n), t # {}
  PROVE  Max(t) \in t /\ \A x \in t : Max(t) >= x
  <1> DEFINE T == {n - x : x \in t}
  <1>1. T \subseteq Nat /\ T # {}
    OBVIOUS
  <1>2. PICK m \in T : \A k \in T : m <= k
    BY <1>1, SmallestNumber
  <1>3. PICK y \in t : m = n - y
    OBVIOUS
  <1>4. ASSUME NEW x \in t PROVE y >= x
    <2>1. n - y <= n - x
      BY <1>2, <1>3
    <2>2. x \in Int /\ y \in Int
      OBVIOUS
    <2> QED
      BY <2>1, <2>2
  <1>5. \E y2 \in t : \A x \in t : y2 >= x
    BY <1>3, <1>4
  <1> QED
    BY <1>5 DEF Max

\* dispatch is the last value of such a function.
LEMMA PassesExist ==
  ASSUME NEW s \in States
  PROVE  \E g : Passes(g, s) /\ Dispatch(s) = g[DOMAIN s.queue]
  <1> DEFINE n  == Len(s.queue)
             c  == [t \in SUBSET (1..n) |-> Max(t)]
             h  == [x \in 1..n |-> [r \in States |-> Placing(r, s.queue[x])]]
             b  == [s EXCEPT !.queue = <<>>]
             it == CHOOSE it : Passes(it, s)
  <1>1. n \in Nat /\ DOMAIN s.queue = 1..n /\ \A x \in 1..n : s.queue[x] \in Uploads
    BY LenProperties, ElementOfSeq DEF States
  <1>2. Chooses(c, 1..n)
    BY <1>1, MaxOfNumbers DEF Chooses
  <1>3. h \in [1..n -> [States -> States]]
    BY <1>1, PlacingType
  <1>4. b \in States
    <2>1. <<>> \in Seq(Uploads)
      BY EmptySeq
    <2> QED
      BY <2>1 DEF States
  <1>5. IsFiniteSet(1..n)
    BY <1>1, FS_Interval
  <1>6. (\A t \in SUBSET (1..n) : c[t] = Max(t))
        /\ \A x \in 1..n, r \in States : h[x][r] = Placing(r, s.queue[x])
    OBVIOUS
  <1> HIDE DEF n, c, h, b
  <1>7. PICK g \in [SUBSET (1..n) -> States] : Recurses(g, 1..n, b, c, h)
    BY <1>2, <1>3, <1>4, <1>5, RecursionOnSubsets
  <1>8. ASSUME NEW t \in SUBSET (1..n)
        PROVE  g[t] = IF t = {} THEN b
                      ELSE LET x == Max(t) IN Placing(g[t \ {x}], s.queue[x])
    <2>1. CASE t = {}
      BY <1>7, <2>1 DEF Recurses
    <2>2. CASE t # {}
      <3>1. c[t] \in 1..n /\ g[t \ {c[t]}] \in States
        BY <1>2, <2>2 DEF Chooses
      <3>2. g[t] = Placing(g[t \ {c[t]}], s.queue[c[t]])
        BY <1>6, <1>7, <2>2, <3>1 DEF Recurses
      <3> QED
        BY <1>6, <2>2, <3>2
    <2> QED
      BY <2>1, <2>2
  <1>9. Passes(g, s)
    BY <1>1, <1>8 DEF Passes, b
  <1>10. Passes(it, s)
    BY <1>9
  <1>11. Dispatch(s) = it[DOMAIN s.queue]
    BY DEF Dispatch, FoldLeft, MapThenFoldSet, Passes, Placing
  <1> HIDE DEF it
  <1> QED
    BY <1>10, <1>11

\* r is what the pass over the first k positions of the queue may make of s.
Settled(s, r, k) ==
  /\ r \in States /\ Placed(r) /\ Counted(r) /\ Packed(r)
  /\ Len(r.queue) <= k
  /\ \A i \in 1..Len(r.queue) : \E j \in 1..k : r.queue[i] = s.queue[j]
  /\ \A u \in r.running : u \in s.running \/ \E j \in 1..k : u = s.queue[j]

LEMMA PlacingSettles ==
  ASSUME NEW s \in States, Placed(s), NEW k \in Nat, k + 1 <= Len(s.queue),
         NEW r, Settled(s, r, k)
  PROVE  Settled(s, Placing(r, s.queue[k + 1]), k + 1)
  <1> DEFINE u == s.queue[k + 1]
             p == Placing(r, u)
  <1>1. Len(s.queue) \in Nat /\ k + 1 \in 1..Len(s.queue)
        /\ \A j \in 1..Len(s.queue) : s.queue[j] \in Uploads
    BY LenProperties, ElementOfSeq DEF States
  <1>2. u \in Uploads /\ u \notin s.running /\ \A j \in 1..k : s.queue[j] # u
    <2>1. \A j \in 1..k : j \in 1..Len(s.queue) /\ j # k + 1
      BY <1>1
    <2> QED
      BY <1>1, <2>1 DEF Placed
  <1>3. r \in States /\ Placed(r) /\ Counted(r) /\ Packed(r) /\ Len(r.queue) \in Nat
        /\ Bytes(u) \in Nat
    BY <1>2, SchedulerAssumption, LenProperties DEF Settled, States
  <1>4. u \notin r.running /\ \A i \in 1..Len(r.queue) : r.queue[i] # u
    BY <1>2 DEF Settled
  <1>5. \A j \in 1..k : j \in 1..(k + 1)
    OBVIOUS
  <1>6. k + 1 \in 1..(k + 1)
    OBVIOUS
  <1> HIDE DEF u
  <1>7. CASE Fits(r, u)
    <2>1. p = With(r, r.running \union {u}, r.active + 1, r.reserved + Bytes(u))
      BY <1>7 DEF Placing, Admitted, With
    <2>2. p \in States /\ Counted(p)
      BY <1>2, <1>3, <1>4, <1>7, AdmittedIsCounted DEF Placing
    <2>3. /\ p.queue = r.queue /\ p.running = r.running \union {u}
          /\ p.active = r.active + 1 /\ p.reserved = r.reserved + Bytes(u)
      BY <1>3, <2>1, WithFields
    <2> HIDE DEF p
    <2>4. Placed(p)
      BY <1>3, <1>4, <2>3 DEF Placed
    <2>5. Packed(p)
      <3> SUFFICES ASSUME NEW i \in 1..Len(r.queue) PROVE ~Fits(p, r.queue[i])
        BY <2>3 DEF Packed
      <3>1. ~(r.active < Concurrency /\ r.reserved + Bytes(r.queue[i]) <= MaxBytes)
        BY <1>3 DEF Packed, Fits
      <3>2. r.queue[i] \in Uploads
        BY <1>3, ElementOfSeq DEF States
      <3>3. Bytes(r.queue[i]) \in Nat /\ r.active \in Nat /\ r.reserved \in Nat
            /\ Concurrency \in Nat /\ MaxBytes \in Nat
        BY <1>3, <3>2, SchedulerAssumption, SMTT(30) DEF States
      <3>4. ~(r.active + 1 < Concurrency
              /\ (r.reserved + Bytes(u)) + Bytes(r.queue[i]) <= MaxBytes)
        BY <1>3, <3>1, <3>3
      <3> QED
        BY <2>3, <3>4 DEF Fits
    <2>6. Len(p.queue) <= k + 1
      BY <1>3, <2>3 DEF Settled
    <2>7. \A i \in 1..Len(p.queue) : \E j \in 1..(k + 1) : p.queue[i] = s.queue[j]
      BY <1>5, <2>3 DEF Settled
    <2>8. \A v \in p.running : v \in s.running \/ \E j \in 1..(k + 1) : v = s.queue[j]
      BY <1>5, <1>6, <2>3 DEF Settled, u
    <2> QED
      BY <2>2, <2>4, <2>5, <2>6, <2>7, <2>8 DEF Settled, p, u
  <1>8. CASE ~Fits(r, u)
    <2> DEFINE q == Append(r.queue, u)
    <2>1. /\ q \in Seq(Uploads) /\ Len(q) = Len(r.queue) + 1
          /\ \A i \in 1..Len(r.queue) : q[i] = r.queue[i]
          /\ q[Len(r.queue) + 1] = u
      BY <1>2, <1>3, AppendProperties DEF States
    <2> HIDE DEF q
    <2>2. p = [r EXCEPT !.queue = q]
      BY <1>8 DEF Placing, q
    <2>3. /\ p \in States /\ p.queue = q /\ p.running = r.running
          /\ p.active = r.active /\ p.reserved = r.reserved
      BY <1>3, <2>1, <2>2 DEF States
    <2> HIDE DEF p
    <2>4. \A i \in 1..Len(q) : (i \in 1..Len(r.queue) /\ q[i] = r.queue[i])
                               \/ (i = Len(r.queue) + 1 /\ q[i] = u)
      BY <1>3, <2>1
    <2>5. Placed(p)
      BY <1>3, <1>4, <2>3, <2>4 DEF Placed
    <2>6. Counted(p)
      BY <1>3, <2>3 DEF Counted
    <2>7. Packed(p)
      BY <1>3, <1>8, <2>3, <2>4 DEF Packed, Fits
    <2>8. Len(p.queue) <= k + 1
      BY <1>3, <2>1, <2>3 DEF Settled
    <2>9. \A i \in 1..Len(p.queue) : \E j \in 1..(k + 1) : p.queue[i] = s.queue[j]
      BY <1>5, <1>6, <2>3, <2>4 DEF Settled, u
    <2>10. \A v \in p.running : v \in s.running \/ \E j \in 1..(k + 1) : v = s.queue[j]
      BY <1>5, <2>3 DEF Settled
    <2> QED
      BY <2>3, <2>5, <2>6, <2>7, <2>8, <2>9, <2>10 DEF Settled, p, u
  <1> QED
    BY <1>7, <1>8

\* dispatch leaves the counters exact and within the limits, and nothing that fits.
LEMMA DispatchSettles ==
  ASSUME NEW s \in States, Placed(s), Counted(s)
  PROVE  Settled(s, Dispatch(s), Len(s.queue))
  <1>1. PICK g : Passes(g, s) /\ Dispatch(s) = g[DOMAIN s.queue]
    BY PassesExist
  <1> DEFINE n == Len(s.queue)
             T == {k \in Nat : k <= n /\ ~Settled(s, g[1..k], k)}
  <1>2. n \in Nat /\ DOMAIN s.queue = 1..n
    BY LenProperties DEF States
  <1>3. Settled(s, g[1..0], 0)
    <2> DEFINE b == [s EXCEPT !.queue = <<>>]
    <2>1. 1..0 = {} /\ {} \in SUBSET (DOMAIN s.queue)
      OBVIOUS
    <2>2. g[1..0] = b
      BY <1>1, <2>1 DEF Passes
    <2>3. <<>> \in Seq(Uploads) /\ Len(<<>>) = 0
      BY EmptySeq
    <2>4. /\ b \in States /\ b.queue = <<>> /\ b.running = s.running
          /\ b.active = s.active /\ b.reserved = s.reserved
      BY <2>3 DEF States
    <2> HIDE DEF b
    <2>5. \A i \in 1..Len(b.queue) : FALSE
      BY <2>3, <2>4
    <2>6. Placed(b) /\ Packed(b)
      BY <2>5 DEF Placed, Packed
    <2>7. Counted(b)
      BY <2>4 DEF Counted
    <2>8. Len(b.queue) <= 0
      BY <2>3, <2>4
    <2> QED
      BY <2>2, <2>4, <2>5, <2>6, <2>7, <2>8 DEF Settled
  <1>4. ASSUME NEW k \in Nat, k + 1 <= n, Settled(s, g[1..k], k)
        PROVE  Settled(s, g[1..(k + 1)], k + 1)
    <2>1. 1..(k + 1) # {} /\ 1..(k + 1) \in SUBSET (DOMAIN s.queue)
      <3>1. k + 1 \in 1..(k + 1)
        OBVIOUS
      <3>2. \A j \in 1..(k + 1) : j \in 1..n
        BY <1>2, <1>4
      <3> QED
        BY <1>2, <3>1, <3>2
    <2>2. Max(1..(k + 1)) = k + 1
      <3>1. Max(1..(k + 1)) \in 1..(k + 1) /\ \A x \in 1..(k + 1) : Max(1..(k + 1)) >= x
        <4>1. k + 1 \in Nat /\ 1..(k + 1) \in SUBSET (1..(k + 1))
          OBVIOUS
        <4> QED
          BY <2>1, <4>1, MaxOfNumbers
      <3> QED
        BY <3>1
    <2>3. (1..(k + 1)) \ {k + 1} = 1..k
      OBVIOUS
    <2>4. g[1..(k + 1)] = Placing(g[1..k], s.queue[k + 1])
      BY <1>1, <2>1, <2>2, <2>3 DEF Passes
    <2> QED
      BY <1>4, <2>4, PlacingSettles
  <1>5. T = {}
    <2> SUFFICES ASSUME T # {} PROVE FALSE
      OBVIOUS
    <2>1. PICK m \in T : \A k \in T : m <= k
      BY SmallestNumber
    <2>2. m # 0
      BY <1>3, <2>1
    <2>3. m - 1 \in Nat /\ (m - 1) + 1 = m /\ m <= n /\ m - 1 <= n
      BY <1>2, <2>1, <2>2
    <2>4. m - 1 \notin T
      BY <2>1, <2>3
    <2>5. Settled(s, g[1..(m - 1)], m - 1)
      BY <2>3, <2>4
    <2>6. Settled(s, g[1..((m - 1) + 1)], (m - 1) + 1)
      BY <1>4, <2>3, <2>5
    <2> QED
      BY <2>1, <2>3, <2>6
  <1> QED
    BY <1>1, <1>2, <1>5

-----------------------------------------------------------------------------
(* The inductive invariant *)

\* The limits hold, the counters are exact, no upload waits that fits, and once closed
\* none waits at all.
SchedInv ==
  /\ State \in States /\ Placed(State) /\ Counted(State) /\ Packed(State)
  /\ Len(queue) <= QueueLimit
  /\ closed \in BOOLEAN
  /\ closed => queue = <<>>

LEMMA StateFields ==
  /\ State.queue = queue /\ State.running = running
  /\ State.active = active /\ State.reserved = reserved
  BY DEF State

LEMMA InvImplies == SchedInv => SchedTypeOK /\ SlotsExact /\ WorkConserving
  <1> SUFFICES ASSUME SchedInv PROVE SchedTypeOK /\ SlotsExact /\ WorkConserving
    OBVIOUS
  <1>1. /\ queue \in Seq(Uploads) /\ running \subseteq Uploads
        /\ active \in Nat /\ reserved \in Nat
    BY StateFields DEF SchedInv, States
  <1>2. active <= Concurrency /\ reserved <= MaxBytes
        /\ active = Cardinality(running) /\ reserved = Total(running)
    BY StateFields DEF SchedInv, Counted
  <1>3. SchedTypeOK
    BY <1>1, <1>2, SchedulerAssumption DEF SchedInv, SchedTypeOK
  <1>4. SlotsExact
    BY <1>2 DEF SlotsExact, Total
  <1>5. WorkConserving
    BY StateFields DEF SchedInv, Packed, WorkConserving
  <1> QED
    BY <1>3, <1>4, <1>5

LEMMA InitEstablishes == SchedInit => SchedInv
  <1> SUFFICES ASSUME SchedInit PROVE SchedInv
    OBVIOUS
  <1>1. queue = <<>> /\ running = {} /\ active = 0 /\ reserved = 0 /\ closed = FALSE
    BY DEF SchedInit
  <1>2. Len(<<>>) = 0 /\ <<>> \in Seq(Uploads)
    BY EmptySeq
  <1>3. State \in States
    BY <1>1, <1>2 DEF State, States
  <1>4. \A i \in 1..Len(State.queue) : FALSE
    BY <1>1, <1>2, StateFields
  <1>5. Placed(State) /\ Packed(State)
    BY <1>4 DEF Placed, Packed
  <1>6. Counted(State)
    <2>1. IsFiniteSet({}) /\ Cardinality({}) = 0
      BY FS_EmptySet
    <2> QED
      BY <1>1, <2>1, StateFields, TotalOfNone, SchedulerAssumption DEF Counted
  <1>7. Len(queue) <= QueueLimit
    BY <1>1, <1>2, SchedulerAssumption
  <1>8. closed \in BOOLEAN /\ ~closed
    BY <1>1
  <1> QED
    BY <1>3, <1>5, <1>6, <1>7, <1>8 DEF SchedInv

\* A step that makes the state s of these properties keeps the invariant.
LEMMA BecomesKeeps ==
  ASSUME SchedInv, NEW s \in States, Placed(s), Counted(s), Packed(s),
         Len(s.queue) <= QueueLimit, closed => s.queue = <<>>,
         Becomes(s), UNCHANGED closed
  PROVE  SchedInv'
  <1>1. State' = s
    BY DEF Becomes, State, States
  <1>2. queue' = s.queue
    BY DEF Becomes
  <1> QED
    BY <1>1, <1>2 DEF SchedInv

LEMMA ArriveKeeps ==
  ASSUME SchedInv, NEW u \in Uploads, Arrive(u)
  PROVE  SchedInv'
  <1>1. /\ State \in States /\ Placed(State) /\ Counted(State) /\ Packed(State)
        /\ queue \in Seq(Uploads) /\ Len(queue) \in Nat /\ ~closed
        /\ u \notin running /\ \A i \in 1..Len(queue) : queue[i] # u
    BY StateFields, LenProperties DEF SchedInv, States, Arrive, Idle, Contains
  <1>2. CASE queue = <<>> /\ Fits(State, u)
    <2> DEFINE s == Admitted(State, u)
    <2>1. s \in States /\ Counted(s)
      BY <1>1, <1>2, AdmittedIsCounted, StateFields
    <2>2. s = With(State, running \union {u}, active + 1, reserved + Bytes(u))
      BY StateFields DEF Admitted, With
    <2>3. s.queue = <<>>
      BY <1>1, <1>2, <2>2, WithFields, StateFields
    <2>4. Becomes(s) /\ UNCHANGED closed
      BY <1>2 DEF Arrive
    <2> HIDE DEF s
    <2>5. Len(s.queue) = 0 /\ \A i \in 1..Len(s.queue) : FALSE
      BY <2>3, EmptySeq
    <2>6. Placed(s) /\ Packed(s)
      BY <2>5 DEF Placed, Packed
    <2>7. Len(s.queue) <= QueueLimit
      BY <2>5, SchedulerAssumption
    <2> QED
      BY <2>1, <2>3, <2>4, <2>6, <2>7, BecomesKeeps
  <1>3. CASE ~(queue = <<>> /\ Fits(State, u))
    <2> DEFINE s == [State EXCEPT !.queue = Append(queue, u)]
               t == Dispatch(s)
    <2>1. Len(queue) < QueueLimit /\ Becomes(t) /\ UNCHANGED closed
      BY <1>3 DEF Arrive
    <2>2. /\ Append(queue, u) \in Seq(Uploads) /\ Len(Append(queue, u)) = Len(queue) + 1
          /\ \A i \in 1..Len(queue) : Append(queue, u)[i] = queue[i]
          /\ Append(queue, u)[Len(queue) + 1] = u
      BY <1>1, AppendProperties
    <2>3. /\ s \in States /\ s.queue = Append(queue, u) /\ s.running = running
          /\ s.active = active /\ s.reserved = reserved
      BY <1>1, <2>2, StateFields DEF States
    <2> HIDE DEF s
    <2>4. \A i \in 1..Len(s.queue) : (i \in 1..Len(queue) /\ s.queue[i] = queue[i])
                                     \/ (i = Len(queue) + 1 /\ s.queue[i] = u)
      BY <1>1, <2>2, <2>3
    <2>5. Placed(s)
      BY <1>1, <2>3, <2>4, StateFields DEF Placed
    <2>6. Counted(s)
      BY <1>1, <2>3, StateFields DEF Counted
    <2>7. Settled(s, t, Len(s.queue))
      BY <2>3, <2>5, <2>6, DispatchSettles
    <2> HIDE DEF t
    <2>8. t \in States /\ Placed(t) /\ Counted(t) /\ Packed(t) /\ Len(t.queue) \in Nat
          /\ Len(t.queue) <= Len(queue) + 1
      BY <2>2, <2>3, <2>7, LenProperties DEF Settled, States
    <2>9. Len(t.queue) <= QueueLimit
      BY <1>1, <2>1, <2>8, SchedulerAssumption
    <2> QED
      BY <1>1, <2>1, <2>8, <2>9, BecomesKeeps
  <1> QED
    BY <1>2, <1>3

LEMMA AbortKeeps ==
  ASSUME SchedInv, NEW u \in Uploads, Abort(u)
  PROVE  SchedInv'
  <1>1. PICK i \in 1..Len(queue) : queue' = RemoveAt(queue, i)
    BY DEF Abort
  <1>2. UNCHANGED <<running, active, reserved, closed>>
    BY DEF Abort
  <1> DEFINE a == SubSeq(queue, 1, i - 1)
             b == SubSeq(queue, i + 1, Len(queue))
             n == Len(queue)
  <1>3. queue \in Seq(Uploads) /\ n \in Nat /\ \A j \in 1..n : queue[j] \in Uploads
    BY StateFields, LenProperties, ElementOfSeq DEF SchedInv, States
  <1>4. /\ a \in Seq(Uploads) /\ Len(a) = i - 1
        /\ \A j \in 1..(i - 1) : a[j] = queue[j]
    <2>1. i - 1 \in Int /\ 1 \in Int /\ \A j \in 1..(i - 1) : queue[j] \in Uploads
      BY <1>3
    <2>2. /\ a \in Seq(Uploads) /\ Len(a) = IF 1 <= i - 1 THEN (i - 1) - 1 + 1 ELSE 0
          /\ \A j \in 1..((i - 1) - 1 + 1) : a[j] = queue[1 + j - 1]
      BY <2>1, SubSeqProperties
    <2>3. \A j \in 1..(i - 1) : j \in 1..((i - 1) - 1 + 1) /\ 1 + j - 1 = j
      BY <1>3
    <2> QED
      BY <1>3, <2>2, <2>3
  <1>5. /\ b \in Seq(Uploads) /\ Len(b) = n - i
        /\ \A j \in 1..(n - i) : b[j] = queue[i + j]
    <2>1. i + 1 \in Int /\ n \in Int /\ \A j \in (i + 1)..n : queue[j] \in Uploads
      BY <1>3
    <2>2. /\ b \in Seq(Uploads) /\ Len(b) = IF i + 1 <= n THEN n - (i + 1) + 1 ELSE 0
          /\ \A j \in 1..(n - (i + 1) + 1) : b[j] = queue[(i + 1) + j - 1]
      BY <2>1, SubSeqProperties
    <2>3. \A j \in 1..(n - i) : j \in 1..(n - (i + 1) + 1) /\ (i + 1) + j - 1 = i + j
      BY <1>3
    <2> QED
      BY <1>3, <2>2, <2>3
  <1> HIDE DEF a, b
  <1>6. queue' = a \o b
    BY <1>1 DEF RemoveAt, a, b
  <1>7. /\ queue' \in Seq(Uploads) /\ Len(queue') = n - 1
        /\ \A j \in 1..(n - 1) : queue'[j] = IF j <= i - 1 THEN queue[j] ELSE queue[j + 1]
    <2>1. /\ queue' \in Seq(Uploads) /\ Len(queue') = Len(a) + Len(b)
          /\ \A j \in 1..(Len(a) + Len(b)) :
                queue'[j] = IF j <= Len(a) THEN a[j] ELSE b[j - Len(a)]
      BY <1>4, <1>5, <1>6, ConcatProperties
    <2>2. Len(a) + Len(b) = n - 1
      BY <1>3, <1>4, <1>5
    <2>3. ASSUME NEW j \in 1..(n - 1), j <= i - 1 PROVE queue'[j] = queue[j]
      BY <1>3, <1>4, <2>1, <2>2, <2>3
    <2>4. ASSUME NEW j \in 1..(n - 1), ~(j <= i - 1) PROVE queue'[j] = queue[j + 1]
      <3>1. j - Len(a) \in 1..(n - i) /\ i + (j - Len(a)) = j + 1
        BY <1>3, <1>4, <2>4
      <3> QED
        BY <1>4, <1>5, <2>1, <2>2, <2>4, <3>1
    <2> QED
      BY <2>1, <2>2, <2>3, <2>4
  <1> DEFINE old(j) == IF j <= i - 1 THEN j ELSE j + 1
  <1>8. /\ \A j \in 1..(n - 1) : old(j) \in 1..n /\ queue'[j] = queue[old(j)]
        /\ \A j, k \in 1..(n - 1) : old(j) = old(k) => j = k
    BY <1>3, <1>7
  <1> HIDE DEF old
  <1>9. State' \in States
    BY <1>2, <1>7, StateFields DEF SchedInv, State, States
  <1>10. /\ State.queue = queue /\ State'.queue = queue' /\ State'.running = State.running
         /\ State'.active = State.active /\ State'.reserved = State.reserved
    BY <1>2 DEF State
  <1>11. Placed(State')
    <2>1. /\ \A j, k \in 1..n : queue[j] = queue[k] => j = k
          /\ \A j \in 1..n : queue[j] \notin State.running
      BY <1>10 DEF SchedInv, Placed
    <2>2. \A j, k \in 1..(n - 1) : queue'[j] = queue'[k] => j = k
      BY <1>8, <2>1
    <2>3. \A j \in 1..(n - 1) : queue'[j] \notin State.running
      BY <1>8, <2>1
    <2> QED
      BY <1>7, <1>10, <2>2, <2>3 DEF Placed
  <1>12. Counted(State')
    BY <1>10 DEF SchedInv, Counted
  <1>13. Packed(State')
    BY <1>7, <1>8, <1>10 DEF SchedInv, Packed, Fits
  <1>14. Len(queue') <= QueueLimit
    BY <1>3, <1>7, SchedulerAssumption DEF SchedInv
  <1>15. ~closed
    <2>1. i \in 1..n
      OBVIOUS
    <2>2. queue = <<>> => n = 0
      BY EmptySeq
    <2> QED
      BY <1>3, <2>1, <2>2 DEF SchedInv
  <1> QED
    BY <1>2, <1>9, <1>11, <1>12, <1>13, <1>14, <1>15 DEF SchedInv

LEMMA FinishKeeps ==
  ASSUME SchedInv, NEW u \in Uploads, Finish(u)
  PROVE  SchedInv'
  <1> DEFINE s == Released(State, u)
  <1>1. State \in States /\ Counted(State) /\ Placed(State) /\ u \in State.running
        /\ UNCHANGED closed
    BY StateFields DEF SchedInv, Finish
  <1>2. s \in States /\ Counted(s)
    BY <1>1, ReleasedIsCounted
  <1>3. s = With(State, running \ {u}, active - 1, reserved - Bytes(u))
    BY StateFields DEF Released, With
  <1>4. s.queue = queue /\ s.running = running \ {u}
    BY <1>1, <1>3, WithFields, StateFields
  <1>5. Becomes(IF closed THEN s ELSE Dispatch(s))
    BY DEF Finish
  <1> HIDE DEF s
  <1>6. Placed(s)
    BY <1>1, <1>4, StateFields DEF Placed
  <1>7. CASE closed
    <2>1. s.queue = <<>> /\ Becomes(s)
      BY <1>4, <1>5, <1>7 DEF SchedInv
    <2>2. Len(s.queue) = 0 /\ \A i \in 1..Len(s.queue) : FALSE
      BY <2>1, EmptySeq
    <2>3. Packed(s) /\ Len(s.queue) <= QueueLimit
      BY <2>2, SchedulerAssumption DEF Packed
    <2> QED
      BY <1>1, <1>2, <1>6, <2>1, <2>3, BecomesKeeps
  <1>8. CASE ~closed
    <2> DEFINE t == Dispatch(s)
    <2>1. Settled(s, t, Len(s.queue))
      BY <1>2, <1>6, DispatchSettles
    <2>2. Becomes(t)
      BY <1>5, <1>8
    <2> HIDE DEF t
    <2>3. t \in States /\ Placed(t) /\ Counted(t) /\ Packed(t) /\ Len(t.queue) <= Len(queue)
      BY <1>4, <2>1 DEF Settled
    <2>4. Len(t.queue) \in Nat /\ Len(queue) \in Nat
      BY <1>1, <2>3, StateFields, LenProperties DEF States
    <2>5. Len(t.queue) <= QueueLimit
      BY <2>3, <2>4, SchedulerAssumption DEF SchedInv
    <2> QED
      BY <1>1, <1>8, <2>2, <2>3, <2>5, BecomesKeeps
  <1> QED
    BY <1>7, <1>8

LEMMA CloseKeeps ==
  ASSUME SchedInv, Close
  PROVE  SchedInv'
  <1>1. /\ queue' = <<>> /\ closed' = TRUE
        /\ running' = running /\ active' = active /\ reserved' = reserved
    BY DEF Close, EmptiesQueue
  <1>2. Len(queue') = 0 /\ queue' \in Seq(Uploads)
    BY <1>1, EmptySeq
  <1>3. State' \in States
    BY <1>1, <1>2, StateFields DEF SchedInv, State, States
  <1>4. /\ State'.queue = queue' /\ State'.running = State.running
        /\ State'.active = State.active /\ State'.reserved = State.reserved
    BY <1>1 DEF State
  <1>5. \A i \in 1..Len(State'.queue) : FALSE
    BY <1>2, <1>4
  <1>6. Placed(State') /\ Packed(State')
    BY <1>5 DEF Placed, Packed
  <1>7. Counted(State')
    BY <1>4 DEF SchedInv, Counted
  <1> QED
    BY <1>1, <1>2, <1>3, <1>6, <1>7, SchedulerAssumption DEF SchedInv

LEMMA SchedInvariant == SchedSpec => []SchedInv
  <1>1. SchedInit => SchedInv
    BY InitEstablishes
  <1>2. ASSUME SchedInv, [SchedNext]_schedVars PROVE SchedInv'
    <2>1. CASE Close
      BY <1>2, <2>1, CloseKeeps
    <2>2. ASSUME NEW u \in Uploads, Arrive(u) PROVE SchedInv'
      BY <1>2, <2>2, ArriveKeeps
    <2>3. ASSUME NEW u \in Uploads, Abort(u) PROVE SchedInv'
      BY <1>2, <2>3, AbortKeeps
    <2>4. ASSUME NEW u \in Uploads, Finish(u) PROVE SchedInv'
      BY <1>2, <2>4, FinishKeeps
    <2>5. CASE UNCHANGED schedVars
      <3>1. State' = State /\ queue' = queue /\ closed' = closed
        BY <2>5 DEF schedVars, State
      <3> QED
        BY <1>2, <3>1 DEF SchedInv
    <2> QED
      BY <1>2, <2>1, <2>2, <2>3, <2>4, <2>5 DEF SchedNext
  <1> QED
    BY <1>1, <1>2, PTL DEF SchedSpec

-----------------------------------------------------------------------------
(* The theorems *)

\* The queue, the slots and the byte budget stay within their limits, whatever arrives,
\* gives up and ends.
THEOREM SchedulerKeepsLimits == SchedSpec => []SchedTypeOK
  BY SchedInvariant, InvImplies, PTL

\* Slots and bytes are returned exactly once: the counters are the number of running
\* tasks and the sum of what these reserved.
THEOREM SchedulerCountsExactly == SchedSpec => []SlotsExact
  BY SchedInvariant, InvImplies, PTL

\* One pass of dispatch is enough: no upload waits while a slot and the bytes for it
\* are free.
THEOREM NoSlotIsIdle == SchedSpec => []WorkConserving
  BY SchedInvariant, InvImplies, PTL
=============================================================================
