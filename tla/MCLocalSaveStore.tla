-------------------------- MODULE MCLocalSaveStore --------------------------
(* Instance of the browser's save store for TLC. *)
EXTENDS LocalSaveStore, TLC

\* Pages are interchangeable.
TabSymmetry == Permutations(Tabs)

Last == turns = MaxTurns     \* no page starts, takes over or resolves any more

\* What no step and no property asks of a page.  One that has failed or is being
\* left does nothing once its saves are settled, and at the last turn neither does one
\* that is not primary.  One that is not primary reads neither its caches nor, without
\* a save, whether its game is stale: both are set again before it becomes primary, or
\* its pc says so (a page that writes a resolution is stale).
\* Of a lease that was read, only the owner and the token are compared.
Settled(p) == p.proof = None /\ p.queue = None
Over(p) ==
  /\ Settled(p)
  /\ p.pc \in {"failed", "leaving"} \/ (Last /\ p.pc = "run" /\ p.role # "primary")
Seen(p) ==
  IF Over(p) THEN [Blank EXCEPT !.pc = IF Last THEN "gone" ELSE p.pc]
  ELSE IF p.role = "primary" THEN [p EXCEPT !.snap.until = 0]
  ELSE [p EXCEPT !.snap.until = 0, !.cache = Cold, !.stale = @ /\ ~Settled(p)]

\* A message about a conflict that is settled says no more than any other.
Hearing(t) ==
  IF Over(page[t]) THEN {}
  ELSE IF \E c \in heard[t] : Open(c) THEN {c \in heard[t] : Open(c)}
  ELSE {0 : c \in heard[t]}

\* How long ago a lease expired matters only to a claim that began before.
Lasts == IF \E t \in Tabs : page[t].pc = "claimWrite" /\ page[t].at < now THEN lease.until
         ELSE Larger(lease.until, now)

\* Only a page that starts reads the mirror.
Mirrored == IF Last THEN None ELSE mirror

\* The properties of LocalSafety.cfg tell three histories of windows apart: one
\* with "boot", one with another window than "tie", and the others.  What was given
\* up or overwritten excuses an acknowledgement alike; only the refinement, which
\* the windows end, asks which of the two it was.
Passed == IF "boot" \in hit THEN "boot" ELSE IF hit \subseteq {"tie"} THEN "none" ELSE "stale"
Excused == discarded \cup overwritten
Outcome == IF Passed = "none" THEN <<acked \ Excused, discarded, overwritten \ discarded>>
           ELSE <<acked \ Excused, Excused>>

View == <<durable, [lease EXCEPT !.until = Lasts], conflicts, Mirrored,
          [t \in Tabs |-> Seen(page[t])], [t \in Tabs |-> Hearing(t)], counters, Outcome, Passed>>
=============================================================================
