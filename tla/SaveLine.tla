------------------------------ MODULE SaveLine ------------------------------
(***************************************************************************)
(* What the browser's save store promises the player, whatever pages do:   *)
(* there is one line of progress; it grows, and it loses progress only to  *)
(* a copy that is preserved aside or to a decision of the player.          *)
(***************************************************************************)
CONSTANT Saves        \* sets of checkpoints

VARIABLES
  line,      \* the progress of the primary save
  aside,     \* copies preserved until the player chooses
  given      \* checkpoints the player gave up

lineVars == <<line, aside, given>>

\* Everything that is not lost.
Kept == line \cup (UNION aside) \cup given

LineInit == line = {} /\ aside = {} /\ given = {}

Extend == /\ \E s \in Saves : line \subseteq s /\ line' = s
          /\ UNCHANGED <<aside, given>>

\* A save that does not continue the line is preserved beside it, with the
\* copy it was compared to.
Fork == /\ \E s, compared \in Saves : aside' = aside \cup {s, compared}
        /\ UNCHANGED <<line, given>>

\* The player picks a preserved copy; the line it replaces stays preserved.
Choose == /\ \E s \in aside : line' = s
          /\ line \in aside
          /\ UNCHANGED <<aside, given>>

\* The choice is final: preserved copies go.
Settle == /\ aside' \subseteq aside /\ line' = line
          /\ given \subseteq given' /\ Kept \subseteq Kept'

\* The player takes over with another page's game.
Replace == /\ \E s \in Saves : line' = s /\ given' = given \cup (line \ s)
           /\ UNCHANGED aside

LineNext == Extend \/ Fork \/ Choose \/ Settle \/ Replace

LineSpec == LineInit /\ [][LineNext]_lineVars
=============================================================================
