--------------------------- MODULE PlayerLedger ---------------------------
(***************************************************************************)
(* What the player may rely on: a ledger of settled operations.  Every      *)
(* entry is settled once; a second of the clock is a simulated second; the  *)
(* clock stands still in a pause, and a resume may skip to a later second.  *)
(***************************************************************************)
EXTENDS Integers, FiniteSets

CONSTANTS Commands, MaxBatch

VARIABLES
    phase,      \* "none", "prepared", "active" or "paused"
    secs,       \* simulated seconds
    cmds,       \* commands in force
    clock,      \* the last settled second of the wall clock
    seq,        \* events settled
    rev         \* revision of the state

vars == <<phase, secs, cmds, clock, seq, rev>>

Init == phase = "none" /\ secs = 0 /\ cmds = {} /\ clock = 0 /\ seq = 0 /\ rev = 0

Open ==
    /\ phase = "none" /\ phase' = "prepared"
    /\ secs' \in {secs, secs + 1} /\ rev' \in {rev, rev + 1}
    /\ clock' \in Nat /\ UNCHANGED <<cmds, seq>>

Start == phase = "prepared" /\ phase' = "active" /\ UNCHANGED <<secs, cmds, clock, seq, rev>>

Settle(n) ==
    /\ phase = "active"
    /\ secs' = secs + n /\ clock' = clock + n /\ seq' = seq + n /\ rev' = rev + 1
    /\ UNCHANGED <<phase, cmds>>

\* A command, its undo or its redo.
Change(c) ==
    /\ phase = "active"
    /\ cmds' \in {cmds \union {c}, cmds \ {c}}
    /\ seq' = seq + 1 /\ rev' = rev + 1
    /\ UNCHANGED <<phase, secs, clock>>

Pause ==
    /\ phase = "active" /\ phase' = "paused"
    /\ seq' = seq + 1 /\ rev' = rev + 1
    /\ UNCHANGED <<secs, cmds, clock>>

Resume ==
    /\ phase = "paused" /\ phase' = "active"
    /\ clock' >= clock /\ seq' = seq + 1 /\ rev' = rev + 1
    /\ UNCHANGED <<secs, cmds>>

Next ==
    \/ Open \/ Start \/ Pause \/ Resume
    \/ \E n \in 1..MaxBatch : Settle(n)
    \/ \E c \in Commands : Change(c)

Spec == Init /\ [][Next]_vars
=============================================================================
