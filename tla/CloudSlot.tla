----------------------------- MODULE CloudSlot ------------------------------
(***************************************************************************)
(* What the cloud promises about one save slot of one account: its history  *)
(* changes only by operations somebody asked for, each one whole and in one *)
(* step, an upload at most once and only over the revision it names.        *)
(* CloudSaves shows that the server keeps this promise; CloudSync puts the  *)
(* game's clients in front of it.                                           *)
(***************************************************************************)
EXTENDS Naturals, FiniteSets

CONSTANTS
    Ops,            \* operations a client may ask for, each with an id of its own
    Contents,       \* payloads, named by their checksum
    HistoryLimit,   \* historyRevisions
    MaxRevision,    \* bound: revisions a client may name
    None

ASSUME SlotAssumption == /\ HistoryLimit \in Nat \ {0, 1}
                         /\ MaxRevision \in Nat
                         /\ IsFiniteSet(Contents)
                         /\ None \notin Contents

VARIABLES
    asked,  \* what each operation asks for
    saves   \* the slot: its current revision (0 when there is none), the history
            \* of contents by revision, the receipts of uploads by operation

slotVars == <<asked, saves>>

Revision == 1..MaxRevision
Unasked  == [kind |-> "none"]
\* A client offers the deletion or the restoration only of a save it has been shown.
Requests == [kind : {"put"}, expected : {0} \union Revision, content : Contents]
            \union [kind : {"delete"}, expected : Revision]
            \union [kind : {"restore"}, expected : Revision, source : Revision]

NoEntry == [revision |-> 0, content |-> None]
Nothing == [x \in {} |-> None]
NoSaves == [current |-> 0, history |-> Nothing, receipts |-> Nothing]

\* currentCloudSave
Current(s) == IF s.current = 0 THEN NoEntry
              ELSE [revision |-> s.current, content |-> s.history[s.current]]

-----------------------------------------------------------------------------
(* What the operations do to a slot *)

\* Mutant: the incoming revision is not counted.
PrunesLate(s) ==
    {d \in SUBSET (DOMAIN s.history \ {s.current}) :
        /\ \A r \in d, x \in DOMAIN s.history \ {s.current} : x < r => x \in d
        /\ Cardinality(DOMAIN s.history \ d) <= HistoryLimit}

\* What the quota may remove before a revision is appended (planCloudSaveUpload): the
\* oldest revisions but never the current one, so many that the history stays within
\* its limit, more if bytes are short.  The history is then short enough for the
\* slice of appendSaveRevision to remove nothing.
Prunes(s) ==
    {d \in SUBSET (DOMAIN s.history \ {s.current}) :
        /\ \A r \in d, x \in DOMAIN s.history \ {s.current} : x < r => x \in d
        /\ Cardinality(DOMAIN s.history \ d) < HistoryLimit}

\* appendSaveRevision: one more revision, after the quota pruned d.
Appended(s, d, content) ==
    [current  |-> s.current + 1,
     history  |-> [r \in (DOMAIN s.history \ d) \union {s.current + 1} |->
                       IF r = s.current + 1 THEN content ELSE s.history[r]],
     receipts |-> s.receipts]

\* recordCloudPutOperationReceipt
Receipted(s, o) ==
    [s EXCEPT !.receipts = [x \in DOMAIN s.receipts \union {o} |->
                                IF x = o THEN Current(s) ELSE s.receipts[x]]]

\* deleteCloudSaveData
Emptied(s) == [current |-> 0, history |-> Nothing, receipts |-> s.receipts]

\* The expected revision is not the current one.
Outdated(s, q) == q.expected # s.current

-----------------------------------------------------------------------------
(* The promise *)

SlotInit ==
    /\ asked = [o \in Ops |-> Unasked]
    /\ saves = NoSaves

SlotAsk(o, q) ==
    /\ asked[o] = Unasked
    /\ asked' = [asked EXCEPT ![o] = q]
    /\ UNCHANGED saves

SlotPut(o) ==
    LET q == asked[o] IN
    /\ q.kind = "put" /\ ~Outdated(saves, q)
    /\ o \notin DOMAIN saves.receipts
    /\ \E d \in Prunes(saves) : saves' = Receipted(Appended(saves, d, q.content), o)
    /\ UNCHANGED asked

SlotRestore(o) ==
    LET q == asked[o] IN
    /\ q.kind = "restore" /\ ~Outdated(saves, q)
    /\ q.source \in DOMAIN saves.history
    /\ \E d \in Prunes(saves) : saves' = Appended(saves, d, saves.history[q.source])
    /\ UNCHANGED asked

SlotDelete(o) ==
    LET q == asked[o] IN
    /\ q.kind = "delete" /\ ~Outdated(saves, q)
    /\ saves' = Emptied(saves)
    /\ UNCHANGED asked

SlotNext ==
    \E o \in Ops : \/ \E q \in Requests : SlotAsk(o, q)
                   \/ SlotPut(o) \/ SlotRestore(o) \/ SlotDelete(o)

SlotSpec == SlotInit /\ [][SlotNext]_slotVars

-----------------------------------------------------------------------------
(* Properties *)

\* The current save is the newest of a history that the limit bounds: pruning never
\* takes it, and a revision number names one save until the slot is deleted.
CurrentIsNewest ==
    /\ saves.current = 0 <=> DOMAIN saves.history = {}
    /\ saves.current # 0 => saves.current \in DOMAIN saves.history
    /\ \A r \in DOMAIN saves.history : r <= saves.current
    /\ Cardinality(DOMAIN saves.history) <= HistoryLimit
=============================================================================
