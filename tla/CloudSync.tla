----------------------------- MODULE CloudSync ------------------------------
(***************************************************************************)
(* The game's devices in front of one cloud slot (src/game/cloud.ts, the    *)
(* automatic sync of App.tsx, GalaxyWorkspace.tsx).  A device remembers in  *)
(* a marker which cloud save its game goes back to.  It uploads over the    *)
(* revision it has read only when the marker names that very save, and asks *)
(* its player otherwise.  An upload without an answer is looked for in the  *)
(* cloud's metadata and among its receipts.                                 *)
(*                                                                          *)
(* The server is CloudSlot, which CloudSaves implements; a request reaches  *)
(* it late, or never, and so may its answer.                                *)
(***************************************************************************)
EXTENDS CloudSlot

CONSTANT Devices

\* A request names its device and is one of its numbered requests.
ASSUME SyncAssumption == /\ Ops \subseteq Devices \X Nat
                         /\ None \notin Ops

VARIABLES
    game,     \* the game each device plays, named by its content
    marker,   \* getCloudSyncMarker: the cloud save its game goes back to, or None
    view,     \* cloudSession.cloudSave: the metadata it has read last
    conflict, \* cloudConflict: the save its player is asked about, or None
    phase,    \* what it waits for
    op,       \* its request in progress, or None
    found,    \* the metadata in progress: confirmed, or read while confirming
    open,     \* requests the server has still to decide
    seen,     \* history variable: the contents a device's game goes back to, or that
              \* its player was shown and chose to overwrite
    mistaken, \* history variable: the contents of others' saves that a device has marked
              \* as its own upload
    unread,   \* history variable: the requests whose receipt was there and was not read
    made      \* history variable: the saves the slot has ever held

historyVars == <<seen, mistaken, unread>>
syncVars == <<asked, saves, game, marker, view, conflict, phase, op, found, open, historyVars, made>>

Owner(o) == o[1]
Played   == UNION {seen[d] : d \in Devices} \* every content is somebody's first

SyncInit ==
    /\ SlotInit
    /\ game \in [Devices -> Contents]
    /\ \A d, e \in Devices : game[d] = game[e] => d = e
    /\ marker = [d \in Devices |-> None]
    /\ view = [d \in Devices |-> NoEntry]
    /\ conflict = [d \in Devices |-> None]
    /\ phase = [d \in Devices |-> "idle"]
    /\ op = [d \in Devices |-> None]
    /\ found = [d \in Devices |-> None]
    /\ open = {}
    /\ seen = [d \in Devices |-> {game[d]}]
    /\ mistaken = [d \in Devices |-> {}]
    /\ unread = {}
    /\ made = {}

Entries == [revision : 0..Cardinality(Ops), content : Contents \union {None}]

SyncTypeOK ==
    /\ asked \in [Ops -> Requests \union {Unasked}]
    /\ game \in [Devices -> Contents]
    /\ marker \in [Devices -> Entries \union {None}]
    /\ view \in [Devices -> Entries]
    /\ conflict \in [Devices -> [remote : Entries \ {NoEntry}, local : Contents] \union {None}]
    /\ phase \in [Devices -> {"idle", "waiting", "confirming", "receipt", "refreshing"}]
    /\ op \in [Devices -> Ops \union {None}]
    /\ found \in [Devices -> Entries \union {None}]
    /\ open \subseteq Ops
    /\ seen \in [Devices -> SUBSET Contents]
    /\ mistaken \in [Devices -> SUBSET Contents]
    /\ unread \subseteq Ops
    /\ made \subseteq Entries \ {NoEntry}

-----------------------------------------------------------------------------
(* A device on its own *)

\* The player plays on (also while a request is under way, which has its own copy).
Play(d) ==
    /\ phase[d] = "idle"
    /\ \E c \in Contents \ Played :
          /\ game' = [game EXCEPT ![d] = c]
          /\ seen' = [seen EXCEPT ![d] = @ \union {c}]
    /\ UNCHANGED <<asked, saves, marker, view, conflict, phase, op, found, open, mistaken, unread>>

\* The metadata is read: the session is resumed, or the account page opened.
Look(d) ==
    /\ phase[d] = "idle"
    /\ view' = [view EXCEPT ![d] = Current(saves)]
    /\ UNCHANGED <<asked, saves, game, marker, conflict, phase, op, found, open, historyVars>>

\* The page is closed and opened again; the marker is in localStorage.
Reload(d) ==
    /\ phase[d] # "idle" \/ conflict[d] # None
    /\ phase' = [phase EXCEPT ![d] = "idle"]
    /\ op' = [op EXCEPT ![d] = None]
    /\ found' = [found EXCEPT ![d] = None]
    /\ conflict' = [conflict EXCEPT ![d] = None]
    /\ view' = [view EXCEPT ![d] = Current(saves)]
    /\ UNCHANGED <<asked, saves, game, marker, open, historyVars>>

-----------------------------------------------------------------------------
(* Asking the server *)

Request(d, q) ==
    \E o \in Ops :
        /\ Owner(o) = d
        /\ \A p \in Ops : Owner(p) = d /\ p[2] < o[2] => asked[p] # Unasked
        /\ SlotAsk(o, q)
        /\ open' = open \union {o}
        /\ phase' = [phase EXCEPT ![d] = "waiting"]
        /\ op' = [op EXCEPT ![d] = o]

\* Mutant: a device without a marker uploads over any save.
AsksMarked(d) == view[d] # NoEntry /\ marker[d] # None /\ view[d] # marker[d]

\* Mutant: an empty cloud slot counts as a changed one.
AsksAnyway(d) == IF marker[d] = None THEN game[d] # view[d].content ELSE view[d] # marker[d]

\* compareCloudSaveSummary: cloud-newer, conflict or unbound.
MustAsk(d) ==
    /\ view[d] # NoEntry
    /\ IF marker[d] = None THEN game[d] # view[d].content ELSE view[d] # marker[d]

\* The automatic sync, or the upload a player asks for.
Sync(d) ==
    /\ phase[d] = "idle" /\ conflict[d] = None
    /\ ~MustAsk(d)
    /\ Request(d, [kind |-> "put", expected |-> view[d].revision, content |-> game[d]])
    /\ UNCHANGED <<game, marker, view, conflict, found, historyVars>>

\* The player is asked which version to keep.
ShowConflict(d) ==
    /\ phase[d] = "idle" /\ conflict[d] = None
    /\ MustAsk(d)
    /\ conflict' = [conflict EXCEPT ![d] = [remote |-> view[d], local |-> game[d]]]
    /\ UNCHANGED <<asked, saves, game, marker, view, phase, op, found, open, historyVars>>

\* keepLocalConflictVersion
KeepLocal(d) ==
    /\ phase[d] = "idle" /\ conflict[d] # None
    /\ Request(d, [kind |-> "put", expected |-> conflict[d].remote.revision,
                   content |-> conflict[d].local])
    /\ seen' = [seen EXCEPT ![d] = @ \union {conflict[d].remote.content}]
    /\ UNCHANGED <<game, marker, view, conflict, found, mistaken, unread>>

\* A device takes over a save it has downloaded.
Takes(d, entry) ==
    /\ game' = [game EXCEPT ![d] = entry.content]
    /\ marker' = [marker EXCEPT ![d] = entry]
    /\ seen' = [seen EXCEPT ![d] = @ \union {entry.content}]
    /\ UNCHANGED <<asked, saves, phase, op, found, open, mistaken, unread>>

\* useCloudConflictVersion: the revision in the dialog, if the history still has it.
UseCloud(d) ==
    /\ phase[d] = "idle" /\ conflict[d] # None
    /\ conflict[d].remote.revision \in DOMAIN saves.history
    /\ LET r == conflict[d].remote.revision
           entry == [revision |-> r, content |-> saves.history[r]]
       IN  /\ Takes(d, entry)
           /\ view' = [view EXCEPT ![d] = entry]
    /\ conflict' = [conflict EXCEPT ![d] = None]

\* prepareCloudRestore or prepareHistoricalRestore, then restorePendingCloudSave.
Download(d) ==
    /\ phase[d] = "idle"
    /\ \E r \in DOMAIN saves.history : Takes(d, [revision |-> r, content |-> saves.history[r]])
    /\ UNCHANGED <<view, conflict>>

\* deleteSelectedCloudSave
AskDelete(d) ==
    /\ phase[d] = "idle" /\ view[d] # NoEntry
    /\ Request(d, [kind |-> "delete", expected |-> view[d].revision])
    /\ UNCHANGED <<game, marker, view, conflict, found, historyVars>>

\* makeHistoricalRevisionCurrent
AskRestore(d) ==
    /\ phase[d] = "idle" /\ view[d] # NoEntry
    /\ \E r \in DOMAIN saves.history :
          Request(d, [kind |-> "restore", expected |-> view[d].revision, source |-> r])
    /\ UNCHANGED <<game, marker, view, conflict, found, historyVars>>

-----------------------------------------------------------------------------
(* The server's decision, and its answer *)

Waits(o) == phase[Owner(o)] = "waiting" /\ op[Owner(o)] = o

\* The device is idle again.
Idles(d) ==
    /\ phase' = [phase EXCEPT ![d] = "idle"]
    /\ op' = [op EXCEPT ![d] = None]
    /\ found' = [found EXCEPT ![d] = None]

\* The answer is lost, or nobody waits for it any more.
Unheard == UNCHANGED <<game, marker, view, conflict, phase, op, found, historyVars>>

\* The upload is committed; the client will read the metadata before it marks it.
PutLands(o) ==
    /\ SlotPut(o)
    /\ open' = open \ {o}
    /\ \/ /\ Waits(o)
          /\ phase' = [phase EXCEPT ![Owner(o)] = "refreshing"]
          /\ found' = [found EXCEPT ![Owner(o)] = Current(saves')]
          /\ UNCHANGED <<game, marker, view, conflict, op, historyVars>>
       \/ Unheard

RestoreLands(o) ==
    /\ SlotRestore(o)
    /\ open' = open \ {o}
    /\ \/ /\ Waits(o)
          /\ Idles(Owner(o))
          /\ view' = [view EXCEPT ![Owner(o)] = Current(saves')]
          /\ UNCHANGED <<game, marker, conflict, historyVars>>
       \/ Unheard

\* clearCloudSyncMarker, updateCloudSlot
DeleteLands(o) ==
    /\ SlotDelete(o)
    /\ open' = open \ {o}
    /\ \/ /\ Waits(o)
          /\ Idles(Owner(o))
          /\ marker' = [marker EXCEPT ![Owner(o)] = None]
          /\ view' = [view EXCEPT ![Owner(o)] = NoEntry]
          /\ UNCHANGED <<game, conflict, historyVars>>
       \/ Unheard

\* The client is told of a conflict with a save the cloud has.
Disputes(o, remote) ==
    LET d == Owner(o) IN
    /\ Idles(d)
    /\ conflict' = IF asked[o].kind = "put" /\ remote # NoEntry
                   THEN [conflict EXCEPT ![d] = [remote |-> remote, local |-> asked[o].content]]
                   ELSE conflict
    /\ view' = IF asked[o].kind = "restore" /\ remote # NoEntry
               THEN [view EXCEPT ![d] = remote] ELSE view
    /\ UNCHANGED <<game, marker>>

\* 409
Conflicts(o) ==
    /\ Outdated(saves, asked[o])
    /\ open' = open \ {o}
    /\ \/ Waits(o) /\ Disputes(o, Current(saves)) /\ UNCHANGED historyVars
       \/ Unheard
    /\ UNCHANGED <<asked, saves>>

\* The request is turned down, or it never reaches the server.
Fails(o) ==
    /\ open' = open \ {o}
    /\ \/ /\ Waits(o)
          /\ Idles(Owner(o))
          /\ UNCHANGED <<game, marker, view, conflict, historyVars>>
       \/ Unheard
    /\ UNCHANGED <<asked, saves>>

Decide(o) == PutLands(o) \/ RestoreLands(o) \/ DeleteLands(o) \/ Conflicts(o) \/ Fails(o)

-----------------------------------------------------------------------------
(* An upload without an answer, and one that is confirmed *)

\* The request times out, the connection breaks or the player cancels: an upload is
\* confirmed, anything else is given up.
TimesOut(d) ==
    /\ phase[d] = "waiting"
    /\ IF asked[op[d]].kind = "put"
       THEN /\ phase' = [phase EXCEPT ![d] = "confirming"]
            /\ UNCHANGED <<op, found>>
       ELSE Idles(d)
    /\ UNCHANGED <<asked, saves, game, marker, view, conflict, open, historyVars>>

\* confirmTimedOutUpload reads the metadata first, or fails to.
ConfirmRead(d) ==
    /\ phase[d] = "confirming"
    /\ phase' = [phase EXCEPT ![d] = "receipt"]
    /\ \E entry \in {Current(saves), None} : found' = [found EXCEPT ![d] = entry]
    /\ UNCHANGED <<asked, saves, game, marker, view, conflict, op, open, historyVars>>

\* Mutant: the newest revision is taken for the upload without a look at its checksum.
MatchesRevision(entry, q) == entry.revision = q.expected + 1

\* cloudMetadataMatchesPayload
Matches(entry, q) == entry = [revision |-> q.expected + 1, content |-> q.content]

\* Mutant: the receipts are not asked.
NoReceipt(o) == FALSE

HasReceipt(o) == o \in DOMAIN saves.receipts

\* fetchCloudOperationReceipt: an error reads as "no receipt".
ReceiptReads(o) == IF HasReceipt(o) THEN {TRUE, FALSE} ELSE {FALSE}

\* Then the receipt, and the verdict.
ConfirmReceipt(d) ==
    LET o == op[d]
        q == asked[o]
        entry == found[d]
        newer == entry # None /\ entry.revision > q.expected
        same  == newer /\ Matches(entry, q)
        asks  == entry = None \/ entry.revision >= q.expected
    IN  /\ phase[d] = "receipt"
        /\ \E read \in ReceiptReads(o) :
              /\ IF same \/ (asks /\ read)
                 THEN /\ phase' = [phase EXCEPT ![d] = "refreshing"]
                      /\ found' = [found EXCEPT ![d] = IF same THEN entry ELSE saves.receipts[o]]
                      /\ UNCHANGED <<game, marker, view, conflict, op>>
                 ELSE IF newer THEN Disputes(o, entry)
                 ELSE Idles(d) /\ UNCHANGED <<game, marker, view, conflict>> \* status unknown
              /\ unread' = IF ~same /\ asks /\ HasReceipt(o) /\ ~read THEN unread \union {o}
                            ELSE unread
        /\ UNCHANGED <<asked, saves, open, seen, mistaken>>

\* The metadata the client goes on with after its upload: whatever is current by then,
\* or that of the upload when the reading fails or finds no save.
Refreshes(d) == {found[d]} \union ({Current(saves)} \ {NoEntry})

\* refreshCloudSaveMetadata, markCloudSaveSynchronized: not compared with the upload.
Refreshed(d) ==
    /\ phase[d] = "refreshing"
    /\ \E entry \in Refreshes(d) :
          /\ marker' = [marker EXCEPT ![d] = entry]
          /\ view' = [view EXCEPT ![d] = entry]
          /\ mistaken' = [mistaken EXCEPT ![d] =
                            IF entry = found[d] THEN @ ELSE @ \union {entry.content}]
    /\ conflict' = [conflict EXCEPT ![d] = None]
    /\ Idles(d)
    /\ UNCHANGED <<asked, saves, game, open, seen, unread>>

DeviceStep(d) ==
    \/ Play(d) \/ Look(d) \/ Reload(d)
    \/ Sync(d) \/ ShowConflict(d) \/ KeepLocal(d) \/ UseCloud(d) \/ Download(d)
    \/ AskDelete(d) \/ AskRestore(d)
    \/ TimesOut(d) \/ ConfirmRead(d) \/ ConfirmReceipt(d) \/ Refreshed(d)

SyncNext ==
    /\ \/ \E d \in Devices : DeviceStep(d)
       \/ \E o \in open : Decide(o)
    /\ made' = made \union ({Current(saves')} \ {NoEntry})

SyncSpec == SyncInit /\ [][SyncNext]_syncVars

-----------------------------------------------------------------------------
(* Properties *)

\* What a device may upload over: what its game goes back to, what its player chose to
\* overwrite, and what the client took for its own upload.
Known(d) == seen[d] \union mistaken[d]

\* No device's progress is overwritten unasked, but in two ways: the client has marked
\* another device's save as its own upload, or the revision it knows was given a
\* second time, after a deletion, to a save it does not know.
NoBlindOverwrite ==
    [][\A o \in DOMAIN saves'.receipts \ DOMAIN saves.receipts :
          saves.current # 0 =>
             \/ Current(saves).content \in Known(Owner(o))
             \/ \E m \in made : /\ m.revision = saves.current /\ m # Current(saves)
                               /\ m.content \in Known(Owner(o))]_syncVars

\* A device takes an upload for saved only if its content is what the cloud committed
\* under the revision the device thinks (the save may have been deleted since).
ConfirmedIsCommitted ==
    \A d \in Devices : phase[d] = "refreshing" =>
        found[d] \in made /\ found[d].content = asked[op[d]].content

Disputed(o) ==
    /\ op[Owner(o)] = o /\ asked[o].kind = "put"
    /\ conflict'[Owner(o)] \notin {None, conflict[Owner(o)]}

\* A player is asked about a conflict with what the own upload has become only when its
\* receipt could not be read.
ConflictsAreReal ==
    [][\A o \in Ops : Disputed(o) /\ o \in DOMAIN saves.receipts => o \in unread']_syncVars

\* docs/GAMEPLAY_SYSTEMS.md:317: the player chooses the version when saves conflict; so no
\* upload replaces a save that its device's game does not go back to and its player
\* has not chosen to overwrite (CloudRefresh.cfg, CloudReborn.cfg).
PlayerChooses ==
    [][\A o \in DOMAIN saves'.receipts \ DOMAIN saves.receipts :
          saves.current # 0 => Current(saves).content \in seen[Owner(o)]]_syncVars

\* The same when no client has marked another device's save (CloudReborn.cfg).
PlayerChoosesUnmistaken ==
    [][\A o \in DOMAIN saves'.receipts \ DOMAIN saves.receipts :
          saves.current # 0 => Current(saves).content \in Known(Owner(o))]_syncVars

\* No conflict at all is with the own upload (CloudFalseConflict.cfg).
NeverWithItself == [][\A o \in Ops : ~(Disputed(o) /\ o \in DOMAIN saves.receipts)]_syncVars
=============================================================================
