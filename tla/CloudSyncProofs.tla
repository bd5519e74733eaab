-------------------------- MODULE CloudSyncProofs ---------------------------
(***************************************************************************)
(* What holds of CloudSync for any devices, requests and contents.  The     *)
(* invariant relates three places: the slot and the saves it ever held      *)
(* (SlotOK), what each request asks for and what became of it (AskedOK),    *)
(* and what each device believes (DeviceOK).                                *)
(***************************************************************************)
EXTENDS CloudSync, TLAPS

Entry(r, c) == [revision |-> r, content |-> c]

-----------------------------------------------------------------------------
(* The inductive invariant *)

\* Every save in the history was made, and every save that was made has a revision.
SlotOK ==
    /\ saves = [current |-> saves.current, history |-> saves.history, receipts |-> saves.receipts]
    /\ saves.current \in Nat
    /\ DOMAIN saves.history \subseteq Nat \ {0}
    /\ saves.current # 0 => saves.current \in DOMAIN saves.history
    /\ \A r \in DOMAIN saves.history : Entry(r, saves.history[r]) \in made
    /\ \A m \in made : m = Entry(m.revision, m.content) /\ m.revision \in Nat \ {0}

\* The revision was given to a save the device knows.
Knows(d, revision) == \E m \in made : m.revision = revision /\ m.content \in Known(d)

\* An upload carries a game its device has seen, over nothing or over a revision that
\* was given to a save its device knows.
PutOK(o) ==
    /\ asked[o].content \in seen[Owner(o)]
    /\ asked[o].expected # 0 => Knows(Owner(o), asked[o].expected)

AskedOK(o) ==
    /\ asked[o] # Unasked =>
          /\ asked[o].kind \in {"put", "delete", "restore"}
          /\ asked[o].expected \in Nat
          /\ asked[o].kind = "put" => PutOK(o)
    /\ o \in open => asked[o] # Unasked /\ o \notin DOMAIN saves.receipts
    /\ o \in DOMAIN saves.receipts =>
          /\ asked[o] # Unasked /\ asked[o].kind = "put"
          /\ saves.receipts[o] \in made /\ saves.receipts[o].content = asked[o].content

\* A device's marker and view are saves that were made, its games are those it has seen,
\* and what it waits for is its own request.
DeviceOK(d) ==
    /\ game[d] \in seen[d]
    /\ marker[d] # None => marker[d] \in made /\ marker[d].content \in Known(d)
    /\ view[d] \in made \union {NoEntry}
    /\ conflict[d] # None => conflict[d].remote \in made /\ conflict[d].local \in seen[d]
    /\ phase[d] \in {"idle", "waiting", "confirming", "receipt", "refreshing"}
    /\ IF phase[d] = "idle" THEN op[d] = None
       ELSE op[d] \in Ops /\ Owner(op[d]) = d /\ asked[op[d]] # Unasked
    /\ phase[d] \in {"confirming", "receipt", "refreshing"} => asked[op[d]].kind = "put"
    /\ phase[d] = "receipt" /\ found[d] # None => found[d] \in made \union {NoEntry}
    /\ phase[d] = "refreshing" => found[d] \in made /\ found[d].content = asked[op[d]].content

Functions ==
    /\ asked = [o \in Ops |-> asked[o]]
    /\ game = [d \in Devices |-> game[d]]         /\ marker = [d \in Devices |-> marker[d]]
    /\ view = [d \in Devices |-> view[d]]         /\ conflict = [d \in Devices |-> conflict[d]]
    /\ phase = [d \in Devices |-> phase[d]]       /\ op = [d \in Devices |-> op[d]]
    /\ found = [d \in Devices |-> found[d]]       /\ seen = [d \in Devices |-> seen[d]]
    /\ mistaken = [d \in Devices |-> mistaken[d]]
    /\ open \subseteq Ops /\ DOMAIN saves.receipts \subseteq Ops

SyncInv ==
    /\ Functions /\ SlotOK
    /\ \A o \in Ops : AskedOK(o)
    /\ \A d \in Devices : DeviceOK(d)

-----------------------------------------------------------------------------
(* What a step leaves alone *)

\* Saves, requests and what players have seen are only added to.
Grows ==
    /\ made \subseteq made'
    /\ \A o \in Ops : asked[o] # Unasked => asked'[o] = asked[o]
    /\ \A d \in Devices : seen[d] \subseteq seen'[d] /\ mistaken[d] \subseteq mistaken'[d]

Keeps ==
    made' = made \union ({Current(saves')} \ {NoEntry})

\* The device takes no part in the step.
Same(d) ==
    /\ game'[d] = game[d] /\ marker'[d] = marker[d] /\ view'[d] = view[d]
    /\ conflict'[d] = conflict[d] /\ phase'[d] = phase[d] /\ op'[d] = op[d]
    /\ found'[d] = found[d]

LEMMA Bystander ==
    ASSUME NEW d \in Devices, DeviceOK(d), Grows, Same(d)
    PROVE  DeviceOK(d)'
BY DEF DeviceOK, Grows, Same, Known

\* What is current was made.
LEMMA CurrentMade ==
    ASSUME SlotOK
    PROVE  /\ Current(saves) \in made \union {NoEntry}
           /\ Current(saves) # NoEntry => Current(saves) = Entry(saves.current, saves.history[saves.current])
           /\ saves.current # 0 => Current(saves) \in made
           /\ Current(saves).revision = saves.current
           /\ NoEntry \notin made
BY DEF SlotOK, Current, Entry, NoEntry

LEMMA SlotStays ==
    ASSUME SlotOK, saves' = saves, Keeps
    PROVE  SlotOK' /\ made' = made
<1>1. made' = made
  BY CurrentMade DEF Keeps
<1> QED BY <1>1 DEF SlotOK

LEMMA AskedStays ==
    ASSUME NEW o \in Ops, AskedOK(o), saves' = saves, made' = made, Grows,
           asked'[o] = asked[o], open' \subseteq open, Owner(o) \in Devices
    PROVE  AskedOK(o)'
BY DEF AskedOK, PutOK, Knows, Known, Grows, Owner

LEMMA OwnerIsDevice == \A o \in Ops : Owner(o) \in Devices
BY SyncAssumption DEF Owner

\* A step of one device that asks nothing of the server.
LEMMA LocalStep ==
    ASSUME SyncInv, NEW d \in Devices, UNCHANGED <<asked, saves>>, open' \subseteq open, Keeps,
           Functions', \A e \in Devices : seen[e] \subseteq seen'[e],
           \A e \in Devices : mistaken[e] \subseteq mistaken'[e],
           \A e \in Devices \ {d} : Same(e),
           Grows => DeviceOK(d)'
    PROVE  SyncInv'
<1>1. SlotOK' /\ made' = made
  BY SlotStays DEF SyncInv
<1>2. Grows
  BY <1>1 DEF Grows
<1>3. \A o \in Ops : AskedOK(o)'
  BY <1>1, <1>2, AskedStays, OwnerIsDevice DEF SyncInv
<1>4. \A e \in Devices : DeviceOK(e)'
  BY <1>2, Bystander DEF SyncInv
<1> QED BY <1>1, <1>3, <1>4 DEF SyncInv

\* A device asks for something over a save it knows.
LEMMA RequestStep ==
    ASSUME SyncInv, NEW d \in Devices, NEW q, Request(d, q), Keeps,
           UNCHANGED <<game, marker, view, conflict, found, mistaken>>,
           seen' = [e \in Devices |-> seen'[e]], \A e \in Devices : seen[e] \subseteq seen'[e],
           phase[d] = "idle", q # Unasked,
           q.kind \in {"put", "delete", "restore"}, q.expected \in Nat,
           q.kind = "put" =>
               /\ q.content \in seen'[d]
               /\ q.expected # 0 =>
                     \E m \in made : m.revision = q.expected /\ m.content \in seen'[d] \union mistaken[d]
    PROVE  SyncInv'
<1>1. PICK o \in Ops : /\ Owner(o) = d /\ SlotAsk(o, q) /\ open' = open \union {o}
                       /\ phase' = [phase EXCEPT ![d] = "waiting"]
                       /\ op' = [op EXCEPT ![d] = o]
  BY DEF Request
<1>2. /\ asked[o] = Unasked /\ asked' = [asked EXCEPT ![o] = q] /\ saves' = saves
  BY <1>1 DEF SlotAsk
<1>3. SlotOK' /\ made' = made
  BY <1>2, SlotStays DEF SyncInv
<1>4. asked'[o] = q /\ \A p \in Ops \ {o} : asked'[p] = asked[p]
  BY <1>1, <1>2 DEF SyncInv, Functions
<1>5. Grows
  BY <1>2, <1>3, <1>4 DEF Grows
<1>6. ASSUME NEW p \in Ops PROVE AskedOK(p)'
  <2>1. CASE p = o
    BY <1>1, <1>2, <1>3, <1>4, <2>1 DEF SyncInv, AskedOK, PutOK, Knows, Known, Owner
  <2>2. CASE p # o
    BY <1>1, <1>2, <1>3, <1>4, <1>5, <2>2, OwnerIsDevice
       DEF SyncInv, AskedOK, PutOK, Knows, Known, Grows, Owner
  <2> QED BY <2>1, <2>2
<1>7. ASSUME NEW e \in Devices PROVE DeviceOK(e)'
  <2>1. CASE e = d
    <3>1. phase'[d] = "waiting" /\ op'[d] = o
      BY <1>1 DEF SyncInv, Functions
    <3>2. asked'[o] # Unasked
      BY <1>4
    <3> QED BY <1>1, <1>3, <1>5, <2>1, <3>1, <3>2 DEF SyncInv, DeviceOK, Known, Grows
  <2>2. CASE e # d
    BY <1>1, <1>5, <2>2, Bystander DEF SyncInv, Same, Functions
  <2> QED BY <2>1, <2>2
<1>8. Functions'
  BY <1>1, <1>2 DEF SyncInv, Functions
<1> QED BY <1>3, <1>6, <1>7, <1>8 DEF SyncInv

-----------------------------------------------------------------------------
(* The steps of a device *)

LEMMA PlayKeeps == ASSUME SyncInv, NEW d \in Devices, Play(d), Keeps PROVE SyncInv'
<1>1. PICK c : /\ game' = [game EXCEPT ![d] = c] /\ seen' = [seen EXCEPT ![d] = @ \union {c}]
  BY DEF Play
<1>2. UNCHANGED <<asked, saves, marker, view, conflict, phase, op, found, open, mistaken>>
  BY DEF Play
<1>3. Functions'
  BY <1>1, <1>2 DEF SyncInv, Functions
<1>4. Grows => DeviceOK(d)'
  BY <1>1, <1>2 DEF SyncInv, Functions, DeviceOK, Known, Grows
<1>5. \A e \in Devices : /\ seen[e] \subseteq seen'[e] /\ mistaken[e] \subseteq mistaken'[e]
                        /\ e # d => Same(e)
  BY <1>1, <1>2 DEF SyncInv, Functions, Same
<1> QED BY <1>1, <1>2, <1>3, <1>4, <1>5, LocalStep

LEMMA LookKeeps == ASSUME SyncInv, NEW d \in Devices, Look(d), Keeps PROVE SyncInv'
<1>1. /\ view' = [view EXCEPT ![d] = Current(saves)]
      /\ UNCHANGED <<asked, saves, game, marker, conflict, phase, op, found, open, seen, mistaken>>
  BY DEF Look, historyVars
<1>2. Functions'
  BY <1>1 DEF SyncInv, Functions
<1>3. Grows => DeviceOK(d)'
  BY <1>1, CurrentMade DEF SyncInv, Functions, DeviceOK, Known, Grows
<1>4. \A e \in Devices : /\ seen[e] \subseteq seen'[e] /\ mistaken[e] \subseteq mistaken'[e]
                        /\ e # d => Same(e)
  BY <1>1 DEF SyncInv, Functions, Same
<1> QED BY <1>1, <1>2, <1>3, <1>4, LocalStep

LEMMA ReloadKeeps == ASSUME SyncInv, NEW d \in Devices, Reload(d), Keeps PROVE SyncInv'
<1>1. /\ phase' = [phase EXCEPT ![d] = "idle"] /\ op' = [op EXCEPT ![d] = None]
      /\ found' = [found EXCEPT ![d] = None] /\ conflict' = [conflict EXCEPT ![d] = None]
      /\ view' = [view EXCEPT ![d] = Current(saves)]
      /\ UNCHANGED <<asked, saves, game, marker, open, seen, mistaken>>
  BY DEF Reload, historyVars
<1>2. Functions'
  BY <1>1 DEF SyncInv, Functions
<1>3. Grows => DeviceOK(d)'
  BY <1>1, CurrentMade DEF SyncInv, Functions, DeviceOK, Known, Grows
<1>4. \A e \in Devices : /\ seen[e] \subseteq seen'[e] /\ mistaken[e] \subseteq mistaken'[e]
                        /\ e # d => Same(e)
  BY <1>1 DEF SyncInv, Functions, Same
<1> QED BY <1>1, <1>2, <1>3, <1>4, LocalStep

\* The marker names the save that was read, or the games are the same: the device knows
\* what it uploads over.
LEMMA SyncKeeps == ASSUME SyncInv, NEW d \in Devices, Sync(d), Keeps PROVE SyncInv'
<1> DEFINE q == [kind |-> "put", expected |-> view[d].revision, content |-> game[d]]
<1>1. /\ phase[d] = "idle" /\ ~MustAsk(d) /\ Request(d, q)
      /\ UNCHANGED <<game, marker, view, conflict, found, seen, mistaken>>
  BY DEF Sync, historyVars
<1>2. view[d] \in made \union {NoEntry} /\ game[d] \in seen[d]
      /\ (marker[d] # None => marker[d] \in made /\ marker[d].content \in Known(d))
  BY DEF SyncInv, DeviceOK
<1>3. q.expected \in Nat
  BY <1>2 DEF SyncInv, SlotOK, NoEntry
<1>4. q.expected # 0 =>
         \E m \in made : m.revision = q.expected /\ m.content \in seen[d] \union mistaken[d]
  <2>1. CASE view[d] = NoEntry
    BY <2>1 DEF NoEntry
  <2>2. CASE view[d] # NoEntry
    BY <1>1, <1>2, <2>2 DEF MustAsk, Known
  <2> QED BY <2>1, <2>2
<1>5. q # Unasked
  BY DEF Unasked
<1>6. seen' = [e \in Devices |-> seen'[e]]
  BY <1>1 DEF SyncInv, Functions
<1> QED BY <1>1, <1>2, <1>3, <1>4, <1>5, <1>6, RequestStep

LEMMA ShowConflictKeeps ==
    ASSUME SyncInv, NEW d \in Devices, ShowConflict(d), Keeps PROVE SyncInv'
<1>1. /\ conflict' = [conflict EXCEPT ![d] = [remote |-> view[d], local |-> game[d]]]
      /\ view[d] # NoEntry
      /\ UNCHANGED <<asked, saves, game, marker, view, phase, op, found, open, seen, mistaken>>
  BY DEF ShowConflict, MustAsk, historyVars
<1>2. Functions'
  BY <1>1 DEF SyncInv, Functions
<1>3. Grows => DeviceOK(d)'
  BY <1>1 DEF SyncInv, Functions, DeviceOK, Known, Grows
<1>4. \A e \in Devices : /\ seen[e] \subseteq seen'[e] /\ mistaken[e] \subseteq mistaken'[e]
                        /\ e # d => Same(e)
  BY <1>1 DEF SyncInv, Functions, Same
<1> QED BY <1>1, <1>2, <1>3, <1>4, LocalStep

\* The player was shown the save that is replaced.
LEMMA KeepLocalKeeps == ASSUME SyncInv, NEW d \in Devices, KeepLocal(d), Keeps PROVE SyncInv'
<1> DEFINE remote == conflict[d].remote
           q == [kind |-> "put", expected |-> remote.revision, content |-> conflict[d].local]
<1>1. /\ phase[d] = "idle" /\ conflict[d] # None /\ Request(d, q)
      /\ seen' = [seen EXCEPT ![d] = @ \union {remote.content}]
      /\ UNCHANGED <<game, marker, view, conflict, found, mistaken>>
  BY DEF KeepLocal
<1>2. remote \in made /\ conflict[d].local \in seen[d]
  BY <1>1 DEF SyncInv, DeviceOK
<1>3. /\ seen'[d] = seen[d] \union {remote.content}
      /\ seen' = [e \in Devices |-> seen'[e]] /\ \A e \in Devices : seen[e] \subseteq seen'[e]
  BY <1>1 DEF SyncInv, Functions
<1>4. q.expected \in Nat
  BY <1>2 DEF SyncInv, SlotOK
<1>5. \E m \in made : m.revision = q.expected /\ m.content \in seen'[d] \union mistaken[d]
  BY <1>2, <1>3
<1>6. q # Unasked
  BY DEF Unasked
<1> HIDE DEF remote
<1> QED BY <1>1, <1>2, <1>3, <1>4, <1>5, <1>6, RequestStep

\* A save taken over from the history.
LEMMA TakesKeeps ==
    ASSUME SyncInv, NEW d \in Devices, NEW r \in DOMAIN saves.history, Keeps,
           Takes(d, Entry(r, saves.history[r])), Functions',
           \A e \in Devices \ {d} : view'[e] = view[e] /\ conflict'[e] = conflict[e],
           view'[d] \in {view[d], Entry(r, saves.history[r])}, conflict'[d] \in {None, conflict[d]}
    PROVE  SyncInv'
<1> DEFINE entry == Entry(r, saves.history[r])
<1>1. entry \in made
  BY DEF SyncInv, SlotOK
<1> HIDE DEF entry
<1>2. /\ game' = [game EXCEPT ![d] = entry.content] /\ marker' = [marker EXCEPT ![d] = entry]
      /\ seen' = [seen EXCEPT ![d] = @ \union {entry.content}]
      /\ UNCHANGED <<asked, saves, phase, op, found, open, mistaken>>
  BY DEF Takes, entry
<1>3. view'[d] \in {view[d], entry}
  BY DEF entry
<1>4. Grows => DeviceOK(d)'
  BY <1>1, <1>2, <1>3, ZenonT(60) DEF SyncInv, Functions, DeviceOK, Known, Grows
<1>5. \A e \in Devices : /\ seen[e] \subseteq seen'[e] /\ mistaken[e] \subseteq mistaken'[e]
                        /\ e # d => Same(e)
  BY <1>2 DEF SyncInv, Functions, Same
<1> QED BY <1>2, <1>4, <1>5, LocalStep

LEMMA UseCloudKeeps == ASSUME SyncInv, NEW d \in Devices, UseCloud(d), Keeps PROVE SyncInv'
<1> DEFINE r == conflict[d].remote.revision
<1>1. /\ r \in DOMAIN saves.history /\ Takes(d, Entry(r, saves.history[r]))
      /\ view' = [view EXCEPT ![d] = Entry(r, saves.history[r])]
      /\ conflict' = [conflict EXCEPT ![d] = None]
  BY DEF UseCloud, Entry
<1>2. Functions'
  BY <1>1 DEF SyncInv, Functions, Takes
<1> HIDE DEF r
<1>3. /\ view'[d] = Entry(r, saves.history[r]) /\ conflict'[d] = None
      /\ \A e \in Devices \ {d} : view'[e] = view[e] /\ conflict'[e] = conflict[e]
  BY <1>1 DEF SyncInv, Functions
<1> QED BY <1>1, <1>2, <1>3, TakesKeeps

LEMMA DownloadKeeps == ASSUME SyncInv, NEW d \in Devices, Download(d), Keeps PROVE SyncInv'
<1>1. PICK r \in DOMAIN saves.history : Takes(d, Entry(r, saves.history[r]))
  BY DEF Download, Entry
<1>2. UNCHANGED <<view, conflict>>
  BY DEF Download
<1>3. Functions'
  BY <1>1, <1>2 DEF SyncInv, Functions, Takes
<1> QED BY <1>1, <1>2, <1>3, TakesKeeps

LEMMA AskDeleteKeeps == ASSUME SyncInv, NEW d \in Devices, AskDelete(d), Keeps PROVE SyncInv'
<1> DEFINE q == [kind |-> "delete", expected |-> view[d].revision]
<1>1. /\ phase[d] = "idle" /\ view[d] # NoEntry /\ Request(d, q)
      /\ UNCHANGED <<game, marker, view, conflict, found, seen, mistaken>>
  BY DEF AskDelete, historyVars
<1>2. q.expected \in Nat /\ q # Unasked
  BY <1>1 DEF SyncInv, DeviceOK, SlotOK, Unasked
<1>3. seen' = [e \in Devices |-> seen'[e]]
  BY <1>1 DEF SyncInv, Functions
<1> QED BY <1>1, <1>2, <1>3, RequestStep

LEMMA AskRestoreKeeps == ASSUME SyncInv, NEW d \in Devices, AskRestore(d), Keeps PROVE SyncInv'
<1>1. PICK r : Request(d, [kind |-> "restore", expected |-> view[d].revision, source |-> r])
  BY DEF AskRestore
<1> DEFINE q == [kind |-> "restore", expected |-> view[d].revision, source |-> r]
<1>2. /\ phase[d] = "idle" /\ view[d] # NoEntry /\ Request(d, q)
      /\ UNCHANGED <<game, marker, view, conflict, found, seen, mistaken>>
  BY <1>1 DEF AskRestore, historyVars
<1>3. q.expected \in Nat /\ q # Unasked
  BY <1>2 DEF SyncInv, DeviceOK, SlotOK, Unasked
<1>4. seen' = [e \in Devices |-> seen'[e]]
  BY <1>2 DEF SyncInv, Functions
<1> QED BY <1>2, <1>3, <1>4, RequestStep

-----------------------------------------------------------------------------
(* The server's decision *)

\* One more revision: a save the slot has never held.
LEMMA SlotAppends ==
    ASSUME SyncInv, NEW D, NEW c, NEW R, Keeps,
           saves' = [current |-> saves.current + 1, history |-> Appended(saves, D, c).history,
                     receipts |-> R]
    PROVE  /\ SlotOK' /\ made' = made \union {Entry(saves.current + 1, c)}
           /\ Current(saves') = Entry(saves.current + 1, c)
<1> DEFINE new == Entry(saves.current + 1, c)
<1>1. /\ saves.current \in Nat /\ saves'.current = saves.current + 1 /\ saves'.receipts = R
      /\ saves'.history = [r \in (DOMAIN saves.history \ D) \union {saves.current + 1} |->
                               IF r = saves.current + 1 THEN c ELSE saves.history[r]]
  BY DEF SyncInv, SlotOK, Appended
<1>2. Current(saves') = new /\ new # NoEntry
  BY <1>1 DEF Current, Entry, NoEntry
<1>3. made' = made \union {new}
  BY <1>2 DEF Keeps
<1>4. \A r \in DOMAIN saves'.history : Entry(r, saves'.history[r]) \in made'
  BY <1>1, <1>3 DEF SyncInv, SlotOK
<1>5. \A m \in made' : m = Entry(m.revision, m.content) /\ m.revision \in Nat \ {0}
  <2>1. new.revision = saves.current + 1 /\ new.content = c
    BY DEF Entry
  <2> QED BY <1>1, <1>3, <2>1 DEF SyncInv, SlotOK
<1>6. DOMAIN saves'.history \subseteq Nat \ {0} /\ saves'.current \in DOMAIN saves'.history
  BY <1>1 DEF SyncInv, SlotOK
<1> QED BY <1>1, <1>2, <1>3, <1>4, <1>5, <1>6 DEF SlotOK

\* What is asked stays good when the slot gets a revision more.
LEMMA AskedOutgrows ==
    ASSUME SyncInv, NEW p \in Ops, NEW c, asked' = asked, seen' = seen, mistaken' = mistaken, open' \subseteq open,
           saves'.current = saves.current + 1, made' = made \union {Entry(saves.current + 1, c)},
           p \in DOMAIN saves'.receipts <=> p \in DOMAIN saves.receipts,
           p \in DOMAIN saves.receipts => saves'.receipts[p] = saves.receipts[p]
    PROVE  AskedOK(p)'
<1>1. PutOK(p) => PutOK(p)'
  BY DEF PutOK, Knows, Known, Owner
<1> QED BY <1>1 DEF SyncInv, AskedOK

\* The devices other than the one that hears of it take no part.
LEMMA UnheardSame ==
    ASSUME Unheard PROVE seen' = seen /\ mistaken' = mistaken /\ \A e : Same(e)
BY DEF Unheard, Same, historyVars

LEMMA PutLandsKeeps == ASSUME SyncInv, NEW o \in open, PutLands(o), Keeps PROVE SyncInv'
<1> DEFINE d == Owner(o)
           c == asked[o].content
<1>1. o \in Ops /\ d \in Devices /\ SlotPut(o) /\ open' = open \ {o} /\ asked' = asked
  BY OwnerIsDevice DEF PutLands, SlotPut, SyncInv, Functions
<1>2. asked[o].kind = "put" /\ o \notin DOMAIN saves.receipts
  BY <1>1 DEF SlotPut
<1>3. PICK D : saves' = Receipted(Appended(saves, D, c), o)
  BY <1>1 DEF SlotPut
<1> DEFINE s == Appended(saves, D, c)
           R == [x \in DOMAIN saves.receipts \union {o} |->
                    IF x = o THEN Current(s) ELSE saves.receipts[x]]
<1>4. saves' = [current |-> saves.current + 1, history |-> s.history, receipts |-> R]
  BY <1>3 DEF Receipted, Appended
<1> HIDE DEF s
<1>5. /\ SlotOK' /\ made' = made \union {Entry(saves.current + 1, c)}
      /\ Current(saves') = Entry(saves.current + 1, c)
  <2> HIDE DEF R, c
  <2> QED BY <1>4, SlotAppends DEF s
<1>6. Current(s) = Current(saves')
  BY <1>4 DEF Current, s, Appended
<1>7. /\ DOMAIN saves'.receipts = DOMAIN saves.receipts \union {o}
      /\ saves'.receipts[o] = Entry(saves.current + 1, c)
      /\ \A x \in DOMAIN saves.receipts : saves'.receipts[x] = saves.receipts[x]
      /\ saves'.current = saves.current + 1
  BY <1>2, <1>4, <1>5, <1>6
<1>8. \/ /\ Waits(o)
         /\ phase' = [phase EXCEPT ![d] = "refreshing"]
         /\ found' = [found EXCEPT ![d] = Current(saves')]
         /\ UNCHANGED <<game, marker, view, conflict, op, seen, mistaken>>
      \/ Unheard
  BY DEF PutLands, historyVars
<1>9. seen' = seen /\ mistaken' = mistaken /\ Grows
  BY <1>1, <1>5, <1>8 DEF Unheard, Grows, historyVars
<1>10. ASSUME NEW p \in Ops PROVE AskedOK(p)'
  <2>1. CASE p = o
    <3>1. PutOK(o)'
      <4>1. PutOK(o)
        BY <1>1, <1>2, <2>1 DEF SyncInv, AskedOK
      <4> QED BY <1>1, <1>5, <1>9, <4>1 DEF PutOK, Knows, Known, Owner
    <3>2. Entry(saves.current + 1, c).content = asked'[o].content
      BY <1>1 DEF Entry
    <3>3. Entry(saves.current + 1, c) \in made'
      BY <1>5
    <3> HIDE DEF c
    <3> QED BY <1>1, <1>2, <1>7, <2>1, <3>1, <3>2, <3>3 DEF SyncInv, AskedOK
  <2>2. CASE p # o
    BY <1>1, <1>5, <1>7, <1>9, <2>2, AskedOutgrows
  <2> QED BY <2>1, <2>2
<1>11. Functions'
  <2>1. DOMAIN saves'.receipts \subseteq Ops
    BY <1>1, <1>7 DEF SyncInv, Functions
  <2> QED BY <1>1, <1>8, <2>1 DEF SyncInv, Functions, Unheard, historyVars
<1>12. ASSUME NEW e \in Devices PROVE DeviceOK(e)'
  <2>1. CASE Same(e)
    BY <1>9, <2>1, Bystander DEF SyncInv
  <2>2. CASE ~Same(e)
    <3>1. /\ Waits(o) /\ e = d
          /\ phase'[d] = "refreshing" /\ found'[d] = Entry(saves.current + 1, c)
          /\ UNCHANGED <<game, marker, view, conflict, op, seen, mistaken>>
      BY <1>1, <1>5, <1>8, <2>2, UnheardSame DEF SyncInv, Functions, Same
    <3>2. op[d] = o /\ phase[d] = "waiting"
      BY <3>1 DEF Waits
    <3>3. Entry(saves.current + 1, c).content = asked'[o].content
      BY <1>1 DEF Entry
    <3>4. DeviceOK(d)
      BY <1>1 DEF SyncInv
    <3> HIDE DEF c
    <3> QED BY <1>1, <1>2, <1>5, <1>9, <3>1, <3>2, <3>3, <3>4 DEF DeviceOK, Known, Grows
  <2> QED BY <2>1, <2>2
<1> QED BY <1>5, <1>10, <1>11, <1>12 DEF SyncInv

\* The device that hears of the end of its request is idle.
LEMMA IdlesOK ==
    ASSUME SyncInv, NEW d \in Devices, Idles(d), Grows, game' = game,
           marker'[d] \in {None, marker[d]}, view'[d] \in made' \union {NoEntry},
           conflict'[d] # None => conflict'[d].remote \in made' /\ conflict'[d].local \in seen'[d]
    PROVE  DeviceOK(d)' /\ \A e \in Devices \ {d} : phase'[e] = phase[e] /\ op'[e] = op[e]
                                                  /\ found'[e] = found[e]
<1>1. phase'[d] = "idle" /\ op'[d] = None
  BY DEF Idles, SyncInv, Functions
<1>2. DeviceOK(d)
  BY DEF SyncInv
<1>3. DeviceOK(d)'
  BY <1>1, <1>2 DEF DeviceOK, Known, Grows
<1> QED BY <1>3 DEF Idles, SyncInv, Functions

LEMMA RestoreLandsKeeps == ASSUME SyncInv, NEW o \in open, RestoreLands(o), Keeps PROVE SyncInv'
<1> DEFINE d == Owner(o)
           c == saves.history[asked[o].source]
<1>1. o \in Ops /\ d \in Devices /\ SlotRestore(o) /\ open' = open \ {o} /\ asked' = asked
  BY OwnerIsDevice DEF RestoreLands, SlotRestore, SyncInv, Functions
<1>2. PICK D : saves' = Appended(saves, D, c)
  BY <1>1 DEF SlotRestore
<1>3. saves' = [current |-> saves.current + 1, history |-> Appended(saves, D, c).history,
                receipts |-> saves.receipts]
  BY <1>2 DEF Appended
<1> HIDE DEF c
<1>4. /\ SlotOK' /\ made' = made \union {Entry(saves.current + 1, c)}
      /\ Current(saves') = Entry(saves.current + 1, c)
  BY <1>3, SlotAppends
<1>5. saves'.receipts = saves.receipts /\ saves'.current = saves.current + 1
  BY <1>3
<1>6. \/ /\ Waits(o) /\ Idles(d)
         /\ view' = [view EXCEPT ![d] = Current(saves')]
         /\ UNCHANGED <<game, marker, conflict, seen, mistaken>>
      \/ Unheard
  BY DEF RestoreLands, historyVars
<1>7. seen' = seen /\ mistaken' = mistaken /\ Grows
  BY <1>1, <1>4, <1>6 DEF Unheard, Grows, historyVars
<1>8. \A p \in Ops : AskedOK(p)'
  BY <1>1, <1>4, <1>5, <1>7, AskedOutgrows
<1>9. Functions'
  BY <1>1, <1>5, <1>6 DEF SyncInv, Functions, Unheard, Idles, historyVars
<1>10. CASE Unheard
  BY <1>4, <1>7, <1>8, <1>9, <1>10, UnheardSame, Bystander DEF SyncInv
<1>11. CASE /\ Idles(d) /\ view' = [view EXCEPT ![d] = Current(saves')]
            /\ UNCHANGED <<game, marker, conflict, seen, mistaken>>
  <2>1. view'[d] = Entry(saves.current + 1, c) /\ \A e \in Devices \ {d} : view'[e] = view[e]
    BY <1>1, <1>4, <1>11 DEF SyncInv, Functions
  <2>2. DeviceOK(d)
    BY <1>1 DEF SyncInv
  <2>3. conflict'[d] # None => conflict'[d].remote \in made' /\ conflict'[d].local \in seen'[d]
    BY <1>4, <1>11, <2>2 DEF DeviceOK
  <2> HIDE DEF d
  <2>4. DeviceOK(d)' /\ \A e \in Devices \ {d} : phase'[e] = phase[e] /\ op'[e] = op[e]
                                                /\ found'[e] = found[e]
    BY <1>1, <1>4, <1>7, <1>11, <2>1, <2>3, IdlesOK
  <2>5. \A e \in Devices \ {d} : Same(e)
    BY <1>11, <2>1, <2>4 DEF Same
  <2> QED BY <1>4, <1>7, <1>8, <1>9, <2>4, <2>5, Bystander DEF SyncInv
<1> QED BY <1>6, <1>10, <1>11

LEMMA DeleteLandsKeeps == ASSUME SyncInv, NEW o \in open, DeleteLands(o), Keeps PROVE SyncInv'
<1> DEFINE d == Owner(o)
<1>1. o \in Ops /\ d \in Devices /\ SlotDelete(o) /\ open' = open \ {o} /\ asked' = asked
  BY OwnerIsDevice DEF DeleteLands, SlotDelete, SyncInv, Functions
<1>2. saves' = [current |-> 0, history |-> Nothing, receipts |-> saves.receipts]
  BY <1>1 DEF SlotDelete, Emptied
<1>3. DOMAIN saves'.history = {}
  BY <1>2 DEF Nothing
<1>4. made' = made
  BY <1>2 DEF Keeps, Current
<1>5. SlotOK'
  BY <1>2, <1>3, <1>4 DEF SyncInv, SlotOK
<1>6. \/ /\ Waits(o) /\ Idles(d)
         /\ marker' = [marker EXCEPT ![d] = None] /\ view' = [view EXCEPT ![d] = NoEntry]
         /\ UNCHANGED <<game, conflict, seen, mistaken>>
      \/ Unheard
  BY DEF DeleteLands, historyVars
<1>7. seen' = seen /\ mistaken' = mistaken /\ Grows
  BY <1>1, <1>4, <1>6 DEF Unheard, Grows, historyVars
<1>8. \A p \in Ops : AskedOK(p)'
  BY <1>1, <1>2, <1>4, <1>7 DEF SyncInv, AskedOK, PutOK, Knows, Known, Owner
<1>9. Functions'
  BY <1>1, <1>2, <1>6 DEF SyncInv, Functions, Unheard, Idles, historyVars
<1>10. CASE Unheard
  BY <1>5, <1>7, <1>8, <1>9, <1>10, UnheardSame, Bystander DEF SyncInv
<1>11. CASE /\ Idles(d) /\ marker' = [marker EXCEPT ![d] = None]
            /\ view' = [view EXCEPT ![d] = NoEntry] /\ UNCHANGED <<game, conflict, seen, mistaken>>
  <2>1. /\ marker'[d] = None /\ view'[d] = NoEntry
        /\ \A e \in Devices \ {d} : view'[e] = view[e] /\ marker'[e] = marker[e]
    BY <1>1, <1>11 DEF SyncInv, Functions
  <2>2. DeviceOK(d)
    BY <1>1 DEF SyncInv
  <2>3. conflict'[d] # None => conflict'[d].remote \in made' /\ conflict'[d].local \in seen'[d]
    BY <1>4, <1>11, <2>2 DEF DeviceOK
  <2> HIDE DEF d
  <2>4. DeviceOK(d)' /\ \A e \in Devices \ {d} : phase'[e] = phase[e] /\ op'[e] = op[e]
                                                /\ found'[e] = found[e]
    BY <1>1, <1>7, <1>11, <2>1, <2>3, IdlesOK
  <2>5. \A e \in Devices \ {d} : Same(e)
    BY <1>11, <2>1, <2>4 DEF Same
  <2> QED BY <1>5, <1>7, <1>8, <1>9, <2>4, <2>5, Bystander DEF SyncInv
<1> QED BY <1>6, <1>10, <1>11

\* A client is told of a conflict with a save that was made.
LEMMA DisputesKeeps ==
    ASSUME SyncInv, NEW o \in Ops, NEW remote \in made \union {NoEntry}, Disputes(o, remote), Keeps,
           UNCHANGED <<asked, saves, seen, mistaken>>, open' \subseteq open, asked[o] # Unasked
    PROVE  SyncInv'
<1> DEFINE d == Owner(o)
<1>1. d \in Devices
  BY OwnerIsDevice
<1>2. /\ Idles(d)
      /\ conflict' = IF asked[o].kind = "put" /\ remote # NoEntry
                     THEN [conflict EXCEPT ![d] = [remote |-> remote, local |-> asked[o].content]]
                     ELSE conflict
      /\ view' = IF asked[o].kind = "restore" /\ remote # NoEntry
                 THEN [view EXCEPT ![d] = remote] ELSE view
      /\ UNCHANGED <<game, marker, seen, mistaken>>
  BY DEF Disputes, historyVars
<1>3. /\ view'[d] \in {view[d], remote}
      /\ conflict'[d] # conflict[d] => /\ conflict'[d].remote \in made
                                       /\ conflict'[d].local \in seen[d]
      /\ \A e \in Devices \ {d} : view'[e] = view[e] /\ conflict'[e] = conflict[e]
  BY <1>1, <1>2 DEF SyncInv, Functions, AskedOK, PutOK
<1>4. Functions'
  BY <1>2 DEF SyncInv, Functions, Idles
<1>5. DeviceOK(d)
  BY <1>1 DEF SyncInv
<1> HIDE DEF d
<1>6. ASSUME Grows
      PROVE  DeviceOK(d)' /\ \A e \in Devices \ {d} : phase'[e] = phase[e] /\ op'[e] = op[e]
                                                     /\ found'[e] = found[e]
  <2>1. view'[d] \in made' \union {NoEntry}
    BY <1>3, <1>5, <1>6 DEF DeviceOK, Grows
  <2>2. conflict'[d] # None => conflict'[d].remote \in made' /\ conflict'[d].local \in seen'[d]
    BY <1>1, <1>2, <1>3, <1>5, <1>6 DEF DeviceOK, Grows
  <2> QED BY <1>1, <1>2, <1>6, <2>1, <2>2, IdlesOK
<1>7. \A e \in Devices \ {d} : Same(e)
  BY <1>2, <1>3 DEF Same, Idles, SyncInv, Functions
<1> QED BY <1>1, <1>2, <1>4, <1>6, <1>7, LocalStep

\* Nobody hears of it: only the request is gone.
LEMMA GoneKeeps ==
    ASSUME SyncInv, UNCHANGED <<asked, saves>>, open' \subseteq open, Unheard, Keeps PROVE SyncInv'
<1>1. SlotOK' /\ made' = made
  BY SlotStays DEF SyncInv
<1>2. Grows /\ \A e : Same(e)
  BY <1>1, UnheardSame DEF Grows
<1>3. Functions'
  BY DEF SyncInv, Functions, Unheard, historyVars
<1> QED BY <1>1, <1>2, <1>3, AskedStays, Bystander, OwnerIsDevice DEF SyncInv

\* The device is idle again, whatever became of its request.
LEMMA IdleKeeps ==
    ASSUME SyncInv, NEW d \in Devices, Idles(d), UNCHANGED <<asked, saves>>, open' \subseteq open,
           UNCHANGED <<game, marker, view, conflict, seen, mistaken>>, Keeps
    PROVE  SyncInv'
<1>1. Functions'
  BY DEF SyncInv, Functions, Idles
<1>2. DeviceOK(d)
  BY DEF SyncInv
<1>3. Grows => DeviceOK(d)'
  BY <1>2, IdlesOK DEF DeviceOK, Grows
<1>4. \A e \in Devices \ {d} : Same(e)
  BY DEF SyncInv, Functions, Idles, Same
<1> QED BY <1>1, <1>3, <1>4, LocalStep

LEMMA DecideKeeps == ASSUME SyncInv, NEW o \in open, Decide(o), Keeps PROVE SyncInv'
<1>1. o \in Ops /\ Owner(o) \in Devices /\ asked[o] # Unasked
  BY OwnerIsDevice DEF SyncInv, Functions, AskedOK
<1>2. CASE PutLands(o) \/ RestoreLands(o) \/ DeleteLands(o)
  BY <1>2, PutLandsKeeps, RestoreLandsKeeps, DeleteLandsKeeps
<1>3. CASE Conflicts(o)
  <2>1. /\ open' \subseteq open /\ UNCHANGED <<asked, saves>>
        /\ (Disputes(o, Current(saves)) /\ UNCHANGED <<seen, mistaken>>) \/ Unheard
    BY <1>3 DEF Conflicts, historyVars
  <2>2. Current(saves) \in made \union {NoEntry}
    BY CurrentMade DEF SyncInv
  <2> QED BY <1>1, <2>1, <2>2, DisputesKeeps, GoneKeeps
<1>4. CASE Fails(o)
  BY <1>1, <1>4, IdleKeeps, GoneKeeps DEF Fails, historyVars
<1> QED BY <1>2, <1>3, <1>4 DEF Decide

-----------------------------------------------------------------------------
(* An upload without an answer, and one that is confirmed *)

LEMMA TimesOutKeeps == ASSUME SyncInv, NEW d \in Devices, TimesOut(d), Keeps PROVE SyncInv'
<1>1. /\ phase[d] = "waiting"
      /\ UNCHANGED <<asked, saves, game, marker, view, conflict, open, seen, mistaken>>
  BY DEF TimesOut, historyVars
<1>2. CASE asked[op[d]].kind = "put"
  <2>1. phase' = [phase EXCEPT ![d] = "confirming"] /\ UNCHANGED <<op, found>>
    BY <1>2 DEF TimesOut
  <2>2. Functions' /\ phase'[d] = "confirming"
    BY <1>1, <2>1 DEF SyncInv, Functions
  <2>3. DeviceOK(d)
    BY DEF SyncInv
  <2>4. Grows => DeviceOK(d)'
    BY <1>1, <1>2, <2>1, <2>2, <2>3 DEF DeviceOK, Known, Grows
  <2>5. \A e \in Devices \ {d} : Same(e)
    BY <1>1, <2>1 DEF SyncInv, Functions, Same
  <2> QED BY <1>1, <2>2, <2>4, <2>5, LocalStep
<1>3. CASE asked[op[d]].kind # "put"
  BY <1>1, <1>3, IdleKeeps DEF TimesOut, historyVars
<1> QED BY <1>2, <1>3

LEMMA ConfirmReadKeeps == ASSUME SyncInv, NEW d \in Devices, ConfirmRead(d), Keeps PROVE SyncInv'
<1>1. PICK entry \in {Current(saves), None} : found' = [found EXCEPT ![d] = entry]
  BY DEF ConfirmRead
<1>2. /\ phase[d] = "confirming" /\ phase' = [phase EXCEPT ![d] = "receipt"]
      /\ UNCHANGED <<asked, saves, game, marker, view, conflict, op, open, seen, mistaken>>
  BY DEF ConfirmRead, historyVars
<1>3. Functions' /\ phase'[d] = "receipt" /\ found'[d] = entry
  BY <1>1, <1>2 DEF SyncInv, Functions
<1>4. entry \in made \union {NoEntry, None}
  BY <1>1, CurrentMade DEF SyncInv
<1>5. DeviceOK(d)
  BY DEF SyncInv
<1>6. Grows => DeviceOK(d)'
  BY <1>2, <1>3, <1>4, <1>5 DEF DeviceOK, Known, Grows
<1>7. \A e \in Devices \ {d} : Same(e)
  BY <1>1, <1>2 DEF SyncInv, Functions, Same
<1> QED BY <1>2, <1>3, <1>6, <1>7, LocalStep

\* The verdict rests on a save that was made: the metadata names the upload's own
\* revision and checksum, or its receipt does.
LEMMA VerdictMade ==
    ASSUME SyncInv, NEW d \in Devices, phase[d] = "receipt"
    PROVE  /\ op[d] \in Ops /\ asked[op[d]] # Unasked /\ asked[op[d]].kind = "put"
           /\ found[d] # None => found[d] \in made \union {NoEntry}
           /\ found[d] # None /\ Matches(found[d], asked[op[d]]) =>
                 found[d] \in made /\ found[d].content = asked[op[d]].content
           /\ HasReceipt(op[d]) =>
                 /\ saves.receipts[op[d]] \in made
                 /\ saves.receipts[op[d]].content = asked[op[d]].content
<1>1. DeviceOK(d)
  BY DEF SyncInv
<1>2. /\ op[d] \in Ops /\ asked[op[d]] # Unasked /\ asked[op[d]].kind = "put"
      /\ found[d] # None => found[d] \in made \union {NoEntry}
  BY <1>1 DEF DeviceOK
<1>3. AskedOK(op[d])
  BY <1>2 DEF SyncInv
<1>4. found[d] # None /\ Matches(found[d], asked[op[d]]) =>
         found[d] \in made /\ found[d].content = asked[op[d]].content
  BY <1>2, <1>3 DEF Matches, AskedOK, NoEntry
<1> QED BY <1>2, <1>3, <1>4 DEF AskedOK, HasReceipt

LEMMA ConfirmReceiptKeeps ==
    ASSUME SyncInv, NEW d \in Devices, ConfirmReceipt(d), Keeps PROVE SyncInv'
<1> DEFINE o == op[d]
           q == asked[o]
           entry == found[d]
           newer == entry # None /\ entry.revision > q.expected
           same  == newer /\ Matches(entry, q)
           asks  == entry = None \/ entry.revision >= q.expected
<1>1. phase[d] = "receipt" /\ UNCHANGED <<asked, saves, open, seen, mistaken>>
  BY DEF ConfirmReceipt
<1>2. PICK read \in ReceiptReads(o) :
         IF same \/ (asks /\ read)
         THEN /\ phase' = [phase EXCEPT ![d] = "refreshing"]
              /\ found' = [found EXCEPT ![d] = IF same THEN entry ELSE saves.receipts[o]]
              /\ UNCHANGED <<game, marker, view, conflict, op>>
         ELSE IF newer THEN Disputes(o, entry)
         ELSE Idles(d) /\ UNCHANGED <<game, marker, view, conflict>>
  BY DEF ConfirmReceipt
<1>3. o \in Ops /\ Owner(o) = d /\ q # Unasked
  BY <1>1 DEF SyncInv, DeviceOK
<1>4. CASE same \/ (asks /\ read)
  <2> DEFINE kept == IF same THEN entry ELSE saves.receipts[o]
  <2>1. kept \in made /\ kept.content = q.content
    <3>1. read => HasReceipt(o)
      BY DEF ReceiptReads
    <3> QED BY <1>1, <1>4, <3>1, VerdictMade
  <2> HIDE DEF kept
  <2>2. /\ phase' = [phase EXCEPT ![d] = "refreshing"] /\ found' = [found EXCEPT ![d] = kept]
        /\ UNCHANGED <<game, marker, view, conflict, op>>
    BY <1>2, <1>4 DEF kept
  <2>3. Functions' /\ phase'[d] = "refreshing" /\ found'[d] = kept
    BY <1>1, <2>2 DEF SyncInv, Functions
  <2>4. DeviceOK(d)
    BY DEF SyncInv
  <2>5. Grows => DeviceOK(d)'
    BY <1>1, <2>1, <2>2, <2>3, <2>4 DEF DeviceOK, Known, Grows
  <2>6. \A e \in Devices \ {d} : Same(e)
    BY <1>1, <2>2 DEF SyncInv, Functions, Same
  <2> QED BY <1>1, <2>2, <2>3, <2>5, <2>6, LocalStep
<1>5. CASE ~(same \/ (asks /\ read)) /\ newer
  <2>1. Disputes(o, entry) /\ entry \in made \union {NoEntry}
    BY <1>1, <1>2, <1>5, VerdictMade
  <2> HIDE DEF o
  <2> QED BY <1>1, <1>3, <2>1, DisputesKeeps
<1>6. CASE ~(same \/ (asks /\ read)) /\ ~newer
  BY <1>1, <1>2, <1>6, IdleKeeps
<1> QED BY <1>4, <1>5, <1>6

\* What is marked is what was uploaded, or a save mistaken for it.
LEMMA RefreshedKeeps == ASSUME SyncInv, NEW d \in Devices, Refreshed(d), Keeps PROVE SyncInv'
<1>1. PICK entry \in Refreshes(d) :
         /\ marker' = [marker EXCEPT ![d] = entry] /\ view' = [view EXCEPT ![d] = entry]
         /\ mistaken' = [mistaken EXCEPT ![d] =
                           IF entry = found[d] THEN @ ELSE @ \union {entry.content}]
  BY DEF Refreshed
<1>2. /\ phase[d] = "refreshing" /\ conflict' = [conflict EXCEPT ![d] = None] /\ Idles(d)
      /\ UNCHANGED <<asked, saves, game, open, seen>>
  BY DEF Refreshed
<1>3. DeviceOK(d) /\ op[d] \in Ops /\ Owner(op[d]) = d /\ asked[op[d]] # Unasked
      /\ asked[op[d]].kind = "put" /\ found[d] \in made /\ found[d].content = asked[op[d]].content
  BY <1>2 DEF SyncInv, DeviceOK
<1>4. found[d].content \in seen[d]
  BY <1>3 DEF SyncInv, AskedOK, PutOK
<1>5. /\ mistaken' = [e \in Devices |-> mistaken'[e]]
      /\ mistaken[d] \subseteq mistaken'[d]
      /\ \A e \in Devices \ {d} : mistaken'[e] = mistaken[e]
      /\ entry # found[d] => entry.content \in mistaken'[d]
  BY <1>1 DEF SyncInv, Functions
<1>10. entry \in made /\ entry.content \in Known(d)'
  BY <1>1, <1>2, <1>3, <1>4, <1>5, CurrentMade DEF Refreshes, SyncInv, Known
<1>6. Functions'
  BY <1>1, <1>2 DEF SyncInv, Functions, Idles
<1>7. /\ marker'[d] = entry /\ view'[d] = entry /\ conflict'[d] = None
      /\ phase'[d] = "idle" /\ op'[d] = None
  BY <1>1, <1>2 DEF SyncInv, Functions, Idles
<1>8. Grows => DeviceOK(d)'
  BY <1>2, <1>3, <1>10, <1>7 DEF DeviceOK, Grows
<1>9. \A e \in Devices \ {d} : Same(e)
  BY <1>1, <1>2 DEF SyncInv, Functions, Idles, Same
<1> QED BY <1>2, <1>5, <1>6, <1>8, <1>9, LocalStep

-----------------------------------------------------------------------------
(* Every step *)

LEMMA InitInv == SyncInit => SyncInv
<1> SUFFICES ASSUME SyncInit PROVE SyncInv
  OBVIOUS
<1>1. SlotOK /\ DOMAIN saves.receipts = {}
  BY DEF SyncInit, SlotInit, NoSaves, Nothing, SlotOK
<1>2. \A o \in Ops : AskedOK(o)
  BY <1>1 DEF SyncInit, SlotInit, AskedOK
<1>3. \A d \in Devices : DeviceOK(d)
  BY DEF SyncInit, DeviceOK
<1>4. Functions
  BY <1>1 DEF SyncInit, SlotInit, Functions
<1> QED BY <1>1, <1>2, <1>3, <1>4 DEF SyncInv

LEMMA NextKeeps == ASSUME SyncInv, [SyncNext]_syncVars PROVE SyncInv'
<1>1. CASE UNCHANGED syncVars
  <2>1. SlotOK' /\ Functions'
    BY <1>1 DEF syncVars, historyVars, SyncInv, Functions, SlotOK
  <2>2. ASSUME NEW o \in Ops PROVE AskedOK(o)'
    BY <1>1 DEF syncVars, historyVars, SyncInv, AskedOK, PutOK, Knows, Known, Owner
  <2>3. ASSUME NEW d \in Devices PROVE DeviceOK(d)'
    BY <1>1 DEF syncVars, historyVars, SyncInv, DeviceOK, Known
  <2> QED BY <2>1, <2>2, <2>3 DEF SyncInv
<1>2. CASE SyncNext
  <2>1. Keeps
    BY <1>2 DEF SyncNext, Keeps
  <2>2. CASE \E d \in Devices : DeviceStep(d)
    <3>1. PICK d \in Devices : DeviceStep(d)
      BY <2>2
    <3>2. CASE Play(d) \/ Look(d) \/ Reload(d)
      BY <2>1, <3>2, PlayKeeps, LookKeeps, ReloadKeeps
    <3>3. CASE Sync(d) \/ ShowConflict(d) \/ KeepLocal(d) \/ UseCloud(d) \/ Download(d)
      BY <2>1, <3>3, SyncKeeps, ShowConflictKeeps, KeepLocalKeeps, UseCloudKeeps, DownloadKeeps
    <3>4. CASE AskDelete(d) \/ AskRestore(d)
      BY <2>1, <3>4, AskDeleteKeeps, AskRestoreKeeps
    <3>5. CASE TimesOut(d) \/ ConfirmRead(d) \/ ConfirmReceipt(d) \/ Refreshed(d)
      BY <2>1, <3>5, TimesOutKeeps, ConfirmReadKeeps, ConfirmReceiptKeeps, RefreshedKeeps
    <3> QED BY <3>1, <3>2, <3>3, <3>4, <3>5 DEF DeviceStep
  <2>3. CASE \E o \in open : Decide(o)
    BY <2>1, <2>3, DecideKeeps
  <2> QED BY <1>2, <2>2, <2>3 DEF SyncNext
<1> QED BY <1>1, <1>2

LEMMA SyncInvariant == SyncSpec => []SyncInv
<1>1. SyncInv /\ [SyncNext]_syncVars => SyncInv'
  BY NextKeeps
<1> QED BY InitInv, <1>1, PTL DEF SyncSpec

-----------------------------------------------------------------------------
(* Theorems *)

\* An upload that a device takes for saved was committed with that content, under the
\* revision the device goes on with: whatever is lost, late, deleted or overtaken.
THEOREM ConfirmedWereCommitted == SyncSpec => []ConfirmedIsCommitted
<1>1. SyncInv => ConfirmedIsCommitted
  BY DEF SyncInv, DeviceOK, ConfirmedIsCommitted
<1> QED BY <1>1, SyncInvariant, PTL

\* No upload replaces a save its player does not know, unless the client marked
\* another's save as its own upload, or the revision was given to two saves.
THEOREM NeverBlind == SyncSpec => NoBlindOverwrite
<1>1. SyncInv /\ [SyncNext]_syncVars =>
         [\A o \in DOMAIN saves'.receipts \ DOMAIN saves.receipts :
             saves.current # 0 =>
                \/ Current(saves).content \in Known(Owner(o))
                \/ \E m \in made : /\ m.revision = saves.current /\ m # Current(saves)
                                  /\ m.content \in Known(Owner(o))]_syncVars
  <2> SUFFICES ASSUME SyncInv, SyncNext,
                      NEW o \in DOMAIN saves'.receipts \ DOMAIN saves.receipts, saves.current # 0
               PROVE  \/ Current(saves).content \in Known(Owner(o))
                      \/ \E m \in made : /\ m.revision = saves.current /\ m # Current(saves)
                                        /\ m.content \in Known(Owner(o))
    BY DEF syncVars
  <2>1. \/ UNCHANGED saves
        \/ \E p \in open : PutLands(p) \/ RestoreLands(p) \/ DeleteLands(p)
    BY ZenonT(60) DEF SyncNext, DeviceStep, Decide, Play, Look, Reload, Sync, ShowConflict, KeepLocal, UseCloud,
           Download, AskDelete, AskRestore, Takes, Request, SlotAsk, TimesOut, ConfirmRead,
           ConfirmReceipt, Refreshed, Conflicts, Fails
  <2>2. PICK p \in open : PutLands(p) \/ RestoreLands(p) \/ DeleteLands(p)
    BY <2>1
  <2>3. CASE PutLands(p)
    <3>1. /\ SlotPut(p) /\ p \in Ops /\ asked[p].kind = "put"
          /\ asked[p].expected = saves.current
      BY <2>3 DEF PutLands, SlotPut, Outdated, SyncInv, Functions
    <3>2. PICK D : saves' = Receipted(Appended(saves, D, asked[p].content), p)
      BY <3>1 DEF SlotPut
    <3>3. DOMAIN saves'.receipts = DOMAIN saves.receipts \union {p}
      BY <3>2 DEF Receipted, Appended
    <3>4. o = p
      BY <3>3
    <3>5. PutOK(p)
      BY <3>1 DEF SyncInv, AskedOK, Unasked
    <3>6. PICK m \in made : m.revision = saves.current /\ m.content \in Known(Owner(o))
      BY <3>1, <3>4, <3>5 DEF PutOK, Knows
    <3> QED BY <3>6
  <2>4. CASE RestoreLands(p) \/ DeleteLands(p)
    <3>1. SlotRestore(p) => saves'.receipts = saves.receipts
      <4>1. \A D, c : Appended(saves, D, c).receipts = saves.receipts
        BY DEF Appended
      <4> QED BY <4>1 DEF SlotRestore
    <3>2. SlotDelete(p) => saves'.receipts = saves.receipts
      BY DEF SlotDelete, Emptied
    <3> QED BY <2>4, <3>1, <3>2 DEF RestoreLands, DeleteLands
  <2> QED BY <2>2, <2>3, <2>4
<1> QED BY <1>1, SyncInvariant, PTL DEF SyncSpec, NoBlindOverwrite

\* A conflict is never with the own upload, unless its receipt could not be read.
THEOREM NeverDisputesItself == SyncSpec => ConflictsAreReal
<1>1. SyncInv /\ [SyncNext]_syncVars =>
         [\A o \in Ops : Disputed(o) /\ o \in DOMAIN saves.receipts => o \in unread']_syncVars
  <2> SUFFICES ASSUME SyncInv, SyncNext, NEW o \in Ops, Disputed(o), o \in DOMAIN saves.receipts
               PROVE  o \in unread'
    BY DEF syncVars, Disputed
  <2> DEFINE d == Owner(o)
  <2>1. /\ d \in Devices /\ DeviceOK(d) /\ op[d] = o /\ asked[o].kind = "put"
        /\ conflict'[d] # None /\ conflict'[d] # conflict[d] /\ HasReceipt(o)
    BY OwnerIsDevice DEF SyncInv, Disputed, HasReceipt
  <2>2. phase[d] # "idle"
    BY <2>1, SyncAssumption DEF DeviceOK
  <2>3. CASE \E p \in open : Decide(p)
    <3>1. PICK p \in open : Decide(p)
      BY <2>3
    <3>2. conflict' # conflict
      BY <2>1
    <3>3. Waits(p) /\ Disputes(p, Current(saves))
      BY <3>1, <3>2 DEF Decide, PutLands, RestoreLands, DeleteLands, Conflicts, Fails, Unheard
    <3>4. p = o /\ p \in Ops
      <4>1. p \in Ops /\ Owner(p) \in Devices
        BY <3>1, OwnerIsDevice DEF SyncInv, Functions
      <4>2. Owner(p) = d
        BY <2>1, <3>3, <4>1 DEF Disputes, SyncInv, Functions
      <4> QED BY <2>1, <3>3, <4>1, <4>2 DEF Waits
    <3> QED BY <2>1, <3>1, <3>4 DEF SyncInv, AskedOK, HasReceipt
  <2>4. CASE \E e \in Devices : DeviceStep(e)
    <3>1. PICK e \in Devices : DeviceStep(e)
      BY <2>4
    <3>2. CASE ConfirmReceipt(e)
      <4>1. phase[e] = "receipt" /\ Owner(op[e]) = e
        BY <3>2 DEF ConfirmReceipt, SyncInv, DeviceOK
      <4>2. e = d /\ op[e] = o
        <5>1. \/ UNCHANGED conflict
              \/ Disputes(op[e], found[e])
          BY <3>2 DEF ConfirmReceipt
        <5>2. Disputes(op[e], found[e])
          BY <2>1, <5>1
        <5> QED BY <2>1, <4>1, <5>2 DEF Disputes, SyncInv, Functions
      <4>3. AskedOK(o) /\ asked[o] # Unasked /\ asked[o].expected \in Nat
        BY <2>1, <2>2 DEF SyncInv, DeviceOK, AskedOK
      <4>4. found[d] # None => found[d].revision \in Nat
        BY <2>1, <4>1, <4>2 DEF DeviceOK, SyncInv, SlotOK, NoEntry
      <4> DEFINE entry == found[d]
                 newer == entry # None /\ entry.revision > asked[o].expected
                 same  == newer /\ Matches(entry, asked[o])
                 asks  == entry = None \/ entry.revision >= asked[o].expected
      <4>5. newer => asks
        BY <4>3, <4>4
      <4>6. PICK read \in ReceiptReads(o) :
               /\ IF same \/ (asks /\ read) THEN UNCHANGED conflict
                  ELSE (~newer /\ UNCHANGED conflict) \/ newer
               /\ unread' = IF ~same /\ asks /\ HasReceipt(o) /\ ~read THEN unread \union {o}
                            ELSE unread
        BY <3>2, <4>2 DEF ConfirmReceipt
      <4>7. ~same /\ ~(asks /\ read) /\ newer
        BY <2>1, <4>6
      <4> QED BY <2>1, <4>5, <4>6, <4>7
    <3>3. CASE ~ConfirmReceipt(e)
      <4>1. \/ UNCHANGED conflict
            \/ conflict' = [conflict EXCEPT ![e] = None]
            \/ phase[e] = "idle" /\ conflict' = [conflict EXCEPT ![e] = [remote |-> view[e], local |-> game[e]]]
        BY <3>1, <3>3 DEF DeviceStep, Play, Look, Reload, Sync, ShowConflict, KeepLocal, UseCloud,
                          Download, AskDelete, AskRestore, Takes, TimesOut, ConfirmRead, Refreshed
      <4> QED BY <2>1, <2>2, <4>1 DEF SyncInv, Functions
    <3> QED BY <3>2, <3>3
  <2> QED BY <2>3, <2>4 DEF SyncNext
<1> QED BY <1>1, SyncInvariant, PTL DEF SyncSpec, ConflictsAreReal
=============================================================================
