------------------------ MODULE LocalSaveStoreProofs ------------------------
(***************************************************************************)
(* Theorems about LocalSaveStore, for every set of pages and every value   *)
(* of the bounds.  Two of the four Windows break the fence itself, "boot"  *)
(* and "tie": the invariant holds until one of them is passed.  The other  *)
(* two, in which a page that resolves a conflict saves its older game,     *)
(* are inside it.  The type invariant, at the end, holds whichever is      *)
(* passed.                                                                 *)
(*                                                                         *)
(* The inductive invariant has one part for the shared records and one for *)
(* each page.  Its core is the fence: a token passes to another page only  *)
(* upwards, so whoever holds the token of a save in flight has held it      *)
(* since the save was captured, and nobody else has written since.          *)
(***************************************************************************)
EXTENDS LocalSaveStore, FiniteSetTheorems, SequenceTheorems, TLAPS

-----------------------------------------------------------------------------
(* The inductive invariant *)

LeaseType == [owner : Tabs \cup {None}, token : Nat, until : Nat]
DurableType == [val : Saves, rev : Nat, by : Tabs \cup {None}, token : Nat]
CacheType == [rev : Nat, val : Saves]
ProofType == [val : Saves, rev : Nat, token : Nat, consent : BOOLEAN, written : BOOLEAN]
QueueType == [val : Saves, base : CacheType, written : BOOLEAN]
MirrorType == [val : Saves, by : Tabs, token : Nat, rev : Nat, stale : BOOLEAN]
ForkType == [cand : Saves, kept : Saves, open : BOOLEAN]

PageType ==
  [pc : PageStates, goal : {"boot", "resolve"}, role : Roles, token : Nat,
   game : Saves, cache : CacheType, proof : ProofType \cup {None}, queue : QueueType \cup {None},
   snap : LeaseType, at : Nat, base : DurableType, pick : Nat \X Saves,
   copy : MirrorType \cup {None}, forked : BOOLEAN, away : BOOLEAN, stale : BOOLEAN, consent : BOOLEAN]

SharedType ==
  /\ durable \in DurableType /\ lease \in LeaseType
  /\ conflicts \in Seq(ForkType) /\ mirror \in MirrorType \cup {None}
  /\ now \in Nat /\ saves \in Nat

\* Mounted, of a page's record.
Up(p) ==
  \/ p.pc \in {"run", "take", "resWrite", "resClean", "release"}
  \/ p.goal = "resolve" /\ p.pc \in {"claim", "claimWrite", "claimed"}

\* No window in which the fence itself breaks was passed.
Fenced == {"boot", "tie"} \cap hit = {}

\* A page is primary only where it may write, and has saves only where its game runs.
Phase(p) ==
  /\ p.pc \in {"gone", "mirror", "claim", "claimWrite", "claimed", "take", "leaving"}
       => p.role # "primary"
  /\ p.pc \in {"resWrite", "resClean", "release"} => p.stale
  /\ p.goal = "resolve" => p.pc \in {"claim", "claimWrite", "claimed", "resWrite", "resClean", "release"}
  /\ ~Up(p) /\ p.pc # "leaving" => p.proof = None /\ p.queue = None

\* What a page knows of the fence is never ahead of the lease, and a takeover's token is new.
Fence(t, p) ==
  /\ p.token <= lease.token
  /\ p.pc = "claimed" => p.snap.token <= lease.token
  /\ p.pc = "take" /\ lease.owner = t /\ lease.token = p.snap.token
       => durable.token < lease.token /\ (p.proof # None => p.proof.token < lease.token)

\* A save in flight that would still be admitted carries the line it replaces, unless
\* the game it was taken from is stale.
Flight(t, p) ==
  p.proof # None =>
    /\ p.proof.token <= lease.token /\ p.proof.val \subseteq p.game
    /\ ~p.proof.written /\ lease.owner = t /\ lease.token = p.proof.token
         /\ durable.rev = p.proof.rev
         => durable.val \subseteq p.proof.val \/ p.proof.consent \/ p.stale

\* No revision a page remembers is ahead of the durable one, its queued save's apart.
Known(p) ==
  /\ p.queue = None => p.cache.rev <= durable.rev
  /\ p.queue # None =>
       /\ p.queue.val = p.game /\ p.queue.base.rev <= durable.rev
       /\ p.queue.written => p.queue.base.rev < durable.rev
       /\ p.cache.rev <= durable.rev \/ p.cache.rev = p.queue.base.rev + 1

\* The player's choice is one of the two preserved copies.
Picked(p) ==
  p.goal = "resolve" \/ p.pc \in {"resWrite", "resClean"} =>
    /\ p.pick[1] \in DOMAIN conflicts
    /\ p.pick[2] \in {conflicts[p.pick[1]].cand, conflicts[p.pick[1]].kept}

\* PrimaryCarriesLine; a consent is used up by the first save under its token.
Carries(t, p) ==
  p.role = "primary" /\ Up(p) /\ ~p.stale
    /\ lease.owner = t /\ lease.token = p.token
    /\ (p.consent => durable.by = t /\ durable.token = lease.token)
    => durable.val \subseteq p.game

\* The mirror m continues the save d under the lease l.
Continuing(m, d, l) ==
  /\ m.by = l.owner /\ m.token = l.token /\ m.rev > d.rev
  /\ d.rev > 0 => d.by = m.by /\ d.token = m.token

\* The mirror a starting page has read, and would apply, carries the line it read.
Judged(p) ==
  p.pc = "mirror" =>
    /\ p.copy # None
    /\ ~p.copy.stale /\ Continuing(p.copy, p.base, p.snap) => p.base.val \subseteq p.copy.val

PageInv(t, p) ==
  /\ Phase(p) /\ Fence(t, p) /\ Flight(t, p) /\ Known(p) /\ Picked(p) /\ Carries(t, p)
  /\ Judged(p)

\* A mirror that a starting page would apply carries the line it replaces.
MirrorInv ==
  mirror # None =>
    /\ mirror.token <= lease.token /\ mirror.rev <= durable.rev + 1
    /\ ~mirror.stale /\ Continuing(mirror, durable, lease) => durable.val \subseteq mirror.val

SharedInv ==
  durable.token <= lease.token /\ (durable.rev = 0 => durable.val = {}) /\ MirrorInv

IInv ==
  /\ SharedType /\ page \in [Tabs -> PageType]
  /\ SharedInv
  /\ \A t \in Tabs : PageInv(t, page[t])

-----------------------------------------------------------------------------
(* Lemmas used by every action *)

\* What Idle keeps of a page.
KeptIdle(p, i) ==
  /\ i.pc = p.pc /\ i.role = p.role /\ i.token = p.token /\ i.game = p.game
  /\ i.cache = p.cache /\ i.proof = p.proof /\ i.queue = p.queue
  /\ i.away = p.away /\ i.stale = p.stale /\ i.goal = "boot" /\ i.consent = FALSE

\* Ending an operation keeps the type and what KeptIdle names.
LEMMA IdleFields ==
  ASSUME NEW p \in PageType PROVE Idle(p) \in PageType /\ KeptIdle(p, Idle(p))
<1>1. NoLease \in LeaseType /\ NoSave \in DurableType /\ <<0, {}>> \in Nat \X Saves
  BY DEF NoLease, NoSave, LeaseType, DurableType, Saves
<1> QED BY <1>1 DEF Idle, PageType, KeptIdle

\* The record of a page that has not started.
LEMMA BlankIsAPage == Blank \in PageType
<1>1. /\ NoLease \in LeaseType /\ NoSave \in DurableType /\ Cold \in CacheType
      /\ <<0, {}>> \in Nat \X Saves /\ {} \in Saves
      /\ "gone" \in PageStates /\ "initializing" \in Roles
  BY DEF NoLease, NoSave, Cold, LeaseType, DurableType, CacheType, Saves, PageStates, Roles
<1> QED BY <1>1 DEF Blank, PageType

\* A new page satisfies its part, whatever the shared records are.
LEMMA FreshPage ==
  ASSUME SharedType, NEW t \in Tabs PROVE PageInv(t, Blank)
<1>1. 0 <= lease.token /\ 0 <= durable.rev
  BY DEF SharedType, LeaseType, DurableType
<1> QED BY <1>1 DEF Blank, Cold, PageInv, Phase, Up, Fence, Flight, Known, Picked, Carries, Judged

\* So does a page that is new after a step.
LEMMA PageRestarts ==
  ASSUME SharedType', NEW t \in Tabs, page'[t] = Blank PROVE PageInv(t, page[t])'
<1>1. 0 <= lease'.token /\ 0 <= durable'.rev
  BY DEF SharedType, LeaseType, DurableType
<1> QED BY <1>1 DEF Blank, Cold, PageInv, Phase, Up, Fence, Flight, Known, Picked, Carries, Judged

SameFence == lease'.owner = lease.owner /\ lease'.token = lease.token
KeepsForks ==
  \A c \in DOMAIN conflicts :
    /\ c \in DOMAIN conflicts'
    /\ conflicts'[c].cand = conflicts[c].cand /\ conflicts'[c].kept = conflicts[c].kept

\* The bounds are numbers.
LEMMA BoundsAreNat == Duration \in Nat /\ MaxSaves \in Nat
  BY LocalSaveAssumption

\* A renewal keeps the fence.
LEMMA HeldFields ==
  ASSUME SharedType, NEW t \in Tabs
  PROVE  Held(t) \in LeaseType /\ Held(t).owner = t /\ Held(t).token = lease.token
<1>1. lease \in LeaseType /\ now + Duration \in Nat
  BY BoundsAreNat DEF SharedType
<1> QED BY <1>1 DEF Held, LeaseType

\* What another page does leaves a page's part alone: the lease is not given to it, and
\* the save is written only while another page holds the lease.
LEMMA Bystander ==
  ASSUME IInv, NEW u \in Tabs, SharedType', KeepsForks, page'[u] = page[u],
         lease'.token >= lease.token,
         SameFence \/ lease'.owner # u,
         durable' = durable \/ (lease'.owner # u /\ durable'.rev >= durable.rev)
  PROVE  PageInv(u, page[u])'
<1> DEFINE p == page[u]
<1>0. /\ p \in PageType /\ PageInv(u, p) /\ durable \in DurableType /\ lease \in LeaseType
      /\ durable' \in DurableType /\ lease' \in LeaseType
  BY DEF IInv, SharedType
<1>1. Phase(p)'
  BY <1>0 DEF PageInv, Phase, Up
<1>2. Fence(u, p)'
  BY <1>0 DEF PageInv, Fence, SameFence, PageType, LeaseType, DurableType, ProofType
<1>3. Flight(u, p)'
  BY <1>0 DEF PageInv, Flight, SameFence, PageType, LeaseType, ProofType
<1>4. Known(p)'
  BY <1>0 DEF PageInv, Known, PageType, QueueType, CacheType, DurableType
<1>5. Picked(p)'
  BY <1>0 DEF PageInv, Picked, KeepsForks
<1>6. Carries(u, p)'
  BY <1>0 DEF PageInv, Carries, Up, SameFence
<1>7. Judged(p)'
  BY <1>0 DEF PageInv, Judged
<1> QED BY <1>1, <1>2, <1>3, <1>4, <1>5, <1>6, <1>7 DEF PageInv

\* The lease is renewed or moves on, and the save stays.
LEMMA LeaseMoves ==
  ASSUME IInv, SharedType', SameFence \/ lease'.token > lease.token, durable' = durable,
         mirror' \in {mirror, None}
  PROVE  SharedInv'
<1>1. durable.token <= lease'.token
  BY DEF IInv, SharedType, SharedInv, SameFence, LeaseType, DurableType
<1>2. MirrorInv'
  BY DEF IInv, SharedType, SharedInv, MirrorInv, Continuing, SameFence, LeaseType, DurableType, MirrorType
<1> QED BY <1>1, <1>2 DEF IInv, SharedInv

\* The save is written under the lease as it is.
LEMMA SaveGrows ==
  ASSUME IInv, SharedType', SameFence, durable'.rev = durable.rev + 1,
         durable'.token <= lease.token, mirror' \in {mirror, None}
  PROVE  SharedInv'
<1>1. durable'.token <= lease'.token /\ durable'.rev # 0
  BY DEF IInv, SharedType, SharedInv, SameFence, LeaseType, DurableType
<1>2. MirrorInv'
  BY DEF IInv, SharedType, SharedInv, MirrorInv, Continuing, SameFence, LeaseType, DurableType, MirrorType
<1> QED BY <1>1, <1>2 DEF SharedInv

\* One page moves: what is left to show is its own part.
LEMMA OneMoves ==
  ASSUME IInv, NEW t \in Tabs, NEW r \in PageType, page' = [page EXCEPT ![t] = r],
         SharedType', SharedInv', KeepsForks, lease'.token >= lease.token,
         SameFence \/ lease'.owner = t,
         durable' = durable \/ (lease'.owner = t /\ durable'.rev >= durable.rev),
         PageInv(t, page[t])'
  PROVE  IInv'
<1>1. page' \in [Tabs -> PageType] /\ \A u \in Tabs \ {t} : page'[u] = page[u]
  BY DEF IInv
<1>2. ASSUME NEW u \in Tabs PROVE PageInv(u, page[u])'
  <2>1. CASE u = t
    BY <2>1
  <2>2. CASE u # t
    BY <2>2, <1>1, Bystander
  <2> QED BY <2>1, <2>2
<1> QED BY <1>1, <1>2 DEF IInv

\* The page moves and neither the save nor the fence does.
LEMMA OnlyPage ==
  ASSUME IInv, NEW t \in Tabs, NEW r \in PageType, page' = [page EXCEPT ![t] = r],
         SharedType', durable' = durable, SameFence, mirror' \in {mirror, None}, KeepsForks,
         PageInv(t, page[t])'
  PROVE  IInv'
<1>1. SharedInv'
  BY LeaseMoves
<1>2. lease'.token >= lease.token
  BY DEF IInv, SharedType, SameFence, LeaseType
<1> QED BY <1>1, <1>2, OneMoves

-----------------------------------------------------------------------------
(* Starting and claiming *)

\* A starting page only reads: it becomes a reader of the mirror or a claimer, never a writer.
LEMMA StartKeeps ==
  ASSUME IInv, NEW t \in Tabs, Start(t)
  PROVE  IInv'
<1> DEFINE p == page[t]
           r == IF mirror = None THEN [p EXCEPT !.pc = "claim", !.forked = AnyOpen]
                ELSE [p EXCEPT !.pc = "mirror", !.snap = lease, !.base = durable,
                                 !.copy = mirror, !.forked = AnyOpen]
<1>1. /\ p \in PageType /\ PageInv(t, p) /\ SharedType /\ SharedInv
      /\ UNCHANGED <<durable, lease, conflicts, mirror, now, saves>>
      /\ p.pc = "gone"
      /\ page' = [page EXCEPT ![t] = r]
  BY DEF Start, IInv, disk
<1>2. /\ AnyOpen \in BOOLEAN /\ {"claim", "mirror"} \subseteq PageStates
      /\ lease \in LeaseType /\ durable \in DurableType
  BY <1>1 DEF AnyOpen, PageStates, SharedType
<1>3. r \in PageType /\ page'[t] = r
  <2>1. mirror \in MirrorType \cup {None}
    BY <1>1 DEF SharedType
  <2>2. [p EXCEPT !.pc = "claim", !.forked = AnyOpen] \in PageType
    BY <1>1, <1>2 DEF PageType
  <2>3. [p EXCEPT !.pc = "mirror", !.snap = lease, !.base = durable, !.copy = mirror,
                  !.forked = AnyOpen] \in PageType
    BY <1>1, <1>2, <2>1 DEF PageType
  <2>4. r \in PageType
    BY <2>2, <2>3
  <2> QED BY <2>4, <1>1 DEF IInv
<1>4. PageInv(t, page[t])'
  <2>1. Phase(page[t])'
    BY <1>1, <1>2, <1>3 DEF PageInv, Phase, Up, PageType
  <2>2. Fence(t, page[t])'
    BY <1>1, <1>2, <1>3 DEF PageInv, Fence, Phase, SharedType, PageType
  <2>3. Flight(t, page[t])'
    BY <1>1, <1>2, <1>3 DEF PageInv, Flight, Phase, Up, PageType
  <2>4. Known(page[t])'
    BY <1>1, <1>2, <1>3 DEF PageInv, Known, Phase, Up, PageType
  <2>5. Picked(page[t])'
    BY <1>1, <1>2, <1>3 DEF PageInv, Picked, PageType
  <2>6. Carries(t, page[t])'
    BY <1>1, <1>2, <1>3 DEF PageInv, Carries, Phase, Up, PageType
  <2>7. Judged(page[t])'
    <3>1. CASE mirror = None
      BY <1>1, <1>3, <3>1 DEF Judged, PageType
    <3>2. CASE mirror # None
      <4> DEFINE q == [p EXCEPT !.pc = "mirror", !.snap = lease, !.base = durable,
                                !.copy = mirror, !.forked = AnyOpen]
      <4>1. page'[t] = q
        BY <1>3, <3>2
      <4>2. q.pc = "mirror" /\ q.copy = mirror /\ q.base = durable /\ q.snap = lease
        <5>1. p \in PageType
          BY <1>1
        <5> HIDE DEF p
        <5> QED BY <5>1 DEF PageType
      <4>3. /\ page'[t].pc = "mirror" /\ page'[t].copy = mirror /\ page'[t].base = durable
            /\ page'[t].snap = lease
        BY <4>1, <4>2
      <4> HIDE DEF q
      <4> QED BY <1>1, <3>2, <4>3 DEF Judged, SharedInv, MirrorInv
    <3> QED BY <3>1, <3>2
  <2> QED BY <2>1, <2>2, <2>3, <2>4, <2>5, <2>6, <2>7 DEF PageInv
<1> HIDE DEF p, r
<1>5. SharedType' /\ SameFence /\ KeepsForks
  BY <1>1 DEF SharedType, SameFence, KeepsForks
<1> QED BY <1>1, <1>3, <1>4, <1>5, OnlyPage

\* A claim reads the lease before it writes it.
LEMMA ClaimReadKeeps ==
  ASSUME IInv, NEW t \in Tabs, ClaimRead(t)
  PROVE  IInv'
<1> DEFINE p == page[t]
           r == [p EXCEPT !.pc = "claimWrite", !.snap = lease, !.at = now]
<1>1. /\ p \in PageType /\ PageInv(t, p) /\ SharedType /\ SharedInv
      /\ UNCHANGED <<durable, lease, conflicts, mirror, now, saves>>
      /\ p.pc = "claim"
      /\ page' = [page EXCEPT ![t] = r]
  BY DEF ClaimRead, IInv, disk, counters
<1>3. r \in PageType /\ page'[t] = r
  <2>1. r \in PageType
    BY <1>1 DEF PageType, PageStates, SharedType
  <2> QED BY <2>1, <1>1 DEF IInv
<1>f. /\ page'[t].pc = "claimWrite" /\ page'[t].goal = p.goal /\ page'[t].role = p.role
      /\ page'[t].token = p.token /\ page'[t].game = p.game /\ page'[t].cache = p.cache
      /\ page'[t].proof = p.proof /\ page'[t].queue = p.queue /\ page'[t].pick = p.pick
      /\ page'[t].stale = p.stale /\ page'[t].consent = p.consent /\ page'[t].snap = lease
  <2>1. p \in PageType /\ page'[t] = r
    BY <1>1, <1>3
  <2> QED BY <2>1 DEF PageType
<1> HIDE DEF p, r
<1>4. PageInv(t, page[t])'
  <2>1. Phase(page[t])'
    BY <1>1, <1>f DEF PageInv, Phase, Up
  <2>2. Fence(t, page[t])'
    BY <1>1, <1>f DEF PageInv, Fence, Phase, SharedType
  <2>3. Flight(t, page[t])'
    BY <1>1, <1>f DEF PageInv, Flight, Phase, Up
  <2>4. Known(page[t])'
    BY <1>1, <1>f DEF PageInv, Known, Phase, Up
  <2>5. Picked(page[t])'
    BY <1>1, <1>f DEF PageInv, Picked
  <2>6. Carries(t, page[t])'
    BY <1>1, <1>f DEF PageInv, Carries, Phase, Up
  <2>7. Judged(page[t])'
    BY <1>1, <1>f DEF PageInv, Judged
  <2> QED BY <2>1, <2>2, <2>3, <2>4, <2>5, <2>6, <2>7 DEF PageInv
<1>5. SharedType' /\ SameFence /\ KeepsForks
  BY <1>1 DEF SharedType, SameFence, KeepsForks
<1> QED BY <1>1, <1>3, <1>4, <1>5, OnlyPage

\* A denied page is a reader; a conflict it started with stays its role.
LEMMA ClaimDeniedKeeps ==
  ASSUME IInv, NEW t \in Tabs, ClaimDenied(t)
  PROVE  IInv'
<1> DEFINE p == page[t]
           pc == AfterClaim(t, FALSE)
           role == RoleAfterClaim(t, "secondary")
           token == IF LockHeld(t) THEN p.token ELSE lease.token
           r == [Idle(p) EXCEPT !.pc = pc, !.role = role, !.token = token]
<1>1. /\ p \in PageType /\ PageInv(t, p) /\ SharedType /\ SharedInv
      /\ UNCHANGED <<durable, lease, conflicts, mirror, now, saves>>
      /\ p.pc = "claim"
      /\ page' = [page EXCEPT ![t] = r]
  BY DEF ClaimDenied, IInv, disk, counters
<1>2. /\ pc \in {"load", "run"} /\ role \in {"secondary", "conflict"}
      /\ pc \in PageStates /\ role \in Roles /\ token \in Nat /\ token <= lease.token
      /\ pc = "load" => p.proof = None /\ p.queue = None
  <2>1. pc \in {"load", "run"} /\ (pc = "load" => p.goal = "boot")
    BY DEF AfterClaim
  <2>2. pc = "load" => p.proof = None /\ p.queue = None
    BY <1>1, <2>1 DEF PageInv, Phase, Up
  <2>3. token \in Nat /\ token <= lease.token
    BY <1>1 DEF SharedType, PageType, LeaseType, PageInv, Fence
  <2> QED BY <2>1, <2>2, <2>3 DEF RoleAfterClaim, PageStates, Roles
<1>i. Idle(p) \in PageType /\ KeptIdle(p, Idle(p))
  BY <1>1, IdleFields
<1> HIDE DEF pc, role, token
<1>3. r \in PageType /\ page'[t] = r
  <2>1. r \in PageType
    BY <1>1, <1>2, <1>i DEF PageType
  <2> QED BY <2>1, <1>1 DEF IInv
<1>f. /\ page'[t].pc = pc /\ page'[t].goal = "boot" /\ page'[t].role = role
      /\ page'[t].token = token /\ page'[t].game = p.game /\ page'[t].cache = p.cache
      /\ page'[t].proof = p.proof /\ page'[t].queue = p.queue /\ page'[t].stale = p.stale
      /\ page'[t].consent = FALSE
  <2>1. p \in PageType /\ Idle(p) \in PageType /\ KeptIdle(p, Idle(p)) /\ page'[t] = r
    BY <1>1, <1>3, <1>i
  <2> QED BY <2>1 DEF PageType, KeptIdle
<1> HIDE DEF p, r
<1>4. PageInv(t, page[t])'
  <2>1. Phase(page[t])'
    BY <1>1, <1>2, <1>f DEF PageInv, Phase, Up
  <2>2. Fence(t, page[t])'
    BY <1>1, <1>2, <1>f DEF PageInv, Fence, Phase, SharedType
  <2>3. Flight(t, page[t])'
    BY <1>1, <1>2, <1>f DEF PageInv, Flight, Phase, Up
  <2>4. Known(page[t])'
    BY <1>1, <1>2, <1>f DEF PageInv, Known, Phase, Up
  <2>5. Picked(page[t])'
    BY <1>1, <1>2, <1>f DEF PageInv, Picked
  <2>6. Carries(t, page[t])'
    BY <1>1, <1>2, <1>f DEF PageInv, Carries, Phase, Up
  <2>7. Judged(page[t])'
    BY <1>1, <1>2, <1>f DEF PageInv, Judged
  <2> QED BY <2>1, <2>2, <2>3, <2>4, <2>5, <2>6, <2>7 DEF PageInv
<1>5. SharedType' /\ SameFence /\ KeepsForks
  BY <1>1 DEF SharedType, SameFence, KeepsForks
<1> QED BY <1>1, <1>3, <1>4, <1>5, OnlyPage

\* The winner of a claim reloads its caches; its role is primary unless a conflict is open.
LEMMA ClaimDoneKeeps ==
  ASSUME IInv, NEW t \in Tabs, ClaimDone(t)
  PROVE  IInv'
<1> DEFINE p == page[t]
           pc == AfterClaim(t, TRUE)
           role == RoleAfterClaim(t, "primary")
           stale == p.goal = "resolve"
           r == [Idle(p) EXCEPT !.pc = pc, !.role = role, !.token = p.snap.token, !.cache = Cached,
                              !.pick = p.pick, !.stale = stale]
<1>1. /\ p \in PageType /\ PageInv(t, p) /\ SharedType /\ SharedInv
      /\ UNCHANGED <<durable, lease, conflicts, mirror, now, saves>>
      /\ p.pc = "claimed"
      /\ page' = [page EXCEPT ![t] = r]
  BY DEF ClaimDone, IInv, disk, counters
<1>a. pc \in {"load", "resWrite"} /\ (pc = "resWrite" => p.goal = "resolve" /\ stale)
  BY <1>1 DEF AfterClaim, PageType
<1>b. role \in Roles /\ stale \in BOOLEAN
  BY DEF RoleAfterClaim, Roles
<1>c. pc = "load" => p.proof = None /\ p.queue = None
  BY <1>1 DEF AfterClaim, PageInv, Phase, Up
<1>d. Cached \in CacheType /\ Cached.rev <= durable.rev
  BY <1>1 DEF Cached, CacheType, SharedType, DurableType
<1>e. p.snap.token \in Nat /\ p.pick \in Nat \X Saves
  BY <1>1 DEF PageType, LeaseType
<1>2. /\ pc \in PageStates /\ pc \in {"load", "resWrite"} /\ (pc = "resWrite" => stale /\ p.goal = "resolve")
      /\ role \in Roles /\ stale \in BOOLEAN
      /\ p.snap.token \in Nat /\ p.pick \in Nat \X Saves
      /\ pc = "load" => p.proof = None /\ p.queue = None
      /\ Cached \in CacheType /\ Cached.rev <= durable.rev
  BY <1>a, <1>b, <1>c, <1>d, <1>e DEF PageStates
<1>i. Idle(p) \in PageType /\ KeptIdle(p, Idle(p))
  BY <1>1, IdleFields
<1> HIDE DEF pc, role, stale
<1>3. r \in PageType /\ page'[t] = r
  <2>1. r \in PageType
    <3> DEFINE i == Idle(p)
               token == p.snap.token
               pick == p.pick
    <3>1. i \in PageType /\ token \in Nat /\ pick \in Nat \X Saves
      BY <1>2, <1>i
    <3>2. r = [i EXCEPT !.pc = pc, !.role = role, !.token = token, !.cache = Cached,
                        !.pick = pick, !.stale = stale]
      OBVIOUS
    <3> HIDE DEF i, token, pick, r
    <3> QED BY <1>2, <3>1, <3>2 DEF PageType
  <2> QED BY <2>1, <1>1 DEF IInv
<1>f. /\ page'[t].pc = pc /\ page'[t].goal = "boot" /\ page'[t].role = role
      /\ page'[t].token = p.snap.token /\ page'[t].game = p.game /\ page'[t].cache = Cached
      /\ page'[t].proof = p.proof /\ page'[t].queue = p.queue /\ page'[t].stale = stale
      /\ page'[t].consent = FALSE /\ page'[t].pick = p.pick
  <2>1. p \in PageType /\ Idle(p) \in PageType /\ KeptIdle(p, Idle(p)) /\ page'[t] = r
    BY <1>1, <1>3, <1>i
  <2> QED BY <2>1 DEF PageType, KeptIdle
<1> HIDE DEF p, r
<1>4. PageInv(t, page[t])'
  <2>1. Phase(page[t])'
    BY <1>1, <1>2, <1>f DEF PageInv, Phase, Up
  <2>2. Fence(t, page[t])'
    BY <1>1, <1>2, <1>f DEF PageInv, Fence, Phase, SharedType
  <2>3. Flight(t, page[t])'
    BY <1>1, <1>2, <1>f DEF PageInv, Flight, Phase, Up
  <2>4. Known(page[t])'
    BY <1>1, <1>2, <1>f DEF PageInv, Known, Phase, Up
  <2>5. Picked(page[t])'
    BY <1>1, <1>2, <1>f DEF PageInv, Picked, KeepsForks, Phase
  <2>6. Carries(t, page[t])'
    BY <1>1, <1>2, <1>f DEF PageInv, Carries, Phase, Up
  <2>7. Judged(page[t])'
    BY <1>1, <1>2, <1>f DEF PageInv, Judged
  <2> QED BY <2>1, <2>2, <2>3, <2>4, <2>5, <2>6, <2>7 DEF PageInv
<1>5. SharedType' /\ SameFence /\ KeepsForks
  BY <1>1 DEF SharedType, SameFence, KeepsForks
<1> QED BY <1>1, <1>3, <1>4, <1>5, OnlyPage

\* The player loads the primary save.
LEMMA LoadKeeps ==
  ASSUME IInv, NEW t \in Tabs, Load(t)
  PROVE  IInv'
<1> DEFINE p == page[t]
           r == [p EXCEPT !.pc = "run", !.game = durable.val]
<1>1. /\ p \in PageType /\ PageInv(t, p) /\ SharedType /\ SharedInv
      /\ UNCHANGED <<durable, lease, conflicts, mirror, now, saves>>
      /\ p.pc = "load"
      /\ page' = [page EXCEPT ![t] = r]
  BY DEF Load, IInv, disk, counters
<1>3. r \in PageType /\ page'[t] = r
  <2>1. r \in PageType
    <3>1. p \in PageType /\ "run" \in PageStates /\ durable.val \in Saves
      BY <1>1 DEF PageStates, SharedType, DurableType
    <3> HIDE DEF p
    <3> QED BY <3>1 DEF PageType
  <2> QED BY <2>1, <1>1 DEF IInv
<1>f. /\ page'[t].pc = "run" /\ page'[t].goal = p.goal /\ page'[t].role = p.role
      /\ page'[t].token = p.token /\ page'[t].game = durable.val /\ page'[t].cache = p.cache
      /\ page'[t].proof = p.proof /\ page'[t].queue = p.queue /\ page'[t].pick = p.pick
      /\ page'[t].stale = p.stale /\ page'[t].consent = p.consent /\ page'[t].snap = p.snap
      /\ page'[t].copy = p.copy /\ page'[t].base = p.base
  <2>1. p \in PageType /\ page'[t] = r
    BY <1>1, <1>3
  <2> QED BY <2>1 DEF PageType
<1> HIDE DEF p, r
<1>4. PageInv(t, page[t])'
  <2>1. Phase(page[t])'
    BY <1>1, <1>f DEF PageInv, Phase, Up
  <2>2. Fence(t, page[t])'
    BY <1>1, <1>f DEF PageInv, Fence, Phase, SharedType
  <2>3. Flight(t, page[t])'
    BY <1>1, <1>f DEF PageInv, Flight, Phase, Up
  <2>4. Known(page[t])'
    BY <1>1, <1>f DEF PageInv, Known, Phase, Up
  <2>5. Picked(page[t])'
    BY <1>1, <1>f DEF PageInv, Picked
  <2>6. Carries(t, page[t])'
    BY <1>1, <1>f DEF PageInv, Carries, Phase, Up
  <2>7. Judged(page[t])'
    BY <1>1, <1>f DEF PageInv, Judged
  <2> QED BY <2>1, <2>2, <2>3, <2>4, <2>5, <2>6, <2>7 DEF PageInv
<1>5. SharedType' /\ SameFence /\ KeepsForks
  BY <1>1 DEF SharedType, SameFence, KeepsForks
<1> QED BY <1>1, <1>3, <1>4, <1>5, OnlyPage

\* A mirror that is not applied becomes a conflict record, or goes.
LEMMA SetsMirrorAsideKeeps ==
  ASSUME IInv, NEW t \in Tabs, SetsMirrorAside(t)
  PROVE  IInv'
<1> DEFINE p == page[t]
           forks == p.copy.val # p.base.val
           fork == [cand |-> p.copy.val, kept |-> p.base.val, open |-> TRUE]
           forked == p.forked \/ forks
           r == [Idle(p) EXCEPT !.pc = "claim", !.forked = forked]
<1>1. /\ p \in PageType /\ PageInv(t, p) /\ SharedType /\ SharedInv
      /\ UNCHANGED <<durable, lease, now, saves>>
      /\ p.pc = "mirror"
      /\ mirror' = None
      /\ conflicts' = IF forks THEN Append(conflicts, fork) ELSE conflicts
      /\ page' = [page EXCEPT ![t] = r]
  BY DEF SetsMirrorAside, IInv, counters
<1>2. forked \in BOOLEAN /\ "claim" \in PageStates /\ (forks => fork \in ForkType)
  <2>1. p.copy \in MirrorType
    BY <1>1 DEF PageInv, Judged, PageType
  <2> QED BY <1>1, <2>1 DEF MirrorType, ForkType, PageType, DurableType, PageStates
<1>i. Idle(p) \in PageType /\ KeptIdle(p, Idle(p))
  BY <1>1, IdleFields
<1> HIDE DEF forked
<1>3. r \in PageType /\ page'[t] = r
  <2>1. r \in PageType
    <3> DEFINE i == Idle(p)
    <3>1. i \in PageType
      BY <1>i
    <3>2. r = [i EXCEPT !.pc = "claim", !.forked = forked]
      OBVIOUS
    <3> HIDE DEF i, r
    <3> QED BY <1>2, <3>1, <3>2 DEF PageType
  <2> QED BY <2>1, <1>1 DEF IInv
<1>f. /\ page'[t].pc = "claim" /\ page'[t].goal = "boot" /\ page'[t].role = p.role
      /\ page'[t].token = p.token /\ page'[t].game = p.game /\ page'[t].cache = p.cache
      /\ page'[t].proof = p.proof /\ page'[t].queue = p.queue /\ page'[t].stale = p.stale
      /\ page'[t].consent = FALSE
  <2>1. p \in PageType /\ Idle(p) \in PageType /\ KeptIdle(p, Idle(p)) /\ page'[t] = r
    BY <1>1, <1>3, <1>i
  <2> QED BY <2>1 DEF PageType, KeptIdle
<1> HIDE DEF p, r
<1>4. PageInv(t, page[t])'
  <2>1. Phase(page[t])'
    BY <1>1, <1>2, <1>f DEF PageInv, Phase, Up
  <2>2. Fence(t, page[t])'
    BY <1>1, <1>2, <1>f DEF PageInv, Fence, Phase, SharedType
  <2>3. Flight(t, page[t])'
    BY <1>1, <1>2, <1>f DEF PageInv, Flight, Phase, Up
  <2>4. Known(page[t])'
    BY <1>1, <1>2, <1>f DEF PageInv, Known, Phase, Up
  <2>5. Picked(page[t])'
    BY <1>1, <1>2, <1>f DEF PageInv, Picked
  <2>6. Carries(t, page[t])'
    BY <1>1, <1>2, <1>f DEF PageInv, Carries, Phase, Up
  <2>7. Judged(page[t])'
    BY <1>1, <1>2, <1>f DEF PageInv, Judged
  <2> QED BY <2>1, <2>2, <2>3, <2>4, <2>5, <2>6, <2>7 DEF PageInv
<1>5. SharedType' /\ SameFence /\ KeepsForks
  BY <1>1, <1>2 DEF SharedType, SameFence, KeepsForks
<1> QED BY <1>1, <1>3, <1>4, <1>5, OnlyPage

\* A claim refused at its write leaves the lease alone.
LEMMA ClaimRefusedKeeps ==
  ASSUME IInv, NEW t \in Tabs, ClaimWrite(t),
         lease.owner \notin {None, t} /\ lease.until > page[t].at
  PROVE  IInv'
<1> DEFINE p == page[t]
           pc == IF p.goal = "boot" THEN "failed" ELSE "run"
           r == [Idle(p) EXCEPT !.pc = pc]
<1>1. /\ p \in PageType /\ PageInv(t, p) /\ SharedType /\ SharedInv
      /\ UNCHANGED <<durable, conflicts, mirror, now, saves>>
      /\ p.pc = "claimWrite"
      /\ lease' = lease
      /\ page' = [page EXCEPT ![t] = r]
  BY DEF ClaimWrite, IInv, counters, ghosts
<1>2. /\ pc \in {"failed", "run"} /\ pc \in PageStates
      /\ pc = "failed" => p.proof = None /\ p.queue = None
  BY <1>1 DEF PageStates, PageType, PageInv, Phase, Up
<1>i. Idle(p) \in PageType /\ KeptIdle(p, Idle(p))
  BY <1>1, IdleFields
<1> HIDE DEF pc
<1>3. r \in PageType /\ page'[t] = r
  <2>1. r \in PageType
    BY <1>1, <1>2, <1>i DEF PageType
  <2> QED BY <2>1, <1>1 DEF IInv
<1>f. /\ page'[t].pc = pc /\ page'[t].goal = "boot" /\ page'[t].role = p.role
      /\ page'[t].token = p.token /\ page'[t].game = p.game /\ page'[t].cache = p.cache
      /\ page'[t].proof = p.proof /\ page'[t].queue = p.queue /\ page'[t].stale = p.stale
      /\ page'[t].consent = FALSE
  <2>1. p \in PageType /\ Idle(p) \in PageType /\ KeptIdle(p, Idle(p)) /\ page'[t] = r
    BY <1>1, <1>3, <1>i
  <2> QED BY <2>1 DEF PageType, KeptIdle
<1> HIDE DEF p, r
<1>4. PageInv(t, page[t])'
  <2>1. Phase(page[t])'
    BY <1>1, <1>2, <1>f DEF PageInv, Phase, Up
  <2>2. Fence(t, page[t])'
    BY <1>1, <1>2, <1>f DEF PageInv, Fence, Phase, SharedType
  <2>3. Flight(t, page[t])'
    BY <1>1, <1>2, <1>f DEF PageInv, Flight, Phase, Up
  <2>4. Known(page[t])'
    BY <1>1, <1>2, <1>f DEF PageInv, Known, Phase, Up
  <2>5. Picked(page[t])'
    BY <1>1, <1>2, <1>f DEF PageInv, Picked
  <2>6. Carries(t, page[t])'
    BY <1>1, <1>2, <1>f DEF PageInv, Carries, Phase, Up
  <2>7. Judged(page[t])'
    BY <1>1, <1>2, <1>f DEF PageInv, Judged
  <2> QED BY <2>1, <2>2, <2>3, <2>4, <2>5, <2>6, <2>7 DEF PageInv
<1>5. SharedType' /\ SameFence /\ KeepsForks
  BY <1>1 DEF SharedType, SameFence, KeepsForks
<1> QED BY <1>1, <1>3, <1>4, <1>5, OnlyPage

\* A granted claim keeps the fence when the page owned it, and raises it otherwise.
LEMMA ClaimGrantedKeeps ==
  ASSUME "tie" \notin hit', IInv, NEW t \in Tabs, ClaimWrite(t),
         ~(lease.owner \notin {None, t} /\ lease.until > page[t].at)
  PROVE  IInv'
<1> DEFINE p == page[t]
           token == IF p.snap.owner = t THEN p.snap.token ELSE p.snap.token + 1
           r == [p EXCEPT !.pc = "claimed", !.snap = lease', !.at = 0]
<1>1. /\ p \in PageType /\ PageInv(t, p) /\ SharedType /\ SharedInv
      /\ UNCHANGED <<durable, conflicts, mirror, now, saves>>
      /\ p.pc = "claimWrite"
      /\ lease' = [owner |-> t, token |-> token, until |-> p.at + Duration]
      /\ lease.owner = p.snap.owner /\ lease.token = p.snap.token
      /\ page' = [page EXCEPT ![t] = r]
  BY DEF ClaimWrite, IInv, counters, ghosts
<1>a. p.at \in Nat /\ lease.token \in Nat /\ token \in Nat /\ token >= lease.token
  BY <1>1 DEF PageType, SharedType, LeaseType
<1>b. lease'.owner = t /\ lease'.token = token /\ lease' \in LeaseType
  BY <1>1, <1>a, BoundsAreNat DEF LeaseType
<1>c. /\ p.token \in Nat /\ p.token <= lease.token
      /\ p.proof # None => p.proof.token \in Nat /\ p.proof.token <= lease.token
  BY <1>1 DEF PageType, ProofType, PageInv, Fence, Flight
<1>2. /\ lease' \in LeaseType /\ lease'.owner = t /\ lease'.token >= lease.token
      /\ SameFence \/ lease'.token > lease.token
      /\ p.token <= lease'.token /\ lease'.token <= lease'.token
      /\ p.proof # None => /\ p.proof.token <= lease'.token
                           /\ SameFence \/ p.proof.token # lease'.token
      /\ "claimed" \in PageStates
  BY <1>1, <1>a, <1>b, <1>c DEF SameFence, PageStates
<1>3. r \in PageType /\ page'[t] = r
  <2>1. r \in PageType
    <3>1. p \in PageType
      BY <1>1
    <3> HIDE DEF p
    <3> QED BY <1>2, <3>1 DEF PageType
  <2> QED BY <2>1, <1>1 DEF IInv
<1>f. /\ page'[t].pc = "claimed" /\ page'[t].goal = p.goal /\ page'[t].role = p.role
      /\ page'[t].token = p.token /\ page'[t].game = p.game /\ page'[t].cache = p.cache
      /\ page'[t].proof = p.proof /\ page'[t].queue = p.queue /\ page'[t].pick = p.pick
      /\ page'[t].stale = p.stale /\ page'[t].consent = p.consent /\ page'[t].snap = lease'
  <2>1. p \in PageType /\ page'[t] = r
    BY <1>1, <1>3
  <2> QED BY <2>1 DEF PageType
<1> HIDE DEF p, r
<1>4. PageInv(t, page[t])'
  <2>1. Phase(page[t])'
    BY <1>1, <1>2, <1>f DEF PageInv, Phase, Up
  <2>2. Fence(t, page[t])'
    BY <1>1, <1>2, <1>f DEF PageInv, Fence
  <2>3. Flight(t, page[t])'
    BY <1>1, <1>2, <1>f DEF PageInv, Flight, SameFence
  <2>4. Known(page[t])'
    BY <1>1, <1>2, <1>f DEF PageInv, Known, Phase, Up
  <2>5. Picked(page[t])'
    BY <1>1, <1>2, <1>f DEF PageInv, Picked
  <2>6. Carries(t, page[t])'
    BY <1>1, <1>2, <1>f DEF PageInv, Carries, Phase, Up
  <2>7. Judged(page[t])'
    BY <1>1, <1>2, <1>f DEF PageInv, Judged
  <2> QED BY <2>1, <2>2, <2>3, <2>4, <2>5, <2>6, <2>7 DEF PageInv
<1>5. SharedType' /\ KeepsForks /\ lease'.owner = t /\ lease'.token >= lease.token
  BY <1>1, <1>2 DEF SharedType, KeepsForks, LeaseType, SameFence
<1>6. SharedInv'
  BY <1>1, <1>2, <1>5, LeaseMoves
<1> QED BY <1>1, <1>3, <1>4, <1>5, <1>6, OneMoves

\* A takeover raises the fence above every token in use, so nothing in flight is admitted under it.
LEMMA TakeOverKeeps ==
  ASSUME IInv, NEW t \in Tabs, TakeOver(t)
  PROVE  IInv'
<1> DEFINE p == page[t]
           token == Larger(p.token, lease.token) + 1
           r == [p EXCEPT !.pc = "take", !.snap = lease']
<1>1. /\ p \in PageType /\ PageInv(t, p) /\ SharedType /\ SharedInv
      /\ UNCHANGED <<durable, conflicts, mirror, now, saves>>
      /\ p.pc = "run" /\ p.role = "secondary"
      /\ lease' = [owner |-> t, token |-> token, until |-> now + Duration]
      /\ page' = [page EXCEPT ![t] = r]
  BY DEF TakeOver, IInv
<1>a. /\ p.token \in Nat /\ lease.token \in Nat /\ now \in Nat /\ durable.token \in Nat
      /\ p.token <= lease.token /\ durable.token <= lease.token
  BY <1>1 DEF PageType, SharedType, LeaseType, DurableType, SharedInv, PageInv, Fence
<1>b. token \in Nat /\ token > lease.token
  BY <1>a DEF Larger
<1>c. p.proof # None => p.proof \in ProofType /\ p.proof.token \in Nat /\ p.proof.token <= lease.token
  BY <1>1, <1>a DEF PageType, ProofType, PageInv, Flight
<1>2. /\ lease' \in LeaseType /\ lease'.owner = t /\ lease'.token > lease.token
      /\ durable.token < lease'.token /\ (p.proof # None => p.proof.token < lease'.token /\ p.proof.token # lease'.token)
      /\ p.token <= lease'.token /\ (p.proof # None => p.proof.token <= lease'.token)
      /\ p.goal = "boot" /\ "take" \in PageStates
  BY <1>1, <1>a, <1>b, <1>c, BoundsAreNat DEF LeaseType, PageInv, Phase, PageType, PageStates
<1>3. r \in PageType /\ page'[t] = r
  <2>1. r \in PageType
    BY <1>1, <1>2 DEF PageType
  <2> QED BY <2>1, <1>1 DEF IInv
<1>f. /\ page'[t].pc = "take" /\ page'[t].goal = p.goal /\ page'[t].role = p.role
      /\ page'[t].token = p.token /\ page'[t].game = p.game /\ page'[t].cache = p.cache
      /\ page'[t].proof = p.proof /\ page'[t].queue = p.queue /\ page'[t].pick = p.pick
      /\ page'[t].stale = p.stale /\ page'[t].consent = p.consent /\ page'[t].snap = lease'
  <2>1. p \in PageType /\ page'[t] = r
    BY <1>1, <1>3
  <2> QED BY <2>1 DEF PageType
<1> HIDE DEF p, r
<1>4. PageInv(t, page[t])'
  <2>1. Phase(page[t])'
    BY <1>1, <1>2, <1>f DEF PageInv, Phase, Up
  <2>2. Fence(t, page[t])'
    BY <1>1, <1>2, <1>f DEF PageInv, Fence
  <2>3. Flight(t, page[t])'
    BY <1>1, <1>2, <1>f DEF PageInv, Flight
  <2>4. Known(page[t])'
    BY <1>1, <1>2, <1>f DEF PageInv, Known, Phase, Up
  <2>5. Picked(page[t])'
    BY <1>1, <1>2, <1>f DEF PageInv, Picked
  <2>6. Carries(t, page[t])'
    BY <1>1, <1>2, <1>f DEF PageInv, Carries, Phase, Up
  <2>7. Judged(page[t])'
    BY <1>1, <1>2, <1>f DEF PageInv, Judged
  <2> QED BY <2>1, <2>2, <2>3, <2>4, <2>5, <2>6, <2>7 DEF PageInv
<1>5. SharedType' /\ KeepsForks /\ lease'.owner = t /\ lease'.token >= lease.token
  BY <1>1, <1>2 DEF SharedType, KeepsForks, LeaseType, SameFence
<1>6. SharedInv'
  BY <1>1, <1>2, <1>5, LeaseMoves
<1> QED BY <1>1, <1>3, <1>4, <1>5, <1>6, OneMoves


-----------------------------------------------------------------------------
(* Saving with proof *)

\* A captured save contains the game of a primary page, hence the line it would replace.
LEMMA SaveKeeps ==
  ASSUME IInv, NEW t \in Tabs, Save(t)
  PROVE  IInv'
<1> DEFINE p == page[t]
           val == p.game \cup {saves + 1}
           flight == [val |-> val, rev |-> p.cache.rev, token |-> p.token,
                       consent |-> p.consent, written |-> FALSE]
           r == [p EXCEPT !.game = val, !.proof = flight]
<1>1. /\ p \in PageType /\ PageInv(t, p) /\ SharedType /\ SharedInv
      /\ UNCHANGED <<durable, lease, conflicts, mirror, now>>
      /\ Up(p) /\ p.role = "primary" /\ p.proof = None /\ p.queue = None
      /\ saves < MaxSaves /\ saves' = saves + 1
      /\ page' = [page EXCEPT ![t] = r]
  BY DEF Save, IInv, Mounted, Up, disk
<1>o. p.game \in Saves /\ saves \in Nat
  BY <1>1 DEF PageType, SharedType
<1>a. val \in Saves
  BY <1>1, <1>o, BoundsAreNat DEF Saves
<1>2. /\ val \in Saves /\ flight \in ProofType /\ p.game \subseteq val
      /\ p.token \in Nat /\ p.token <= lease.token
      /\ flight.val = val /\ flight.token = p.token /\ flight.consent = p.consent
  BY <1>1, <1>a DEF PageType, ProofType, CacheType, PageInv, Fence
<1> HIDE DEF flight, val
<1>3. r \in PageType /\ page'[t] = r
  <2>1. r \in PageType
    BY <1>1, <1>2 DEF PageType
  <2> QED BY <2>1, <1>1 DEF IInv
<1>f. /\ page'[t].pc = p.pc /\ page'[t].goal = p.goal /\ page'[t].role = p.role
      /\ page'[t].token = p.token /\ page'[t].game = val /\ page'[t].cache = p.cache
      /\ page'[t].proof = flight /\ page'[t].queue = p.queue /\ page'[t].pick = p.pick
      /\ page'[t].stale = p.stale /\ page'[t].consent = p.consent /\ page'[t].snap = p.snap
      /\ page'[t].copy = p.copy /\ page'[t].base = p.base
  <2>1. p \in PageType /\ page'[t] = r
    BY <1>1, <1>3
  <2> QED BY <2>1 DEF PageType
<1> HIDE DEF p, r
<1>4. PageInv(t, page[t])'
  <2>1. Phase(page[t])'
    BY <1>1, <1>2, <1>f DEF PageInv, Phase, Up
  <2>2. Fence(t, page[t])'
    BY <1>1, <1>2, <1>f DEF PageInv, Fence, Phase, SharedType
  <2>3. Flight(t, page[t])'
    BY <1>1, <1>2, <1>f DEF PageInv, Flight, Phase, Up, Carries
  <2>4. Known(page[t])'
    BY <1>1, <1>2, <1>f DEF PageInv, Known, Phase, Up
  <2>5. Picked(page[t])'
    BY <1>1, <1>2, <1>f DEF PageInv, Picked
  <2>6. Carries(t, page[t])'
    BY <1>1, <1>2, <1>f DEF PageInv, Carries, Phase, Up
  <2>7. Judged(page[t])'
    BY <1>1, <1>2, <1>f DEF PageInv, Judged
  <2> QED BY <2>1, <2>2, <2>3, <2>4, <2>5, <2>6, <2>7 DEF PageInv
<1>5. SharedType' /\ SameFence /\ KeepsForks
  BY <1>1 DEF SharedType, SameFence, KeepsForks
<1> QED BY <1>1, <1>3, <1>4, <1>5, OnlyPage

\* A failed save reloads the caches; the page plays on with its own game.
LEMMA ProofFailsKeeps ==
  ASSUME IInv, NEW t \in Tabs, ProofFails(t)
  PROVE  IInv'
<1> DEFINE p == page[t]
           r == [p EXCEPT !.proof = None, !.cache = Cached]
<1>1. /\ p \in PageType /\ PageInv(t, p) /\ SharedType /\ SharedInv
      /\ UNCHANGED <<durable, lease, conflicts, mirror, now, saves>>
      /\ p.proof # None
      /\ page' = [page EXCEPT ![t] = r]
  BY DEF ProofFails, IInv, Sent, disk, ghosts
<1>2. Cached \in CacheType /\ Cached.rev = durable.rev /\ durable.rev <= durable.rev
  BY <1>1 DEF Cached, CacheType, SharedType, DurableType
<1>3. r \in PageType /\ page'[t] = r
  <2>1. r \in PageType
    BY <1>1, <1>2 DEF PageType
  <2> QED BY <2>1, <1>1 DEF IInv
<1>f. /\ page'[t].pc = p.pc /\ page'[t].goal = p.goal /\ page'[t].role = p.role
      /\ page'[t].token = p.token /\ page'[t].game = p.game /\ page'[t].cache = Cached
      /\ page'[t].proof = None /\ page'[t].queue = p.queue /\ page'[t].pick = p.pick
      /\ page'[t].stale = p.stale /\ page'[t].consent = p.consent /\ page'[t].snap = p.snap
      /\ page'[t].copy = p.copy /\ page'[t].base = p.base
  <2>1. p \in PageType /\ page'[t] = r
    BY <1>1, <1>3
  <2> QED BY <2>1 DEF PageType
<1> HIDE DEF p, r
<1>4. PageInv(t, page[t])'
  <2>1. Phase(page[t])'
    BY <1>1, <1>2, <1>f DEF PageInv, Phase, Up
  <2>2. Fence(t, page[t])'
    BY <1>1, <1>2, <1>f DEF PageInv, Fence, Phase, SharedType
  <2>3. Flight(t, page[t])'
    BY <1>1, <1>2, <1>f DEF PageInv, Flight, Phase, Up
  <2>4. Known(page[t])'
    BY <1>1, <1>2, <1>f DEF PageInv, Known, Phase, Up
  <2>5. Picked(page[t])'
    BY <1>1, <1>2, <1>f DEF PageInv, Picked
  <2>6. Carries(t, page[t])'
    BY <1>1, <1>2, <1>f DEF PageInv, Carries, Phase, Up
  <2>7. Judged(page[t])'
    BY <1>1, <1>2, <1>f DEF PageInv, Judged
  <2> QED BY <2>1, <2>2, <2>3, <2>4, <2>5, <2>6, <2>7 DEF PageInv
<1>5. SharedType' /\ SameFence /\ KeepsForks
  BY <1>1 DEF SharedType, SameFence, KeepsForks
<1> QED BY <1>1, <1>3, <1>4, <1>5, OnlyPage

\* A confirmed save ends the consent: the page has written its own game.
LEMMA ProofSettlesKeeps ==
  ASSUME IInv, NEW t \in Tabs, ProofSettles(t)
  PROVE  IInv'
<1> DEFINE p == page[t]
           ok == durable.val = p.proof.val /\ durable.rev = p.proof.rev + 1
                    /\ lease.owner = t /\ lease.token = p.proof.token
           consent == p.consent /\ ~ok
           r == [p EXCEPT !.proof = None, !.cache = Cached, !.consent = consent]
<1>1. /\ p \in PageType /\ PageInv(t, p) /\ SharedType /\ SharedInv
      /\ UNCHANGED <<durable, lease, conflicts, now, saves>>
      /\ p.proof # None
      /\ mirror' \in {mirror, None}
      /\ consent \/ ~p.consent \/ durable.val = p.proof.val
      /\ page' = [page EXCEPT ![t] = r]
  BY DEF ProofSettles, IInv, disk, counters
<1>2. Cached \in CacheType /\ Cached.rev = durable.rev /\ durable.rev <= durable.rev /\ consent \in BOOLEAN /\ (consent => p.consent)
  BY <1>1 DEF Cached, CacheType, SharedType, DurableType, PageType
<1> HIDE DEF consent
<1>3. r \in PageType /\ page'[t] = r
  <2>1. r \in PageType
    BY <1>1, <1>2 DEF PageType
  <2> QED BY <2>1, <1>1 DEF IInv
<1>f. /\ page'[t].pc = p.pc /\ page'[t].goal = p.goal /\ page'[t].role = p.role
      /\ page'[t].token = p.token /\ page'[t].game = p.game /\ page'[t].cache = Cached
      /\ page'[t].proof = None /\ page'[t].queue = p.queue /\ page'[t].pick = p.pick
      /\ page'[t].stale = p.stale /\ page'[t].consent = consent /\ page'[t].snap = p.snap
      /\ page'[t].copy = p.copy /\ page'[t].base = p.base
  <2>1. p \in PageType /\ page'[t] = r
    BY <1>1, <1>3
  <2> QED BY <2>1 DEF PageType
<1> HIDE DEF p, r
<1>4. PageInv(t, page[t])'
  <2>1. Phase(page[t])'
    BY <1>1, <1>2, <1>f DEF PageInv, Phase, Up
  <2>2. Fence(t, page[t])'
    BY <1>1, <1>2, <1>f DEF PageInv, Fence, Phase, SharedType
  <2>3. Flight(t, page[t])'
    BY <1>1, <1>2, <1>f DEF PageInv, Flight, Phase, Up
  <2>4. Known(page[t])'
    BY <1>1, <1>2, <1>f DEF PageInv, Known, Phase, Up
  <2>5. Picked(page[t])'
    BY <1>1, <1>2, <1>f DEF PageInv, Picked
  <2>6. Carries(t, page[t])'
    BY <1>1, <1>2, <1>f DEF PageInv, Carries, Flight, Up
  <2>7. Judged(page[t])'
    BY <1>1, <1>2, <1>f DEF PageInv, Judged
  <2> QED BY <2>1, <2>2, <2>3, <2>4, <2>5, <2>6, <2>7 DEF PageInv
<1>5. SharedType' /\ SameFence /\ KeepsForks
  BY <1>1 DEF SharedType, SameFence, KeepsForks
<1> QED BY <1>1, <1>3, <1>4, <1>5, OnlyPage

\* The save that is admitted is written under the fence it was captured with.
LEMMA ProofCommitsKeeps ==
  ASSUME IInv, NEW t \in Tabs, ProofCommits(t)
  PROVE  IInv'
<1> DEFINE p == page[t]
           written == [p.proof EXCEPT !.written = TRUE]
           r == [p EXCEPT !.proof = written]
<1>1. /\ p \in PageType /\ PageInv(t, p) /\ SharedType /\ SharedInv
      /\ UNCHANGED <<conflicts, mirror, now, saves>>
      /\ p.proof # None /\ ~p.proof.written /\ lease.owner = t /\ lease.token = p.proof.token
      /\ durable.rev = p.proof.rev
      /\ durable' = [val |-> p.proof.val, rev |-> p.proof.rev + 1, by |-> t, token |-> p.proof.token]
      /\ lease' = Held(t)
      /\ page' = [page EXCEPT ![t] = r]
  BY DEF ProofCommits, IInv, Sent, ProofAdmitted, counters
<1>a. p.proof \in ProofType
  BY <1>1 DEF PageType
<1>b. written \in ProofType /\ written.val = p.proof.val /\ written.token = p.proof.token /\ written.written
  BY <1>a DEF ProofType
<1>c. durable.rev \in Nat /\ lease.token \in Nat
  BY <1>1 DEF SharedType, DurableType, LeaseType
<1>d. SameFence /\ lease' \in LeaseType /\ lease'.owner = t /\ lease'.token >= lease.token
  BY <1>1, <1>c, HeldFields DEF SameFence
<1>e. /\ durable' \in DurableType /\ durable'.rev = durable.rev + 1 /\ durable'.rev >= durable.rev
      /\ durable'.token = lease.token /\ durable'.val = p.proof.val
  BY <1>1, <1>a, <1>c DEF DurableType, ProofType
<1>2. /\ written \in ProofType /\ written.val = p.proof.val /\ written.token = p.proof.token /\ written.written
      /\ SameFence /\ lease' \in LeaseType /\ lease'.owner = t /\ lease'.token >= lease.token
      /\ durable' \in DurableType /\ durable'.rev = durable.rev + 1 /\ durable'.rev >= durable.rev
      /\ durable'.token <= lease.token /\ durable'.val = p.proof.val
      /\ durable.rev \in Nat /\ lease.token \in Nat /\ p.proof.token = lease.token
  BY <1>1, <1>b, <1>c, <1>d, <1>e
<1> HIDE DEF written
<1>3. r \in PageType /\ page'[t] = r
  <2>1. r \in PageType
    BY <1>1, <1>2 DEF PageType
  <2> QED BY <2>1, <1>1 DEF IInv
<1>f. /\ page'[t].pc = p.pc /\ page'[t].goal = p.goal /\ page'[t].role = p.role
      /\ page'[t].token = p.token /\ page'[t].game = p.game /\ page'[t].cache = p.cache
      /\ page'[t].proof = written /\ page'[t].queue = p.queue /\ page'[t].pick = p.pick
      /\ page'[t].stale = p.stale /\ page'[t].consent = p.consent /\ page'[t].snap = p.snap
      /\ page'[t].copy = p.copy /\ page'[t].base = p.base
  <2>1. p \in PageType /\ page'[t] = r
    BY <1>1, <1>3
  <2> QED BY <2>1 DEF PageType
<1> HIDE DEF p, r
<1>4. PageInv(t, page[t])'
  <2>1. Phase(page[t])'
    BY <1>1, <1>2, <1>f DEF PageInv, Phase, Up
  <2>2. Fence(t, page[t])'
    BY <1>1, <1>2, <1>f DEF PageInv, Fence, SameFence
  <2>3. Flight(t, page[t])'
    BY <1>1, <1>2, <1>f DEF PageInv, Flight, Phase, Up
  <2>4. Known(page[t])'
    <3>1. p.cache.rev \in Nat /\ (p.queue # None => p.queue.base.rev \in Nat)
      BY <1>1 DEF PageType, CacheType, QueueType
    <3>2. Known(p)
      BY <1>1 DEF PageInv
    <3> QED BY <1>2, <1>f, <3>1, <3>2 DEF Known
  <2>5. Picked(page[t])'
    BY <1>1, <1>2, <1>f DEF PageInv, Picked
  <2>6. Carries(t, page[t])'
    BY <1>1, <1>2, <1>f DEF PageInv, Carries, Flight
  <2>7. Judged(page[t])'
    BY <1>1, <1>2, <1>f DEF PageInv, Judged
  <2> QED BY <2>1, <2>2, <2>3, <2>4, <2>5, <2>6, <2>7 DEF PageInv
<1>5. SharedType' /\ KeepsForks /\ SameFence
  BY <1>1, <1>2 DEF SharedType, KeepsForks, SameFence
<1>6. SharedInv'
  BY <1>1, <1>2, <1>5, SaveGrows
<1> QED BY <1>1, <1>2, <1>3, <1>4, <1>5, <1>6, OneMoves


-----------------------------------------------------------------------------
(* The save of a hidden page *)

\* The mirror of a hidden page is of the fence and revision it knows, and contains the line.
LEMMA HideSaveKeeps ==
  ASSUME IInv, NEW t \in Tabs, HideSave(t)
  PROVE  IInv'
<1> DEFINE p == page[t]
           val == p.game \cup {saves + 1}
           rev == p.cache.rev + 1
           cache == [rev |-> rev, val |-> val]
           queue == [val |-> val, base |-> p.cache, written |-> FALSE]
           r == [p EXCEPT !.away = TRUE, !.game = val, !.cache = cache, !.queue = queue]
<1>1. /\ p \in PageType /\ PageInv(t, p) /\ SharedType /\ SharedInv
      /\ UNCHANGED <<durable, lease, conflicts, now>>
      /\ Up(p) /\ p.role = "primary" /\ p.queue = None
      /\ saves < MaxSaves /\ saves' = saves + 1
      /\ mirror' = [val |-> val, by |-> t, token |-> p.token, rev |-> rev,
                    stale |-> p.stale]
      /\ page' = [page EXCEPT ![t] = r]
  BY DEF HideSave, IInv, Mounted, Up, disk
<1>o. p.game \in Saves /\ p.cache \in CacheType /\ saves \in Nat
  BY <1>1 DEF PageType, SharedType
<1>a. val \in Saves /\ rev \in Nat
  BY <1>1, <1>o, BoundsAreNat DEF Saves, CacheType
<1>b. queue \in QueueType
  BY <1>1, <1>a DEF PageType, QueueType, CacheType
<1>c. queue # None
  BY <1>b, NoneIsNotAQueue DEF QueueType, CacheType
<1>2. /\ val \in Saves /\ queue \in QueueType /\ cache \in CacheType /\ p.game \subseteq val
      /\ mirror' \in MirrorType /\ mirror'.val = val /\ mirror'.by = t /\ mirror'.token = p.token
      /\ mirror'.stale = p.stale
      /\ cache.rev = p.cache.rev + 1 /\ mirror'.rev = p.cache.rev + 1
      /\ queue.val = val /\ queue.base = p.cache /\ ~queue.written /\ queue # None /\ p.cache.rev <= durable.rev
  BY <1>1, <1>a, <1>b, <1>c DEF PageInv, Known, PageType, CacheType, MirrorType
<1> HIDE DEF val, rev, cache, queue
<1>3. r \in PageType /\ page'[t] = r
  <2>1. r \in PageType
    <3>1. p \in PageType
      BY <1>1
    <3> HIDE DEF p
    <3> QED BY <1>2, <3>1 DEF PageType
  <2> QED BY <2>1, <1>1 DEF IInv
<1>f. /\ page'[t].pc = p.pc /\ page'[t].goal = p.goal /\ page'[t].role = p.role
      /\ page'[t].token = p.token /\ page'[t].game = val /\ page'[t].cache = cache
      /\ page'[t].proof = p.proof /\ page'[t].queue = queue /\ page'[t].pick = p.pick
      /\ page'[t].stale = p.stale /\ page'[t].consent = p.consent /\ page'[t].snap = p.snap
      /\ page'[t].copy = p.copy /\ page'[t].base = p.base
  <2>1. p \in PageType /\ page'[t] = r
    BY <1>1, <1>3
  <2> QED BY <2>1 DEF PageType
<1> HIDE DEF p, r
<1>4. PageInv(t, page[t])'
  <2>1. Phase(page[t])'
    BY <1>1, <1>2, <1>f DEF PageInv, Phase, Up
  <2>2. Fence(t, page[t])'
    BY <1>1, <1>2, <1>f DEF PageInv, Fence, Phase, SharedType
  <2>3. Flight(t, page[t])'
    BY <1>1, <1>2, <1>f DEF PageInv, Flight, Phase, Up
  <2>4. Known(page[t])'
    BY <1>1, <1>2, <1>f DEF PageInv, Known
  <2>5. Picked(page[t])'
    BY <1>1, <1>2, <1>f DEF PageInv, Picked
  <2>6. Carries(t, page[t])'
    BY <1>1, <1>2, <1>f DEF PageInv, Carries, Up
  <2>7. Judged(page[t])'
    BY <1>1, <1>2, <1>f DEF PageInv, Judged
  <2> QED BY <2>1, <2>2, <2>3, <2>4, <2>5, <2>6, <2>7 DEF PageInv
<1>5. SharedType' /\ SameFence /\ KeepsForks
  BY <1>1, <1>2 DEF SharedType, SameFence, KeepsForks
<1>6. MirrorInv'
  <2>1. p.token <= lease.token /\ p.cache.rev <= durable.rev /\ p.cache.rev \in Nat /\ durable.rev \in Nat
    BY <1>1 DEF PageInv, Fence, Known, PageType, CacheType, SharedType, DurableType
  <2>2. ASSUME ~p.stale, t = lease.owner, p.token = lease.token,
               durable.rev > 0 => durable.by = t /\ durable.token = p.token
        PROVE  durable.val \subseteq p.game
    <3>1. CASE durable.rev = 0
      BY <1>1, <3>1 DEF SharedInv
    <3>2. CASE durable.rev # 0
      BY <1>1, <2>1, <2>2, <3>2 DEF PageInv, Carries
    <3> QED BY <3>1, <3>2
  <2> QED BY <1>1, <1>2, <2>1, <2>2 DEF MirrorInv, Continuing
<1>7. SharedInv'
  BY <1>1, <1>6 DEF SharedInv
<1>8. lease'.token >= lease.token
  BY <1>1 DEF SharedType, LeaseType
<1> QED BY <1>1, <1>3, <1>4, <1>5, <1>7, <1>8, OneMoves

\* A page shown again plays on.
LEMMA ReturnKeeps ==
  ASSUME IInv, NEW t \in Tabs, Return(t)
  PROVE  IInv'
<1> DEFINE p == page[t]
           r == [p EXCEPT !.away = FALSE]
<1>1. /\ p \in PageType /\ PageInv(t, p) /\ SharedType /\ SharedInv
      /\ UNCHANGED <<durable, lease, conflicts, mirror, now, saves>>
      /\ p.away
      /\ page' = [page EXCEPT ![t] = r]
  BY DEF Return, IInv, disk, counters
<1>3. r \in PageType /\ page'[t] = r
  <2>1. r \in PageType
    BY <1>1 DEF PageType
  <2> QED BY <2>1, <1>1 DEF IInv
<1>f. /\ page'[t].pc = p.pc /\ page'[t].goal = p.goal /\ page'[t].role = p.role
      /\ page'[t].token = p.token /\ page'[t].game = p.game /\ page'[t].cache = p.cache
      /\ page'[t].proof = p.proof /\ page'[t].queue = p.queue /\ page'[t].pick = p.pick
      /\ page'[t].stale = p.stale /\ page'[t].consent = p.consent /\ page'[t].snap = p.snap
      /\ page'[t].copy = p.copy /\ page'[t].base = p.base
  <2>1. p \in PageType /\ page'[t] = r
    BY <1>1, <1>3
  <2> QED BY <2>1 DEF PageType
<1> HIDE DEF p, r
<1>4. PageInv(t, page[t])'
  <2>1. Phase(page[t])'
    BY <1>1, <1>f DEF PageInv, Phase, Up
  <2>2. Fence(t, page[t])'
    BY <1>1, <1>f DEF PageInv, Fence, Phase, SharedType
  <2>3. Flight(t, page[t])'
    BY <1>1, <1>f DEF PageInv, Flight, Phase, Up
  <2>4. Known(page[t])'
    BY <1>1, <1>f DEF PageInv, Known, Phase, Up
  <2>5. Picked(page[t])'
    BY <1>1, <1>f DEF PageInv, Picked
  <2>6. Carries(t, page[t])'
    BY <1>1, <1>f DEF PageInv, Carries, Phase, Up
  <2>7. Judged(page[t])'
    BY <1>1, <1>f DEF PageInv, Judged
  <2> QED BY <2>1, <2>2, <2>3, <2>4, <2>5, <2>6, <2>7 DEF PageInv
<1>5. SharedType' /\ SameFence /\ KeepsForks
  BY <1>1 DEF SharedType, SameFence, KeepsForks
<1> QED BY <1>1, <1>3, <1>4, <1>5, OnlyPage

\* The queued save is written by the page that holds the lease, over its own base.
LEMMA QueueCommitsKeeps ==
  ASSUME IInv, NEW t \in Tabs, QueueCommits(t)
  PROVE  IInv'
<1> DEFINE p == page[t]
           written == [p.queue EXCEPT !.written = TRUE]
           r == [p EXCEPT !.queue = written]
<1>1. /\ p \in PageType /\ PageInv(t, p) /\ SharedType /\ SharedInv
      /\ UNCHANGED <<conflicts, mirror, now, saves>>
      /\ p.queue # None /\ ~p.queue.written /\ p.proof = None /\ p.role = "primary"
      /\ lease.owner = t /\ lease.token = p.token
      /\ durable.rev = p.queue.base.rev
      /\ durable' = [val |-> p.queue.val, rev |-> p.queue.base.rev + 1, by |-> t, token |-> lease.token]
      /\ lease' = Held(t)
      /\ page' = [page EXCEPT ![t] = r]
  BY DEF QueueCommits, IInv, Queued, Owns, BaseUnchanged, counters
<1>a. p.queue \in QueueType
  BY <1>1 DEF PageType
<1>b. written \in QueueType /\ written.val = p.queue.val /\ written.base = p.queue.base /\ written.written
  BY <1>a DEF QueueType
<1>c. durable.rev \in Nat /\ lease.token \in Nat
  BY <1>1 DEF SharedType, DurableType, LeaseType
<1>d. SameFence /\ lease' \in LeaseType /\ lease'.owner = t /\ lease'.token >= lease.token
  BY <1>1, <1>c, HeldFields DEF SameFence
<1>e. /\ durable' \in DurableType /\ durable'.rev = durable.rev + 1 /\ durable'.rev >= durable.rev
      /\ durable'.token = lease.token /\ durable'.val = p.queue.val
  BY <1>1, <1>a, <1>c DEF DurableType, QueueType
<1>2. /\ written \in QueueType /\ written.val = p.queue.val /\ written.base = p.queue.base /\ written.written
      /\ SameFence /\ lease' \in LeaseType /\ lease'.owner = t /\ lease'.token >= lease.token
      /\ durable' \in DurableType /\ durable'.rev = durable.rev + 1 /\ durable'.rev >= durable.rev
      /\ durable'.token <= lease.token /\ durable'.val = p.queue.val
      /\ durable.rev \in Nat /\ lease.token \in Nat /\ p.queue.val = p.game
  BY <1>1, <1>b, <1>c, <1>d, <1>e DEF PageInv, Known
<1> HIDE DEF written
<1>3. r \in PageType /\ page'[t] = r
  <2>1. r \in PageType
    BY <1>1, <1>2 DEF PageType
  <2> QED BY <2>1, <1>1 DEF IInv
<1>f. /\ page'[t].pc = p.pc /\ page'[t].goal = p.goal /\ page'[t].role = p.role
      /\ page'[t].token = p.token /\ page'[t].game = p.game /\ page'[t].cache = p.cache
      /\ page'[t].proof = p.proof /\ page'[t].queue = written /\ page'[t].pick = p.pick
      /\ page'[t].stale = p.stale /\ page'[t].consent = p.consent /\ page'[t].snap = p.snap
      /\ page'[t].copy = p.copy /\ page'[t].base = p.base
  <2>1. p \in PageType /\ page'[t] = r
    BY <1>1, <1>3
  <2> QED BY <2>1 DEF PageType
<1> HIDE DEF p, r
<1>4. PageInv(t, page[t])'
  <2>1. Phase(page[t])'
    BY <1>1, <1>2, <1>f DEF PageInv, Phase, Up
  <2>2. Fence(t, page[t])'
    BY <1>1, <1>2, <1>f DEF PageInv, Fence, SameFence, Phase
  <2>3. Flight(t, page[t])'
    BY <1>1, <1>2, <1>f DEF PageInv, Flight, Phase, Up
  <2>4. Known(page[t])'
    <3>1. p.queue # None /\ p.cache.rev \in Nat /\ p.queue.base.rev \in Nat
      BY <1>1 DEF PageType, CacheType, QueueType
    <3>2. Known(p)
      BY <1>1 DEF PageInv
    <3> QED BY <1>2, <1>f, <3>1, <3>2 DEF Known
  <2>5. Picked(page[t])'
    BY <1>1, <1>2, <1>f DEF PageInv, Picked
  <2>6. Carries(t, page[t])'
    BY <1>1, <1>2, <1>f DEF PageInv, Carries
  <2>7. Judged(page[t])'
    BY <1>1, <1>2, <1>f DEF PageInv, Judged
  <2> QED BY <2>1, <2>2, <2>3, <2>4, <2>5, <2>6, <2>7 DEF PageInv
<1>5. SharedType' /\ KeepsForks /\ SameFence
  BY <1>1, <1>2 DEF SharedType, KeepsForks, SameFence
<1>6. SharedInv'
  BY <1>1, <1>2, <1>5, SaveGrows
<1> QED BY <1>1, <1>2, <1>3, <1>4, <1>5, <1>6, OneMoves

\* A queued save whose base is gone becomes a conflict record and the page stops writing.
LEMMA QueueForksKeeps ==
  ASSUME IInv, NEW t \in Tabs, QueueForks(t)
  PROVE  IInv'
<1> DEFINE p == page[t]
           fork == [cand |-> p.queue.val, kept |-> durable.val, open |-> TRUE]
           r == [p EXCEPT !.queue = None, !.cache = Cached, !.role = "conflict", !.token = lease.token]
<1>1. /\ p \in PageType /\ PageInv(t, p) /\ SharedType /\ SharedInv
      /\ UNCHANGED <<durable, mirror, now, saves>>
      /\ p.queue # None /\ p.proof = None
      /\ conflicts' = Append(conflicts, fork)
      /\ lease' = IF lease.owner = t /\ lease.token = p.token THEN Held(t) ELSE lease
      /\ page' = [page EXCEPT ![t] = r]
  BY DEF QueueForks, IInv, Queued, Owns, counters
<1>a. p.queue \in QueueType
  BY <1>1 DEF PageType
<1>b. fork \in ForkType
  BY <1>1, <1>a DEF ForkType, QueueType, SharedType, DurableType
<1>c. lease.token \in Nat /\ lease.token <= lease.token /\ durable.rev <= durable.rev /\ Cached \in CacheType /\ Cached.rev = durable.rev
  BY <1>1 DEF Cached, CacheType, SharedType, DurableType, LeaseType
<1>d. lease' \in LeaseType /\ lease'.owner = lease.owner /\ lease'.token = lease.token
  <2>1. CASE lease.owner = t /\ lease.token = p.token
    BY <1>1, <2>1, HeldFields
  <2>2. CASE ~(lease.owner = t /\ lease.token = p.token)
    BY <1>1, <2>2 DEF SharedType
  <2> QED BY <2>1, <2>2
<1>2. /\ fork \in ForkType /\ lease' \in LeaseType /\ lease'.owner = lease.owner /\ lease'.token = lease.token
      /\ lease.token \in Nat /\ durable.rev <= durable.rev /\ lease.token <= lease.token
      /\ "conflict" \in Roles /\ Cached \in CacheType /\ Cached.rev = durable.rev /\ "conflict" # "primary"
  BY <1>b, <1>c, <1>d DEF Roles
<1> HIDE DEF fork
<1>3. r \in PageType /\ page'[t] = r
  <2>1. r \in PageType
    BY <1>1, <1>2 DEF PageType
  <2> QED BY <2>1, <1>1 DEF IInv
<1>f. /\ page'[t].pc = p.pc /\ page'[t].goal = p.goal /\ page'[t].role = "conflict"
      /\ page'[t].token = lease.token /\ page'[t].game = p.game /\ page'[t].cache = Cached
      /\ page'[t].proof = p.proof /\ page'[t].queue = None /\ page'[t].pick = p.pick
      /\ page'[t].stale = p.stale /\ page'[t].consent = p.consent /\ page'[t].snap = p.snap
      /\ page'[t].copy = p.copy /\ page'[t].base = p.base
  <2>1. p \in PageType /\ page'[t] = r
    BY <1>1, <1>3
  <2> QED BY <2>1 DEF PageType
<1> HIDE DEF p, r
<1>4. PageInv(t, page[t])'
  <2>1. Phase(page[t])'
    BY <1>1, <1>2, <1>f DEF PageInv, Phase, Up
  <2>2. Fence(t, page[t])'
    BY <1>1, <1>2, <1>f DEF PageInv, Fence, Phase
  <2>3. Flight(t, page[t])'
    BY <1>1, <1>2, <1>f DEF PageInv, Flight
  <2>4. Known(page[t])'
    BY <1>1, <1>2, <1>f DEF PageInv, Known, Phase, Up
  <2>5. Picked(page[t])'
    BY <1>1, <1>2, <1>f DEF PageInv, Picked, SharedType
  <2>6. Carries(t, page[t])'
    BY <1>1, <1>2, <1>f DEF PageInv, Carries, Phase, Up
  <2>7. Judged(page[t])'
    BY <1>1, <1>2, <1>f DEF PageInv, Judged
  <2> QED BY <2>1, <2>2, <2>3, <2>4, <2>5, <2>6, <2>7 DEF PageInv
<1>5. SharedType' /\ SameFence /\ KeepsForks
  BY <1>1, <1>2 DEF SharedType, SameFence, KeepsForks
<1> QED BY <1>1, <1>3, <1>4, <1>5, OnlyPage

\* A queued save that fails gives the cache back its base.
LEMMA QueueFailsKeeps ==
  ASSUME IInv, NEW t \in Tabs, QueueFails(t)
  PROVE  IInv'
<1> DEFINE p == page[t]
           r == [p EXCEPT !.queue = None, !.cache = p.queue.base]
<1>1. /\ p \in PageType /\ PageInv(t, p) /\ SharedType /\ SharedInv
      /\ UNCHANGED <<durable, lease, conflicts, mirror, now, saves>>
      /\ p.queue # None
      /\ page' = [page EXCEPT ![t] = r]
  BY DEF QueueFails, IInv, Queued, disk, ghosts
<1>2. p.queue \in QueueType /\ p.queue.base \in CacheType
  BY <1>1 DEF PageType, QueueType
<1>3. r \in PageType /\ page'[t] = r
  <2>1. r \in PageType
    BY <1>1, <1>2 DEF PageType
  <2> QED BY <2>1, <1>1 DEF IInv
<1>f. /\ page'[t].pc = p.pc /\ page'[t].goal = p.goal /\ page'[t].role = p.role
      /\ page'[t].token = p.token /\ page'[t].game = p.game /\ page'[t].cache = p.queue.base
      /\ page'[t].proof = p.proof /\ page'[t].queue = None /\ page'[t].pick = p.pick
      /\ page'[t].stale = p.stale /\ page'[t].consent = p.consent /\ page'[t].snap = p.snap
      /\ page'[t].copy = p.copy /\ page'[t].base = p.base
  <2>1. p \in PageType /\ page'[t] = r
    BY <1>1, <1>3
  <2> QED BY <2>1 DEF PageType
<1> HIDE DEF p, r
<1>4. PageInv(t, page[t])'
  <2>1. Phase(page[t])'
    BY <1>1, <1>2, <1>f DEF PageInv, Phase, Up
  <2>2. Fence(t, page[t])'
    BY <1>1, <1>2, <1>f DEF PageInv, Fence, Phase, SharedType
  <2>3. Flight(t, page[t])'
    BY <1>1, <1>2, <1>f DEF PageInv, Flight, Phase, Up
  <2>4. Known(page[t])'
    BY <1>1, <1>2, <1>f DEF PageInv, Known, Phase, Up
  <2>5. Picked(page[t])'
    BY <1>1, <1>2, <1>f DEF PageInv, Picked
  <2>6. Carries(t, page[t])'
    BY <1>1, <1>2, <1>f DEF PageInv, Carries, Phase, Up
  <2>7. Judged(page[t])'
    BY <1>1, <1>2, <1>f DEF PageInv, Judged
  <2> QED BY <2>1, <2>2, <2>3, <2>4, <2>5, <2>6, <2>7 DEF PageInv
<1>5. SharedType' /\ SameFence /\ KeepsForks
  BY <1>1 DEF SharedType, SameFence, KeepsForks
<1> QED BY <1>1, <1>3, <1>4, <1>5, OnlyPage

\* The read-back of a queued save leaves no cache ahead of the durable revision.
LEMMA QueueVerifiedKeeps ==
  ASSUME IInv, NEW t \in Tabs, QueueVerified(t)
  PROVE  IInv'
<1> DEFINE p == page[t]
           q == p.queue
           cache == IF durable.val = q.val THEN [rev |-> Larger(p.cache.rev, q.base.rev + 1), val |-> q.val]
                                           ELSE q.base
           r == [p EXCEPT !.queue = None, !.cache = cache]
<1>1. /\ p \in PageType /\ PageInv(t, p) /\ SharedType /\ SharedInv
      /\ UNCHANGED <<durable, lease, conflicts, mirror, now, saves>>
      /\ p.queue # None /\ p.queue.written
      /\ page' = [page EXCEPT ![t] = r]
  BY DEF QueueVerified, IInv, disk, counters
<1>a. q \in QueueType /\ p.cache \in CacheType /\ durable.rev \in Nat
  BY <1>1 DEF PageType, SharedType, DurableType
<1>b. /\ q.base \in CacheType /\ q.val \in Saves
      /\ q.base.rev \in Nat /\ p.cache.rev \in Nat /\ Larger(p.cache.rev, q.base.rev + 1) \in Nat
  BY <1>a DEF QueueType, CacheType, Larger
<1>c. q.base.rev < durable.rev /\ (p.cache.rev <= durable.rev \/ p.cache.rev = q.base.rev + 1)
  BY <1>1 DEF PageInv, Known
<1>d. Larger(p.cache.rev, q.base.rev + 1) <= durable.rev /\ q.base.rev <= durable.rev
  BY <1>a, <1>b, <1>c DEF Larger
<1>2. cache \in CacheType /\ cache.rev <= durable.rev
  BY <1>b, <1>d DEF CacheType
<1> HIDE DEF cache
<1>3. r \in PageType /\ page'[t] = r
  <2>1. r \in PageType
    BY <1>1, <1>2 DEF PageType
  <2> QED BY <2>1, <1>1 DEF IInv
<1>f. /\ page'[t].pc = p.pc /\ page'[t].goal = p.goal /\ page'[t].role = p.role
      /\ page'[t].token = p.token /\ page'[t].game = p.game /\ page'[t].cache = cache
      /\ page'[t].proof = p.proof /\ page'[t].queue = None /\ page'[t].pick = p.pick
      /\ page'[t].stale = p.stale /\ page'[t].consent = p.consent /\ page'[t].snap = p.snap
      /\ page'[t].copy = p.copy /\ page'[t].base = p.base
  <2>1. p \in PageType /\ page'[t] = r
    BY <1>1, <1>3
  <2> QED BY <2>1 DEF PageType
<1> HIDE DEF p, r
<1>4. PageInv(t, page[t])'
  <2>1. Phase(page[t])'
    BY <1>1, <1>2, <1>f DEF PageInv, Phase, Up
  <2>2. Fence(t, page[t])'
    BY <1>1, <1>2, <1>f DEF PageInv, Fence, Phase, SharedType
  <2>3. Flight(t, page[t])'
    BY <1>1, <1>2, <1>f DEF PageInv, Flight, Phase, Up
  <2>4. Known(page[t])'
    BY <1>1, <1>2, <1>f DEF PageInv, Known, Phase, Up
  <2>5. Picked(page[t])'
    BY <1>1, <1>2, <1>f DEF PageInv, Picked
  <2>6. Carries(t, page[t])'
    BY <1>1, <1>2, <1>f DEF PageInv, Carries, Phase, Up
  <2>7. Judged(page[t])'
    BY <1>1, <1>2, <1>f DEF PageInv, Judged
  <2> QED BY <2>1, <2>2, <2>3, <2>4, <2>5, <2>6, <2>7 DEF PageInv
<1>5. SharedType' /\ SameFence /\ KeepsForks
  BY <1>1 DEF SharedType, SameFence, KeepsForks
<1> QED BY <1>1, <1>3, <1>4, <1>5, OnlyPage


-----------------------------------------------------------------------------
(* Messages, the heartbeat and the end of a page *)

\* A message can take the primary role away and never gives it.
LEMMA RefreshKeeps ==
  ASSUME IInv, NEW t \in Tabs, Refresh(t)
  PROVE  IInv'
<1> DEFINE p == page[t]
           forked == \E c \in heard[t] : Open(c)
           foreign == lease.owner \notin {None, t} /\ lease.until > now /\ lease.token >= p.token
           role == IF forked THEN "conflict" ELSE IF foreign THEN "secondary" ELSE p.role
           token == IF forked \/ foreign THEN lease.token ELSE p.token
           r == [p EXCEPT !.cache = Cached, !.role = role, !.token = token]
<1>1. /\ p \in PageType /\ PageInv(t, p) /\ SharedType /\ SharedInv
      /\ UNCHANGED <<durable, lease, conflicts, mirror, now, saves>>
      /\ page' = [page EXCEPT ![t] = r]
  BY DEF Refresh, IInv, disk, counters
<1>a. durable.rev <= durable.rev /\ Cached \in CacheType /\ Cached.rev = durable.rev
  BY <1>1 DEF Cached, CacheType, SharedType, DurableType
<1>b. lease.token \in Nat /\ p.token \in Nat /\ p.token <= lease.token /\ p.role \in Roles
  BY <1>1 DEF SharedType, LeaseType, PageType, PageInv, Fence
<1>c. p.proof # None => p.proof.token \in Nat /\ p.proof.token <= lease.token
  BY <1>1 DEF PageInv, Flight, PageType, ProofType
<1>2. /\ role \in Roles /\ token \in Nat /\ token <= lease.token /\ p.token <= token
      /\ durable.rev <= durable.rev /\ Cached \in CacheType /\ Cached.rev = durable.rev
      /\ role = "primary" => p.role = "primary" /\ token = p.token
      /\ p.proof # None => p.proof.token \in Nat /\ p.proof.token <= lease.token
  BY <1>a, <1>b, <1>c DEF Roles
<1> HIDE DEF forked, foreign, role, token
<1>3. r \in PageType /\ page'[t] = r
  <2>1. r \in PageType
    BY <1>1, <1>2 DEF PageType
  <2> QED BY <2>1, <1>1 DEF IInv
<1>f. /\ page'[t].pc = p.pc /\ page'[t].goal = p.goal /\ page'[t].role = role
      /\ page'[t].token = token /\ page'[t].game = p.game /\ page'[t].cache = Cached
      /\ page'[t].proof = p.proof /\ page'[t].queue = p.queue /\ page'[t].pick = p.pick
      /\ page'[t].stale = p.stale /\ page'[t].consent = p.consent /\ page'[t].snap = p.snap
      /\ page'[t].copy = p.copy /\ page'[t].base = p.base
  <2>1. p \in PageType /\ page'[t] = r
    BY <1>1, <1>3
  <2> QED BY <2>1 DEF PageType
<1> HIDE DEF p, r
<1>4. PageInv(t, page[t])'
  <2>1. Phase(page[t])'
    BY <1>1, <1>2, <1>f DEF PageInv, Phase, Up
  <2>2. Fence(t, page[t])'
    BY <1>1, <1>2, <1>f DEF PageInv, Fence
  <2>3. Flight(t, page[t])'
    BY <1>1, <1>2, <1>f DEF PageInv, Flight
  <2>4. Known(page[t])'
    BY <1>1, <1>2, <1>f DEF PageInv, Known, Phase, Up
  <2>5. Picked(page[t])'
    BY <1>1, <1>2, <1>f DEF PageInv, Picked
  <2>6. Carries(t, page[t])'
    BY <1>1, <1>2, <1>f DEF PageInv, Carries, Up
  <2>7. Judged(page[t])'
    BY <1>1, <1>2, <1>f DEF PageInv, Judged
  <2> QED BY <2>1, <2>2, <2>3, <2>4, <2>5, <2>6, <2>7 DEF PageInv
<1>5. SharedType' /\ SameFence /\ KeepsForks
  BY <1>1 DEF SharedType, SameFence, KeepsForks
<1> QED BY <1>1, <1>3, <1>4, <1>5, OnlyPage

\* The heartbeat renews only the record that is still this page's, and steps down otherwise.
LEMMA HeartbeatKeeps ==
  ASSUME IInv, NEW t \in Tabs, Heartbeat(t)
  PROVE  IInv'
<1> DEFINE p == page[t]
<1>1. /\ p \in PageType /\ PageInv(t, p) /\ SharedType /\ SharedInv
      /\ UNCHANGED <<durable, conflicts, mirror, now, saves>>
      /\ page \in [Tabs -> PageType]
  BY DEF Heartbeat, IInv, counters
<1>2. CASE Owns(t)
  <2>1. lease' = Held(t) /\ page' = page
    BY <1>2 DEF Heartbeat
  <2>a. lease' \in LeaseType /\ SameFence
    BY <1>1, <1>2, <2>1, HeldFields DEF Owns, SameFence
  <2>2. SharedType' /\ SameFence /\ KeepsForks
    BY <1>1, <2>a DEF SharedType, KeepsForks
  <2>3. lease'.token >= lease.token
    BY <1>1, <2>2 DEF SharedType, SameFence, LeaseType
  <2>4. ASSUME NEW u \in Tabs PROVE PageInv(u, page[u])'
    BY <1>1, <2>1, <2>2, <2>3, Bystander
  <2>5. SharedInv'
    BY <1>1, <2>2, LeaseMoves
  <2> QED BY <1>1, <2>1, <2>2, <2>4, <2>5 DEF IInv
<1>3. CASE ~Owns(t)
  <2> DEFINE r == [p EXCEPT !.role = "secondary", !.token = lease.token]
  <2>1. lease' = lease /\ page' = [page EXCEPT ![t] = r]
    BY <1>3 DEF Heartbeat
  <2>2. /\ lease.token \in Nat /\ lease.token <= lease.token /\ p.token <= lease.token
        /\ p.token \in Nat /\ "secondary" \in Roles
        /\ p.proof # None => p.proof.token <= lease.token
    BY <1>1 DEF SharedType, LeaseType, PageType, ProofType, PageInv, Fence, Flight, Roles
  <2>3. r \in PageType
    BY <1>1, <2>2 DEF PageType
  <2>4. page'[t] = r
    BY <1>1, <2>1
  <2>5. PageInv(t, page[t])'
    BY <1>1, <2>1, <2>2, <2>4 DEF PageInv, Phase, Up, Fence, Flight, Known, Picked, Carries, Judged, PageType
  <2>6. SharedType' /\ SameFence /\ KeepsForks
    BY <1>1, <2>1 DEF SharedType, SameFence, KeepsForks
  <2> HIDE DEF r
  <2> QED BY <1>1, <2>1, <2>3, <2>5, <2>6, OnlyPage
<1> QED BY <1>2, <1>3

\* A closed page ends its lease and is new again.
LEMMA CloseKeeps ==
  ASSUME IInv, NEW t \in Tabs, Close(t)
  PROVE  IInv'
<1>1. /\ SharedType /\ UNCHANGED <<durable, conflicts, mirror, now, saves>>
      /\ lease' = [lease EXCEPT !.until = now] /\ page' = [page EXCEPT ![t] = Blank]
      /\ page \in [Tabs -> PageType]
  BY DEF Close, IInv, counters
<1>2. SharedType' /\ SameFence /\ KeepsForks
  BY <1>1 DEF SharedType, SameFence, KeepsForks, LeaseType
<1>3. page'[t] = Blank
  BY <1>1
<1>4. PageInv(t, page[t])'
  BY <1>2, <1>3, PageRestarts
<1> QED BY <1>1, <1>2, <1>4, BlankIsAPage, OnlyPage

\* A page that dies leaves its lease, its mirror and its committed saves.
LEMMA DieKeeps ==
  ASSUME IInv, NEW t \in Tabs, Die(t)
  PROVE  IInv'
<1>1. /\ SharedType /\ UNCHANGED <<durable, conflicts, mirror, now, saves>>
      /\ lease' = lease /\ page' = [page EXCEPT ![t] = Blank]
      /\ page \in [Tabs -> PageType]
  BY DEF Die, IInv, counters, disk
<1>2. SharedType' /\ SameFence /\ KeepsForks
  BY <1>1 DEF SharedType, SameFence, KeepsForks, LeaseType
<1>3. page'[t] = Blank
  BY <1>1
<1>4. PageInv(t, page[t])'
  BY <1>2, <1>3, PageRestarts
<1> QED BY <1>1, <1>2, <1>4, BlankIsAPage, OnlyPage


-----------------------------------------------------------------------------
(* Resolving a conflict *)

\* A resolution starts at a page whose game is idle or already old.
LEMMA ResolveKeeps ==
  ASSUME IInv, NEW t \in Tabs, NEW c \in DOMAIN conflicts, NEW choice \in Saves, Resolve(t, c, choice)
  PROVE  IInv'
<1> DEFINE p == page[t]
           pc == IF p.role = "primary" THEN "resWrite" ELSE "claim"
           r == [p EXCEPT !.goal = "resolve", !.pick = <<c, choice>>, !.pc = pc]
<1>1. /\ p \in PageType /\ PageInv(t, p) /\ SharedType /\ SharedInv
      /\ UNCHANGED <<durable, lease, conflicts, mirror, now, saves>>
      /\ p.role \in {"conflict", "primary"} /\ (p.role = "primary" => p.stale)
      /\ p.pc = "run"
      /\ c \in DOMAIN conflicts /\ choice \in {conflicts[c].cand, conflicts[c].kept}
      /\ page' = [page EXCEPT ![t] = r]
  BY DEF Resolve, IInv, disk, Open
<1>a. c \in Nat
  BY <1>1 DEF SharedType
<1>b. (pc = "claim" /\ p.role # "primary") \/ (pc = "resWrite" /\ p.stale)
  <2>1. CASE p.role = "primary"
    BY <1>1, <2>1
  <2>2. CASE p.role # "primary"
    BY <2>2
  <2> QED BY <2>1, <2>2
<1>2. /\ pc \in PageStates /\ <<c, choice>> \in Nat \X Saves
      /\ (pc = "claim" /\ p.role # "primary") \/ (pc = "resWrite" /\ p.stale)
  BY <1>a, <1>b DEF PageStates
<1> HIDE DEF pc
<1>3. r \in PageType /\ page'[t] = r
  <2>1. r \in PageType
    BY <1>1, <1>2 DEF PageType
  <2> QED BY <2>1, <1>1 DEF IInv
<1>f. /\ page'[t].pc = pc /\ page'[t].goal = "resolve" /\ page'[t].role = p.role
      /\ page'[t].token = p.token /\ page'[t].game = p.game /\ page'[t].cache = p.cache
      /\ page'[t].proof = p.proof /\ page'[t].queue = p.queue /\ page'[t].pick = <<c, choice>>
      /\ page'[t].stale = p.stale /\ page'[t].consent = p.consent /\ page'[t].snap = p.snap
      /\ page'[t].copy = p.copy /\ page'[t].base = p.base
  <2>1. p \in PageType /\ page'[t] = r
    BY <1>1, <1>3
  <2> QED BY <2>1 DEF PageType
<1> HIDE DEF p, r
<1>4. PageInv(t, page[t])'
  <2>1. Phase(page[t])'
    BY <1>1, <1>2, <1>f DEF PageInv, Phase, Up
  <2>2. Fence(t, page[t])'
    BY <1>1, <1>2, <1>f DEF PageInv, Fence
  <2>3. Flight(t, page[t])'
    BY <1>1, <1>2, <1>f DEF PageInv, Flight, Phase, Up
  <2>4. Known(page[t])'
    BY <1>1, <1>2, <1>f DEF PageInv, Known, Phase, Up
  <2>5. Picked(page[t])'
    BY <1>1, <1>2, <1>f DEF PageInv, Picked
  <2>6. Carries(t, page[t])'
    BY <1>1, <1>2, <1>f DEF PageInv, Carries, Phase, Up
  <2>7. Judged(page[t])'
    BY <1>1, <1>2, <1>f DEF PageInv, Judged
  <2> QED BY <2>1, <2>2, <2>3, <2>4, <2>5, <2>6, <2>7 DEF PageInv
<1>5. SharedType' /\ SameFence /\ KeepsForks
  BY <1>1 DEF SharedType, SameFence, KeepsForks
<1> QED BY <1>1, <1>3, <1>4, <1>5, OnlyPage

\* The choice is written under the page's own lease; the page's game stays old.
LEMMA ResWriteKeeps ==
  ASSUME IInv, NEW t \in Tabs, ResWrite(t)
  PROVE  IInv'
<1> DEFINE p == page[t]
           mine == durable.val = p.pick[2] /\ durable.by = t /\ durable.token = lease.token
           r == [p EXCEPT !.pc = "resClean", !.base = durable']
<1>1. /\ p \in PageType /\ PageInv(t, p) /\ SharedType /\ SharedInv
      /\ UNCHANGED <<conflicts, mirror, now, saves>>
      /\ p.pc = "resWrite" /\ lease.owner = t
      /\ lease' = Held(t)
      /\ durable' = IF mine THEN durable
                    ELSE [val |-> p.pick[2], rev |-> durable.rev + 1, by |-> t, token |-> lease.token]
      /\ page' = [page EXCEPT ![t] = r]
  BY DEF ResWrite, IInv, Selectable, Owns, counters
<1>a. /\ lease.owner = t /\ p.token <= lease.token /\ p.cache.rev \in Nat /\ durable.rev \in Nat
      /\ lease.token \in Nat /\ durable.token <= lease.token
      /\ p.stale
  BY <1>1 DEF PageInv, Phase, Fence, Known, PageType, CacheType, SharedType, DurableType, LeaseType, SharedInv
<1>b. SameFence /\ lease' \in LeaseType /\ lease'.owner = t /\ lease'.token >= lease.token
  BY <1>1, <1>a, HeldFields DEF SameFence
<1>c. p.pick[2] \in Saves /\ durable \in DurableType
  BY <1>1 DEF PageType, SharedType
<1>d. /\ durable' \in DurableType /\ durable'.rev >= durable.rev
      /\ durable' = durable \/ (durable'.rev = durable.rev + 1 /\ durable'.token <= lease.token)
  BY <1>1, <1>a, <1>c DEF DurableType
<1>e. p.proof # None => p.proof.token <= lease'.token
  BY <1>1, <1>b DEF PageInv, Flight, SameFence
<1>2. /\ lease.owner = t /\ SameFence /\ lease' \in LeaseType /\ lease'.owner = t /\ lease'.token >= lease.token
      /\ durable' \in DurableType /\ durable'.rev >= durable.rev
      /\ durable.rev \in Nat /\ durable'.rev \in Nat
      /\ durable' = durable \/ (durable'.rev = durable.rev + 1 /\ durable'.token <= lease.token)
      /\ "resClean" \in PageStates /\ p.stale /\ p.token <= lease'.token
      /\ p.proof # None => p.proof.token <= lease'.token
  BY <1>1, <1>a, <1>b, <1>d, <1>e DEF PageStates, SameFence, DurableType
<1> HIDE DEF mine
<1>3. r \in PageType /\ page'[t] = r
  <2>1. r \in PageType
    BY <1>1, <1>2 DEF PageType
  <2> QED BY <2>1, <1>1 DEF IInv
<1>f. /\ page'[t].pc = "resClean" /\ page'[t].goal = p.goal /\ page'[t].role = p.role
      /\ page'[t].token = p.token /\ page'[t].game = p.game /\ page'[t].cache = p.cache
      /\ page'[t].proof = p.proof /\ page'[t].queue = p.queue /\ page'[t].pick = p.pick
      /\ page'[t].stale = p.stale /\ page'[t].consent = p.consent /\ page'[t].snap = p.snap
  <2>1. p \in PageType /\ page'[t] = r
    BY <1>1, <1>3
  <2> QED BY <2>1 DEF PageType
<1> HIDE DEF p, r
<1>4. PageInv(t, page[t])'
  <2>1. Phase(page[t])'
    BY <1>1, <1>2, <1>f DEF PageInv, Phase, Up
  <2>2. Fence(t, page[t])'
    BY <1>1, <1>2, <1>f DEF PageInv, Fence
  <2>3. Flight(t, page[t])'
    BY <1>1, <1>2, <1>f DEF PageInv, Flight, Phase, Up
  <2>4. Known(page[t])'
    <3>1. p.cache.rev \in Nat /\ (p.queue # None => p.queue.base.rev \in Nat)
      BY <1>1 DEF PageType, CacheType, QueueType
    <3>2. Known(p)
      BY <1>1 DEF PageInv
    <3> QED BY <1>2, <1>f, <3>1, <3>2 DEF Known
  <2>5. Picked(page[t])'
    BY <1>1, <1>2, <1>f DEF PageInv, Picked
  <2>6. Carries(t, page[t])'
    BY <1>1, <1>2, <1>f DEF PageInv, Carries, Phase, Up
  <2>7. Judged(page[t])'
    BY <1>1, <1>2, <1>f DEF PageInv, Judged
  <2> QED BY <2>1, <2>2, <2>3, <2>4, <2>5, <2>6, <2>7 DEF PageInv
<1>5. SharedType' /\ KeepsForks
  BY <1>1, <1>2 DEF SharedType, KeepsForks
<1>6. SharedInv'
  <2>1. CASE durable' = durable
    BY <1>1, <1>2, <1>5, <2>1, LeaseMoves
  <2>2. CASE durable'.rev = durable.rev + 1 /\ durable'.token <= lease.token
    BY <1>1, <1>2, <1>5, <2>2, SaveGrows
  <2> QED BY <1>2, <2>1, <2>2
<1> QED BY <1>1, <1>2, <1>3, <1>4, <1>5, <1>6, OneMoves

\* A failed resolution leaves the page with its role and an old game, which it may not save.
LEMMA ResFailsKeeps ==
  ASSUME IInv, NEW t \in Tabs, ResFails(t)
  PROVE  IInv'
<1> DEFINE p == page[t]
           r == [Idle(p) EXCEPT !.pc = "run"]
<1>1. /\ p \in PageType /\ PageInv(t, p) /\ SharedType /\ SharedInv
      /\ UNCHANGED <<durable, lease, conflicts, mirror, now, saves>>
      /\ p.pc \in {"resWrite", "resClean"}
      /\ page' = [page EXCEPT ![t] = r]
  BY DEF ResFails, IInv, disk, counters
<1>2. p.stale /\ "run" \in PageStates
  BY <1>1 DEF PageInv, Phase, PageStates
<1>i. Idle(p) \in PageType /\ KeptIdle(p, Idle(p))
  BY <1>1, IdleFields
<1>3. r \in PageType /\ page'[t] = r
  <2>1. r \in PageType
    BY <1>1, <1>2, <1>i DEF PageType
  <2> QED BY <2>1, <1>1 DEF IInv
<1>f. /\ page'[t].pc = "run" /\ page'[t].goal = "boot" /\ page'[t].role = p.role
      /\ page'[t].token = p.token /\ page'[t].game = p.game /\ page'[t].cache = p.cache
      /\ page'[t].proof = p.proof /\ page'[t].queue = p.queue /\ page'[t].stale = p.stale
      /\ page'[t].consent = FALSE
  <2>1. p \in PageType /\ Idle(p) \in PageType /\ KeptIdle(p, Idle(p)) /\ page'[t] = r
    BY <1>1, <1>3, <1>i
  <2> QED BY <2>1 DEF PageType, KeptIdle
<1> HIDE DEF p, r
<1>4. PageInv(t, page[t])'
  <2>1. Phase(page[t])'
    BY <1>1, <1>2, <1>f DEF PageInv, Phase, Up
  <2>2. Fence(t, page[t])'
    BY <1>1, <1>2, <1>f DEF PageInv, Fence, Phase, SharedType
  <2>3. Flight(t, page[t])'
    BY <1>1, <1>2, <1>f DEF PageInv, Flight, Phase, Up
  <2>4. Known(page[t])'
    BY <1>1, <1>2, <1>f DEF PageInv, Known, Phase, Up
  <2>5. Picked(page[t])'
    BY <1>1, <1>2, <1>f DEF PageInv, Picked
  <2>6. Carries(t, page[t])'
    BY <1>1, <1>2, <1>f DEF PageInv, Carries, Phase, Up
  <2>7. Judged(page[t])'
    BY <1>1, <1>2, <1>f DEF PageInv, Judged
  <2> QED BY <2>1, <2>2, <2>3, <2>4, <2>5, <2>6, <2>7 DEF PageInv
<1>5. SharedType' /\ SameFence /\ KeepsForks
  BY <1>1 DEF SharedType, SameFence, KeepsForks
<1> QED BY <1>1, <1>3, <1>4, <1>5, OnlyPage

\* The clean-up closes the record and keeps both its copies in place.
LEMMA ResCleanKeeps ==
  ASSUME IInv, NEW t \in Tabs, ResClean(t)
  PROVE  IInv'
<1> DEFINE p == page[t]
           c == p.pick[1]
           closed == [conflicts[c] EXCEPT !.open = FALSE]
           r == [p EXCEPT !.pc = "release", !.role = "primary", !.token = lease.token, !.cache = Cached]
<1>1. /\ p \in PageType /\ PageInv(t, p) /\ SharedType /\ SharedInv
      /\ UNCHANGED <<durable, mirror, now, saves>>
      /\ p.pc = "resClean" /\ c \in DOMAIN conflicts
      /\ conflicts' = [conflicts EXCEPT ![c].open = FALSE]
      /\ lease' = Held(t) /\ lease.owner = t
      /\ page' = [page EXCEPT ![t] = r]
  BY DEF ResClean, IInv, Open, Owns, counters
<1>o. conflicts \in Seq(ForkType) /\ c \in 1..Len(conflicts) /\ conflicts[c] \in ForkType
  BY <1>1 DEF SharedType
<1>p. closed \in ForkType /\ closed.cand = conflicts[c].cand /\ closed.kept = conflicts[c].kept
  BY <1>o DEF ForkType
<1>q. conflicts' = [conflicts EXCEPT ![c] = closed]
  BY <1>1
<1>r. conflicts' \in Seq(ForkType) /\ DOMAIN conflicts' = DOMAIN conflicts
  <2> HIDE DEF closed, c
  <2> QED BY <1>o, <1>p, <1>q, ExceptSeq
<1>a. /\ conflicts' \in Seq(ForkType) /\ DOMAIN conflicts' = DOMAIN conflicts
      /\ \A d \in DOMAIN conflicts : conflicts'[d].cand = conflicts[d].cand /\ conflicts'[d].kept = conflicts[d].kept
  <2> HIDE DEF closed, c
  <2> QED BY <1>o, <1>p, <1>q, <1>r
<1>b. SameFence /\ lease' \in LeaseType
  BY <1>1, HeldFields DEF SameFence
<1>c. /\ lease.token \in Nat /\ lease.token <= lease.token /\ durable.rev <= durable.rev /\ Cached \in CacheType /\ Cached.rev = durable.rev
      /\ p.stale
  BY <1>1 DEF Cached, CacheType, SharedType, DurableType, LeaseType, PageInv, Phase
<1>2. /\ lease.token \in Nat /\ lease.token <= lease'.token /\ durable.rev <= durable.rev /\ Cached \in CacheType /\ Cached.rev = durable.rev
      /\ p.stale /\ SameFence /\ lease' \in LeaseType
      /\ "primary" \in Roles /\ "release" \in PageStates
      /\ conflicts' \in Seq(ForkType) /\ KeepsForks
  BY <1>1, <1>a, <1>b, <1>c DEF Roles, PageStates, SameFence, KeepsForks
<1> HIDE DEF closed
<1>3. r \in PageType /\ page'[t] = r
  <2>1. r \in PageType
    BY <1>1, <1>2 DEF PageType
  <2> QED BY <2>1, <1>1 DEF IInv
<1>f. /\ page'[t].pc = "release" /\ page'[t].goal = p.goal /\ page'[t].role = "primary"
      /\ page'[t].token = lease.token /\ page'[t].game = p.game /\ page'[t].cache = Cached
      /\ page'[t].proof = p.proof /\ page'[t].queue = p.queue /\ page'[t].pick = p.pick
      /\ page'[t].stale = p.stale /\ page'[t].consent = p.consent /\ page'[t].snap = p.snap
      /\ page'[t].copy = p.copy /\ page'[t].base = p.base
  <2>1. p \in PageType /\ page'[t] = r
    BY <1>1, <1>3
  <2> QED BY <2>1 DEF PageType
<1> HIDE DEF p, r
<1>4. PageInv(t, page[t])'
  <2>1. Phase(page[t])'
    BY <1>1, <1>2, <1>f DEF PageInv, Phase, Up
  <2>2. Fence(t, page[t])'
    BY <1>1, <1>2, <1>f DEF PageInv, Fence
  <2>3. Flight(t, page[t])'
    <3>1. /\ lease'.owner = lease.owner /\ lease'.token = lease.token /\ durable' = durable
          /\ Flight(t, p)
      BY <1>1, <1>2 DEF SameFence, PageInv
    <3> QED BY <1>2, <1>f, <3>1 DEF Flight
  <2>4. Known(page[t])'
    BY <1>1, <1>2, <1>f DEF PageInv, Known, Phase, Up
  <2>5. Picked(page[t])'
    BY <1>1, <1>2, <1>f DEF PageInv, Picked, KeepsForks, Phase
  <2>6. Carries(t, page[t])'
    BY <1>1, <1>2, <1>f DEF PageInv, Carries, Phase, Up
  <2>7. Judged(page[t])'
    BY <1>1, <1>2, <1>f DEF PageInv, Judged
  <2> QED BY <2>1, <2>2, <2>3, <2>4, <2>5, <2>6, <2>7 DEF PageInv
<1>5. SharedType' /\ SameFence /\ KeepsForks
  BY <1>1, <1>2 DEF SharedType
<1> QED BY <1>1, <1>3, <1>4, <1>5, OnlyPage

\* The page leaves: it writes no more.
LEMMA ReleaseKeeps ==
  ASSUME IInv, NEW t \in Tabs, Release(t)
  PROVE  IInv'
<1> DEFINE p == page[t]
           r == [Idle(p) EXCEPT !.pc = "leaving", !.role = "initializing"]
<1>1. /\ p \in PageType /\ PageInv(t, p) /\ SharedType /\ SharedInv
      /\ UNCHANGED <<durable, conflicts, mirror, now, saves>>
      /\ p.pc = "release"
      /\ lease' = IF Owns(t) THEN [lease EXCEPT !.until = now] ELSE lease
      /\ page' = [page EXCEPT ![t] = r]
  BY DEF Release, IInv, counters
<1>a. lease' \in LeaseType /\ lease'.owner = lease.owner /\ lease'.token = lease.token
  BY <1>1 DEF SharedType, LeaseType
<1>2. /\ lease' \in LeaseType /\ lease'.owner = lease.owner /\ lease'.token = lease.token
      /\ p.stale /\ "leaving" \in PageStates /\ "initializing" \in Roles
  BY <1>1, <1>a DEF PageInv, Phase, PageStates, Roles
<1>i. Idle(p) \in PageType /\ KeptIdle(p, Idle(p))
  BY <1>1, IdleFields
<1>3. r \in PageType /\ page'[t] = r
  <2>1. r \in PageType
    BY <1>1, <1>2, <1>i DEF PageType
  <2> QED BY <2>1, <1>1 DEF IInv
<1>f. /\ page'[t].pc = "leaving" /\ page'[t].goal = "boot" /\ page'[t].role = "initializing"
      /\ page'[t].token = p.token /\ page'[t].game = p.game /\ page'[t].cache = p.cache
      /\ page'[t].proof = p.proof /\ page'[t].queue = p.queue /\ page'[t].stale = p.stale
      /\ page'[t].consent = FALSE
  <2>1. p \in PageType /\ Idle(p) \in PageType /\ KeptIdle(p, Idle(p)) /\ page'[t] = r
    BY <1>1, <1>3, <1>i
  <2> QED BY <2>1 DEF PageType, KeptIdle
<1> HIDE DEF p, r
<1>4. PageInv(t, page[t])'
  <2>1. Phase(page[t])'
    BY <1>1, <1>2, <1>f DEF PageInv, Phase, Up
  <2>2. Fence(t, page[t])'
    BY <1>1, <1>2, <1>f DEF PageInv, Fence, Phase, SharedType
  <2>3. Flight(t, page[t])'
    BY <1>1, <1>2, <1>f DEF PageInv, Flight, Phase, Up
  <2>4. Known(page[t])'
    BY <1>1, <1>2, <1>f DEF PageInv, Known, Phase, Up
  <2>5. Picked(page[t])'
    BY <1>1, <1>2, <1>f DEF PageInv, Picked
  <2>6. Carries(t, page[t])'
    BY <1>1, <1>2, <1>f DEF PageInv, Carries, Phase, Up
  <2>7. Judged(page[t])'
    BY <1>1, <1>2, <1>f DEF PageInv, Judged
  <2> QED BY <2>1, <2>2, <2>3, <2>4, <2>5, <2>6, <2>7 DEF PageInv
<1>5. SharedType' /\ SameFence /\ KeepsForks
  BY <1>1, <1>2 DEF SharedType, SameFence, KeepsForks
<1> QED BY <1>1, <1>3, <1>4, <1>5, OnlyPage


-----------------------------------------------------------------------------
(* The end of a takeover, a starting page's mirror, the clock *)

\* The token of a takeover is new: no save was written and none is in flight under it.
LEMMA TakeDoneKeeps ==
  ASSUME IInv, NEW t \in Tabs, TakeDone(t)
  PROVE  IInv'
<1> DEFINE p == page[t]
           own == lease.owner = t /\ lease.token = p.snap.token
           i == Idle(p)
           r == IF own THEN [i EXCEPT !.pc = "run", !.role = "primary", !.cache = Cached,
                                      !.token = lease.token, !.stale = FALSE, !.consent = TRUE]
                ELSE [i EXCEPT !.pc = "run"]
<1>1. /\ p \in PageType /\ PageInv(t, p) /\ SharedType /\ SharedInv /\ p.pc = "take"
      /\ UNCHANGED <<durable, lease, conflicts, mirror, now, saves>>
      /\ page' = [page EXCEPT ![t] = r]
  BY DEF TakeDone, IInv, disk, counters
<1>2. i \in PageType /\ KeptIdle(p, i)
  BY <1>1, IdleFields
<1> HIDE DEF i
<1>3. /\ Cached \in CacheType /\ Cached.rev = durable.rev /\ durable.rev <= durable.rev
      /\ lease.token \in Nat /\ lease.token <= lease.token /\ durable.token \in Nat
      /\ "run" \in PageStates /\ "primary" \in Roles
  BY <1>1 DEF Cached, CacheType, SharedType, DurableType, LeaseType, PageStates, Roles
<1>4. r \in PageType
  <2>1. CASE own
    <3>1. r = [i EXCEPT !.pc = "run", !.role = "primary", !.cache = Cached,
                        !.token = lease.token, !.stale = FALSE, !.consent = TRUE]
      BY <2>1
    <3> HIDE DEF r
    <3> QED BY <1>2, <1>3, <3>1 DEF PageType
  <2>2. CASE ~own
    BY <1>2, <1>3, <2>2 DEF PageType
  <2> QED BY <2>1, <2>2
<1>5. page'[t] = r
  BY <1>1 DEF IInv
<1>6. PageInv(t, page[t])'
  <2>1. CASE own
    <3>1. p.proof # None => /\ p.proof \in ProofType /\ p.proof.token < lease.token
                            /\ p.proof.val \subseteq p.game
      BY <1>1, <2>1 DEF PageInv, Fence, Flight, PageType
    <3>2. durable.token < lease.token
      BY <1>1, <2>1 DEF PageInv, Fence
    <3>3. p.proof # None => p.proof.token <= lease.token /\ p.proof.token # lease.token
      BY <1>3, <3>1 DEF ProofType
    <3>4. /\ page'[t].pc = "run" /\ page'[t].role = "primary" /\ page'[t].token = lease.token
          /\ page'[t].cache = Cached /\ ~page'[t].stale /\ page'[t].consent /\ page'[t].goal = "boot"
          /\ page'[t].proof = p.proof /\ page'[t].queue = p.queue /\ page'[t].game = p.game
      BY <1>2, <1>5, <2>1 DEF PageType, KeptIdle
    <3>5. Phase(page[t])'
      BY <3>4 DEF Phase, Up
    <3>6. Fence(t, page[t])'
      BY <1>1, <1>3, <3>4 DEF Fence
    <3>7. Flight(t, page[t])'
      BY <1>1, <3>1, <3>3, <3>4 DEF Flight
    <3>8. Known(page[t])'
      BY <1>1, <1>3, <3>4 DEF Known, PageInv
    <3>9. Picked(page[t])' /\ Carries(t, page[t])' /\ Judged(page[t])'
      BY <1>1, <1>3, <3>2, <3>4 DEF Picked, Carries, Judged
    <3> QED BY <3>5, <3>6, <3>7, <3>8, <3>9 DEF PageInv
  <2>2. CASE ~own
    <3>1. r = [i EXCEPT !.pc = "run"] /\ p.role # "primary"
      BY <1>1, <2>2 DEF PageInv, Phase
    <3>2. /\ page'[t].pc = "run" /\ page'[t].role = p.role /\ page'[t].token = p.token
          /\ page'[t].cache = p.cache /\ page'[t].goal = "boot" /\ page'[t].stale = p.stale
          /\ page'[t].proof = p.proof /\ page'[t].queue = p.queue /\ page'[t].game = p.game
      BY <1>2, <1>5, <3>1 DEF PageType, KeptIdle
    <3>3. Phase(page[t])' /\ Fence(t, page[t])'
      BY <1>1, <3>2 DEF PageInv, Phase, Up, Fence
    <3>4. Flight(t, page[t])'
      BY <1>1, <3>2 DEF PageInv, Flight
    <3>5. Known(page[t])'
      BY <1>1, <3>2 DEF PageInv, Known
    <3>6. Picked(page[t])' /\ Carries(t, page[t])' /\ Judged(page[t])'
      BY <3>1, <3>2 DEF Picked, Carries, Judged
    <3> QED BY <3>3, <3>4, <3>5, <3>6 DEF PageInv
  <2> QED BY <2>1, <2>2
<1> HIDE DEF r
<1>7. SharedType' /\ SameFence /\ KeepsForks
  BY <1>1 DEF SharedType, SameFence, KeepsForks
<1> QED BY <1>1, <1>4, <1>6, <1>7, OnlyPage

\* The mirror is applied over the save the page read, under the page's own fence.
LEMMA AppliesMirrorKeeps ==
  ASSUME "boot" \notin hit', IInv, NEW t \in Tabs, AppliesMirror(t)
  PROVE  IInv'
<1> DEFINE p == page[t]
           m == p.copy
           i == Idle(p)
           r == [i EXCEPT !.pc = "claim", !.forked = p.forked]
<1>1. /\ p \in PageType /\ PageInv(t, p) /\ SharedType /\ SharedInv /\ p.pc = "mirror"
      /\ m.token = lease.token /\ lease.owner = t
      /\ durable' = [val |-> m.val, rev |-> durable.rev + 1, by |-> t, token |-> m.token]
      /\ page' = [page EXCEPT ![t] = r]
      /\ mirror' = None /\ UNCHANGED <<lease, conflicts, now, saves>>
  BY DEF AppliesMirror, Continues, Undisturbed, IInv, counters
<1>2. i \in PageType /\ KeptIdle(p, i)
  BY <1>1, IdleFields
<1> HIDE DEF i
<1>3. /\ m \in MirrorType /\ durable \in DurableType /\ lease \in LeaseType
  BY <1>1 DEF SharedType, PageType, PageInv, Judged
<1>4. /\ durable' \in DurableType /\ durable'.rev = durable.rev + 1 /\ durable'.rev >= durable.rev
      /\ durable'.token = lease.token /\ lease.token <= lease.token
  BY <1>1, <1>3 DEF MirrorType, DurableType, LeaseType
<1>5. r \in PageType
  <2>1. p.forked \in BOOLEAN /\ "claim" \in PageStates
    BY <1>1 DEF PageType, PageStates
  <2> QED BY <1>2, <2>1 DEF PageType
<1>6. page'[t] = r
  BY <1>1 DEF IInv
<1>7. /\ page'[t].pc = "claim" /\ page'[t].goal = "boot" /\ page'[t].role = p.role
      /\ page'[t].token = p.token /\ page'[t].proof = p.proof /\ page'[t].queue = p.queue
      /\ page'[t].cache = p.cache
  BY <1>2, <1>6 DEF PageType, KeptIdle
<1>8. /\ p.role # "primary" /\ p.proof = None /\ p.queue = None /\ p.token <= lease.token
      /\ p.cache.rev <= durable.rev /\ p.cache.rev \in Nat /\ durable.rev \in Nat
  BY <1>1, <1>3 DEF PageInv, Phase, Up, Fence, Known, PageType, CacheType, DurableType
<1>9. p.cache.rev <= durable'.rev
  BY <1>4, <1>8
<1>10. PageInv(t, page[t])'
  BY <1>1, <1>7, <1>8, <1>9 DEF PageInv, Phase, Up, Fence, Flight, Known, Picked, Carries, Judged
<1>11. SharedType' /\ SameFence /\ KeepsForks
  BY <1>1, <1>4 DEF SharedType, SameFence, KeepsForks
<1>12. SharedInv'
  BY <1>4, <1>11, <1>1, SaveGrows
<1> HIDE DEF r
<1> QED BY <1>1, <1>4, <1>5, <1>10, <1>11, <1>12, OneMoves

\* Time passes.
LEMMA TickKeeps == ASSUME IInv, Tick PROVE IInv'
<1>1. UNCHANGED <<durable, lease, conflicts, mirror, page, saves>> /\ now' = now + 1
  BY DEF Tick, disk
<1>2. SharedType' /\ SameFence /\ KeepsForks /\ lease'.token >= lease.token
  BY <1>1 DEF IInv, SharedType, SameFence, KeepsForks, LeaseType
<1>3. SharedInv'
  BY <1>1, <1>2, LeaseMoves
<1>4. ASSUME NEW u \in Tabs PROVE PageInv(u, page[u])'
  BY <1>1, <1>2, Bystander
<1> QED BY <1>1, <1>2, <1>3, <1>4 DEF IInv


-----------------------------------------------------------------------------
(* The invariant, until a window is passed in which the fence breaks *)

\* No page has started, nothing is saved.
LEMMA InitIInv == Init => IInv
<1> SUFFICES ASSUME Init PROVE IInv
  OBVIOUS
<1>1. NoLease \in LeaseType /\ NoSave \in DurableType
  BY DEF NoLease, NoSave, LeaseType, DurableType, Saves
<1>2. SharedType
  BY <1>1 DEF Init, SharedType
<1>3. page \in [Tabs -> PageType]
  BY BlankIsAPage DEF Init
<1>4. SharedInv
  BY DEF Init, SharedInv, MirrorInv, NoSave, NoLease
<1>5. \A t \in Tabs : PageInv(t, page[t])
  BY <1>2, FreshPage DEF Init
<1> QED BY <1>2, <1>3, <1>4, <1>5 DEF IInv

\* Every step of a page, and of the clock, keeps the invariant.
LEMMA NextKeeps == Fenced' /\ IInv /\ [Next]_vars => IInv'
<1> SUFFICES ASSUME Fenced', IInv, [Next]_vars PROVE IInv'
  OBVIOUS
<1>0. "boot" \notin hit' /\ "tie" \notin hit'
  BY DEF Fenced
<1>1. ASSUME NEW t \in Tabs, Starts(t) PROVE IInv'
  BY <1>0, <1>1, StartKeeps, AppliesMirrorKeeps, SetsMirrorAsideKeeps, ClaimReadKeeps, ClaimDeniedKeeps,
     ClaimRefusedKeeps, ClaimGrantedKeeps, ClaimDoneKeeps, LoadKeeps DEF Starts
<1>2. ASSUME NEW t \in Tabs, Takes(t) PROVE IInv'
  BY <1>2, TakeOverKeeps, TakeDoneKeeps DEF Takes
<1>3. ASSUME NEW t \in Tabs, Writes(t) PROVE IInv'
  BY <1>3, SaveKeeps, ProofCommitsKeeps, ProofFailsKeeps, ProofSettlesKeeps, HideSaveKeeps,
     ReturnKeeps, QueueCommitsKeeps, QueueForksKeeps, QueueFailsKeeps, QueueVerifiedKeeps DEF Writes
<1>4. ASSUME NEW t \in Tabs, Hears(t) PROVE IInv'
  BY <1>4, RefreshKeeps, HeartbeatKeeps, CloseKeeps, DieKeeps DEF Hears
<1>5. ASSUME NEW t \in Tabs, Resolves(t) PROVE IInv'
  BY <1>5, ResolveKeeps, ResWriteKeeps, ResFailsKeeps, ResCleanKeeps, ReleaseKeeps DEF Resolves
<1>6. CASE Tick
  BY <1>6, TickKeeps
<1>7. CASE UNCHANGED vars
  <2>1. UNCHANGED <<durable, lease, conflicts, mirror, page, now, saves>>
    BY <1>7 DEF vars, disk, counters
  <2>2. SharedType' /\ SameFence /\ KeepsForks /\ lease'.token >= lease.token
    BY <2>1 DEF IInv, SharedType, SameFence, KeepsForks, LeaseType
  <2>3. SharedInv'
    BY <2>1, <2>2, LeaseMoves
  <2>4. ASSUME NEW u \in Tabs PROVE PageInv(u, page[u])'
    BY <2>1, <2>2, Bystander
  <2> QED BY <2>1, <2>2, <2>3, <2>4 DEF IInv
<1> QED BY <1>1, <1>2, <1>3, <1>4, <1>5, <1>6, <1>7 DEF Next

\* The windows a page has passed through, and what was overwritten there, are kept.
LEMMA GhostsGrow == [Next]_vars => hit \subseteq hit' /\ overwritten \subseteq overwritten'
<1> SUFFICES ASSUME [Next]_vars PROVE hit \subseteq hit' /\ overwritten \subseteq overwritten'
  OBVIOUS
<1>1. ASSUME NEW t \in Tabs, Starts(t) PROVE hit \subseteq hit' /\ overwritten \subseteq overwritten'
  BY <1>1 DEF Starts, Start, AppliesMirror, SetsMirrorAside, ClaimRead, ClaimDenied, ClaimWrite,
              ClaimDone, Load, ghosts
<1>2. ASSUME NEW t \in Tabs, Takes(t) PROVE hit \subseteq hit' /\ overwritten \subseteq overwritten'
  BY <1>2 DEF Takes, TakeOver, TakeDone, ghosts
<1>3. ASSUME NEW t \in Tabs, Writes(t) PROVE hit \subseteq hit' /\ overwritten \subseteq overwritten'
  BY <1>3 DEF Writes, Save, ProofCommits, ProofFails, ProofSettles, HideSave, Return, QueueCommits,
              QueueForks, QueueFails, QueueVerified, Overwrites, ghosts
<1>4. ASSUME NEW t \in Tabs, Hears(t) PROVE hit \subseteq hit' /\ overwritten \subseteq overwritten'
  BY <1>4 DEF Hears, Refresh, Heartbeat, Close, Die, ghosts
<1>5. ASSUME NEW t \in Tabs, Resolves(t) PROVE hit \subseteq hit' /\ overwritten \subseteq overwritten'
  BY <1>5 DEF Resolves, Resolve, ResWrite, ResFails, ResClean, Release, ghosts
<1>6. CASE Tick \/ UNCHANGED vars
  BY <1>6 DEF Tick, vars, ghosts
<1> QED BY <1>1, <1>2, <1>3, <1>4, <1>5, <1>6 DEF Next

\* The invariant holds of every state that is reached without passing "boot" or "tie".
LEMMA InvariantHolds == Spec => [](Fenced => IInv)
<1>1. Init => (Fenced => IInv)
  BY InitIInv
<1>2. (Fenced => IInv) /\ [Next]_vars => (Fenced => IInv)'
  <2> SUFFICES ASSUME Fenced => IInv, [Next]_vars, Fenced' PROVE IInv'
    OBVIOUS
  <2>1. Fenced
    BY GhostsGrow DEF Fenced
  <2> QED BY <2>1, NextKeeps
<1> QED BY <1>1, <1>2, PTL DEF Spec

-----------------------------------------------------------------------------
(* The page that may write plays the line it would overwrite *)

\* A primary page that owns the lease has the primary save's progress in its own game,
\* unless the player asked for the takeover or is resolving a conflict; in every run
\* that passes neither the tie nor the starting page's window (the antecedent of
\* PrimaryCarriesLine), with the saves of a stale page inside.
THEOREM PrimaryCarries == Spec => []("tie" \notin hit => PrimaryCarriesLine)
<1>1. (Fenced => IInv) => ("tie" \notin hit => PrimaryCarriesLine)
  <2> SUFFICES ASSUME Fenced => IInv, "tie" \notin hit, "boot" \notin hit,
                      NEW t \in Tabs, page[t].role = "primary", Mounted(t), Owns(t),
                      ~page[t].stale, ~page[t].consent
               PROVE  durable.val \subseteq page[t].game
    BY DEF PrimaryCarriesLine
  <2>1. IInv
    BY DEF Fenced
  <2>2. Carries(t, page[t]) /\ Up(page[t])
    BY <2>1 DEF IInv, PageInv, Mounted, Up
  <2> QED BY <2>2 DEF Carries, Owns
<1> QED BY <1>1, InvariantHolds, PTL


-----------------------------------------------------------------------------
(* One line of progress *)

\* Membership in the set of copies still offered.
LEMMA AsideIs ==
  \A s : s \in Aside <=> \E c \in DOMAIN conflicts :
                           Open(c) /\ s \in {conflicts[c].cand, conflicts[c].kept}
  BY DEF Aside

\* Steps that write neither the save nor a conflict nor give anything up.
LEMMA LineStutters ==
  ASSUME UNCHANGED <<durable, conflicts, discarded>> PROVE UNCHANGED Line!lineVars
  BY DEF Line!lineVars, Aside, Open

\* A new record adds its two copies to those preserved aside.
LEMMA ForkIsFork ==
  ASSUME NEW s \in Saves, NEW k \in Saves, conflicts \in Seq(ForkType),
         conflicts' = Append(conflicts, [cand |-> s, kept |-> k, open |-> TRUE]),
         UNCHANGED <<durable, discarded>>
  PROVE  Line!Fork
<1> DEFINE f == [cand |-> s, kept |-> k, open |-> TRUE]
           n == Len(conflicts)
<1>1. /\ n \in Nat /\ DOMAIN conflicts = 1..n /\ DOMAIN conflicts' = 1..(n + 1)
      /\ conflicts'[n + 1] = f /\ \A c \in 1..n : conflicts'[c] = conflicts[c]
  OBVIOUS
<1>2. f.cand = s /\ f.kept = k /\ f.open
  OBVIOUS
<1> HIDE DEF f, n
<1>3. \A c : c \in 1..(n + 1) <=> c \in 1..n \/ c = n + 1
  BY <1>1
<1>4. \A c : Open(c)' <=> Open(c) \/ c = n + 1
  BY <1>1, <1>2, <1>3 DEF Open
<1>5. \A x : x \in Aside' <=> x \in Aside \/ x \in {s, k}
  <2>1. \A x : x \in Aside' <=> \E c \in DOMAIN conflicts' :
                                  Open(c)' /\ x \in {conflicts'[c].cand, conflicts'[c].kept}
    BY DEF Aside
  <2>2. ASSUME NEW x, x \in Aside' PROVE x \in Aside \/ x \in {s, k}
    <3>1. PICK c \in DOMAIN conflicts' : Open(c)' /\ x \in {conflicts'[c].cand, conflicts'[c].kept}
      BY <2>1, <2>2
    <3>2. CASE c = n + 1
      BY <1>1, <1>2, <3>1, <3>2
    <3>3. CASE c # n + 1
      BY <1>1, <1>3, <1>4, <3>1, <3>3, AsideIs
    <3> QED BY <3>2, <3>3
  <2>3. ASSUME NEW x, x \in Aside PROVE x \in Aside'
    <3>1. PICK c \in DOMAIN conflicts : Open(c) /\ x \in {conflicts[c].cand, conflicts[c].kept}
      BY <2>3, AsideIs
    <3>2. c \in DOMAIN conflicts' /\ Open(c)' /\ x \in {conflicts'[c].cand, conflicts'[c].kept}
      BY <1>1, <1>3, <1>4, <3>1
    <3> QED BY <2>1, <3>2
  <2>4. ASSUME NEW x \in {s, k} PROVE x \in Aside'
    <3>1. /\ n + 1 \in DOMAIN conflicts' /\ conflicts'[n + 1].open
          /\ x \in {conflicts'[n + 1].cand, conflicts'[n + 1].kept}
      BY <1>1, <1>2, <1>3, <2>4
    <3> QED BY <2>1, <3>1 DEF Open
  <2> QED BY <2>2, <2>3, <2>4
<1>6. Aside' = Aside \cup {s, k}
  BY <1>5
<1> QED BY <1>6 DEF Line!Fork

\* The commits that are not steps of the line: of a stale page, or of its mirror.
StaleCommit(t) ==
  \/ AppliesMirror(t) /\ page[t].copy.stale
  \/ ProofCommits(t) /\ page[t].stale
  \/ QueueCommits(t) /\ page[t].stale

\* A mirror that is applied continues the line.
LEMMA AppliesMirrorExtends ==
  ASSUME "boot" \notin hit', IInv, NEW t \in Tabs, AppliesMirror(t), ~page[t].copy.stale
  PROVE  Line!Extend
<1> DEFINE p == page[t]
           m == p.copy
<1>1. /\ p.pc = "mirror" /\ Continues(t, m) /\ durable = p.base
      /\ durable'.val = m.val /\ UNCHANGED <<conflicts, discarded>>
  BY DEF AppliesMirror, Undisturbed
<1>2. p \in PageType /\ Judged(p)
  BY DEF IInv, PageInv
<1>3. m \in MirrorType
  BY <1>1, <1>2 DEF Judged, PageType
<1>4. durable.val \subseteq m.val
  BY <1>1, <1>2 DEF Judged, Continues, Continuing
<1>5. m.val \in Saves
  BY <1>3 DEF MirrorType
<1>6. UNCHANGED Aside
  BY <1>1 DEF Aside, Open
<1> QED BY <1>1, <1>4, <1>5, <1>6 DEF Line!Extend

\* A mirror that is set aside is a fork, or nothing.
LEMMA MirrorAsideForks ==
  ASSUME IInv, NEW t \in Tabs, SetsMirrorAside(t) PROVE [Line!LineNext]_(Line!lineVars)
<1> DEFINE m == page[t].copy
           forks == m.val # page[t].base.val
<1>1. UNCHANGED <<durable, discarded>> /\ page[t].pc = "mirror"
  BY DEF SetsMirrorAside, ghosts
<1>2. CASE forks
  <2>1. page[t] \in PageType /\ m \in MirrorType /\ conflicts \in Seq(ForkType)
    BY <1>1 DEF IInv, SharedType, PageInv, Judged, PageType
  <2>2. m.val \in Saves /\ page[t].base.val \in Saves
    BY <2>1 DEF MirrorType, PageType, DurableType
  <2>3. conflicts' = Append(conflicts, [cand |-> m.val, kept |-> page[t].base.val, open |-> TRUE])
    BY <1>2 DEF SetsMirrorAside
  <2>4. Line!Fork
    BY <1>1, <2>1, <2>2, <2>3, ForkIsFork
  <2> QED BY <2>4 DEF Line!LineNext
<1>3. CASE ~forks
  <2>1. conflicts' = conflicts
    BY <1>3 DEF SetsMirrorAside
  <2> QED BY <1>1, <2>1, LineStutters
<1> QED BY <1>2, <1>3

\* A save with proof continues the line, or replaces it with consent.
LEMMA ProofCommitsOnLine ==
  ASSUME IInv, NEW t \in Tabs, ProofCommits(t), ~page[t].stale PROVE Line!Extend \/ Line!Replace
<1> DEFINE p == page[t].proof
<1>1. /\ p # None /\ ~p.written /\ lease.owner = t /\ lease.token = p.token /\ durable.rev = p.rev
      /\ durable'.val = p.val /\ conflicts' = conflicts
      /\ discarded' = IF p.consent THEN discarded \cup (durable.val \ p.val) ELSE discarded
  BY DEF ProofCommits, ProofAdmitted, Sent
<1>2. p.val \in Saves
  BY <1>1 DEF IInv, PageType, ProofType
<1>3. durable.val \subseteq p.val \/ p.consent
  BY <1>1 DEF IInv, PageInv, Flight
<1>4. UNCHANGED Aside
  BY <1>1 DEF Aside, Open
<1>5. CASE p.consent
  BY <1>1, <1>2, <1>4, <1>5 DEF Line!Replace
<1>6. CASE ~p.consent
  BY <1>1, <1>2, <1>3, <1>4, <1>6 DEF Line!Extend
<1> QED BY <1>5, <1>6

\* So does a queued save.
LEMMA QueueCommitsOnLine ==
  ASSUME IInv, NEW t \in Tabs, QueueCommits(t), ~page[t].stale PROVE Line!Extend \/ Line!Replace
<1> DEFINE p == page[t]
           q == p.queue
<1>1. /\ q # None /\ p.role = "primary" /\ lease.owner = t /\ lease.token = p.token
      /\ durable'.val = q.val /\ conflicts' = conflicts
      /\ discarded' = IF p.consent THEN discarded \cup (durable.val \ q.val) ELSE discarded
  BY DEF QueueCommits, BaseUnchanged, Owns, Queued
<1>2. q \in QueueType /\ PageInv(t, p)
  BY <1>1 DEF IInv, PageType
<1>3. q.val \in Saves /\ q.val = p.game
  BY <1>1, <1>2 DEF QueueType, PageInv, Known
<1>4. durable.val \subseteq p.game \/ p.consent
  <2>1. Up(p)
    BY <1>1, <1>2 DEF PageInv, Phase
  <2> QED BY <1>1, <1>2, <2>1 DEF PageInv, Carries
<1>5. UNCHANGED Aside
  BY <1>1 DEF Aside, Open
<1>6. CASE p.consent
  BY <1>1, <1>3, <1>5, <1>6 DEF Line!Replace
<1>7. CASE ~p.consent
  BY <1>1, <1>3, <1>4, <1>5, <1>7 DEF Line!Extend
<1> QED BY <1>6, <1>7

\* What the commit of a stale page takes from the line is known to be overwritten, or was
\* given up by the player.
LEMMA StaleCommitKeeps ==
  ASSUME NEW t \in Tabs, StaleCommit(t)
  PROVE  Line!Kept \subseteq Line!Kept' \cup overwritten'
<1>1. conflicts' = conflicts
  BY DEF StaleCommit, AppliesMirror, ProofCommits, QueueCommits
<1>2. UNCHANGED Aside
  BY <1>1 DEF Aside, Open
<1>3. \E v : /\ durable'.val = v
             /\ durable.val \ v \subseteq discarded' \cup overwritten'
             /\ discarded \subseteq discarded'
  <2>1. CASE AppliesMirror(t) /\ page[t].copy.stale
    BY <2>1 DEF AppliesMirror
  <2>2. CASE ProofCommits(t) /\ page[t].stale
    BY <2>2 DEF ProofCommits, Overwrites
  <2>3. CASE QueueCommits(t) /\ page[t].stale
    BY <2>3 DEF QueueCommits, Overwrites
  <2> QED BY <2>1, <2>2, <2>3 DEF StaleCommit
<1> QED BY <1>2, <1>3 DEF Line!Kept

\* A queued save whose base is gone is preserved with the save it was compared to.
LEMMA QueueForksForks ==
  ASSUME IInv, NEW t \in Tabs, QueueForks(t) PROVE Line!Fork
<1>1. /\ page[t].queue # None
      /\ conflicts' = Append(conflicts, [cand |-> page[t].queue.val, kept |-> durable.val, open |-> TRUE])
      /\ UNCHANGED <<durable, discarded>>
  BY DEF QueueForks, Queued, ghosts
<1>2. page[t].queue.val \in Saves /\ durable.val \in Saves /\ conflicts \in Seq(ForkType)
  BY <1>1 DEF IInv, PageType, QueueType, SharedType, DurableType
<1> QED BY <1>1, <1>2, ForkIsFork

\* The choice written over the line is a preserved copy, and the line was preserved too.
LEMMA ResWriteChooses ==
  ASSUME IInv, NEW t \in Tabs, ResWrite(t) PROVE [Line!LineNext]_(Line!lineVars)
<1> DEFINE c == page[t].pick[1]
           choice == page[t].pick[2]
           mine == durable.val = choice /\ durable.by = t /\ durable.token = lease.token
<1>1. /\ page[t].pc = "resWrite" /\ Open(c) /\ durable.val \in {conflicts[c].kept, choice}
      /\ UNCHANGED <<conflicts, discarded>>
  BY DEF ResWrite, Selectable, ghosts
<1>2. c \in DOMAIN conflicts /\ choice \in {conflicts[c].cand, conflicts[c].kept}
  BY <1>1 DEF IInv, PageInv, Picked
<1>3. choice \in Aside /\ durable.val \in Aside
  BY <1>1, <1>2, AsideIs
<1>4. UNCHANGED Aside
  BY <1>1 DEF Aside, Open
<1>5. CASE mine
  <2>1. durable' = durable
    BY <1>5 DEF ResWrite
  <2> QED BY <1>1, <2>1, LineStutters
<1>6. CASE ~mine
  <2>1. durable'.val = choice
    BY <1>6 DEF ResWrite
  <2>2. Line!Choose
    BY <1>1, <1>3, <1>4, <2>1 DEF Line!Choose
  <2> QED BY <2>2 DEF Line!LineNext
<1> QED BY <1>5, <1>6

\* What the clean-up removes is on the line or given up by the player.
LEMMA ResCleanSettles ==
  ASSUME IInv, NEW t \in Tabs, ResClean(t) PROVE Line!Settle
<1> DEFINE c == page[t].pick[1]
           gone == conflicts[c].cand \cup conflicts[c].kept
<1>1. /\ c \in DOMAIN conflicts /\ conflicts' = [conflicts EXCEPT ![c].open = FALSE]
      /\ durable' = durable /\ discarded' = discarded \cup (gone \ durable.val)
  BY DEF ResClean, Open
<1>2. conflicts \in Seq(ForkType) /\ conflicts[c] \in ForkType
  BY <1>1 DEF IInv, SharedType
<1>3. /\ DOMAIN conflicts' = DOMAIN conflicts
      /\ \A d \in DOMAIN conflicts :
           /\ conflicts'[d].cand = conflicts[d].cand /\ conflicts'[d].kept = conflicts[d].kept
           /\ conflicts'[d].open => conflicts[d].open
           /\ d # c => conflicts'[d].open = conflicts[d].open
  <2> HIDE DEF c
  <2> QED BY <1>1, <1>2 DEF ForkType
<1>4. \A s : s \in Aside' <=> \E d \in DOMAIN conflicts' :
                                Open(d)' /\ s \in {conflicts'[d].cand, conflicts'[d].kept}
  BY DEF Aside
<1> HIDE DEF c
<1>5. ASSUME NEW s, s \in Aside' PROVE s \in Aside
  BY <1>3, <1>4, <1>5, AsideIs DEF Open
<1>6. ASSUME NEW s, s \in Aside PROVE s \in Aside' \/ s \subseteq gone
  <2>1. PICK d \in DOMAIN conflicts : Open(d) /\ s \in {conflicts[d].cand, conflicts[d].kept}
    BY <1>6, AsideIs
  <2>2. CASE d = c
    BY <2>1, <2>2
  <2>3. CASE d # c
    BY <1>3, <1>4, <2>1, <2>3 DEF Open
  <2> QED BY <2>2, <2>3
<1>7. (UNION Aside) \subseteq (UNION Aside') \cup gone
  BY <1>6
<1>8. durable.val \cup (UNION Aside) \cup discarded \subseteq durable'.val \cup (UNION Aside') \cup discarded'
  BY <1>1, <1>7
<1>9. Aside' \subseteq Aside
  BY <1>5
<1> QED BY <1>1, <1>8, <1>9 DEF Line!Settle, Line!Kept

\* Every step of the store is a step of the line of progress, or leaves it alone, or is
\* the commit of a stale page.
LEMMA LineStep ==
  Fenced' /\ IInv /\ [Next]_vars =>
    [Line!LineNext]_(Line!lineVars) \/ \E t \in Tabs : StaleCommit(t)
<1> SUFFICES ASSUME Fenced', IInv, [Next]_vars, \A t \in Tabs : ~StaleCommit(t)
             PROVE  [Line!LineNext]_(Line!lineVars)
  OBVIOUS
<1>1. ASSUME NEW t \in Tabs, Starts(t) PROVE [Line!LineNext]_(Line!lineVars)
  <2>1. CASE AppliesMirror(t)
    <3>1. "boot" \notin hit' /\ ~page[t].copy.stale
      BY <2>1 DEF Fenced, StaleCommit
    <3> QED BY <2>1, <3>1, AppliesMirrorExtends DEF Line!LineNext
  <2>2. CASE SetsMirrorAside(t)
    BY <2>2, MirrorAsideForks
  <2>3. CASE ~AppliesMirror(t) /\ ~SetsMirrorAside(t)
    <3>1. UNCHANGED <<durable, conflicts, discarded>>
      BY <1>1, <2>3 DEF Starts, Start, ClaimRead, ClaimDenied, ClaimWrite, ClaimDone, Load, disk, ghosts
    <3> QED BY <3>1, LineStutters
  <2> QED BY <2>1, <2>2, <2>3
<1>2. ASSUME NEW t \in Tabs, Takes(t) PROVE [Line!LineNext]_(Line!lineVars)
  <2>1. UNCHANGED <<durable, conflicts, discarded>>
    BY <1>2 DEF Takes, TakeOver, TakeDone, disk, ghosts
  <2> QED BY <2>1, LineStutters
<1>3. ASSUME NEW t \in Tabs, Writes(t) PROVE [Line!LineNext]_(Line!lineVars)
  <2>1. CASE ProofCommits(t)
    BY <2>1, ProofCommitsOnLine DEF StaleCommit, Line!LineNext
  <2>2. CASE QueueCommits(t)
    BY <2>2, QueueCommitsOnLine DEF StaleCommit, Line!LineNext
  <2>3. CASE QueueForks(t)
    BY <2>3, QueueForksForks DEF Line!LineNext
  <2>4. CASE ~ProofCommits(t) /\ ~QueueCommits(t) /\ ~QueueForks(t)
    <3>1. UNCHANGED <<durable, conflicts, discarded>>
      BY <1>3, <2>4 DEF Writes, Save, ProofFails, ProofSettles, HideSave, Return, QueueFails,
                        QueueVerified, disk, ghosts
    <3> QED BY <3>1, LineStutters
  <2> QED BY <2>1, <2>2, <2>3, <2>4
<1>4. ASSUME NEW t \in Tabs, Hears(t) PROVE [Line!LineNext]_(Line!lineVars)
  <2>1. UNCHANGED <<durable, conflicts, discarded>>
    BY <1>4 DEF Hears, Refresh, Heartbeat, Close, Die, disk, ghosts
  <2> QED BY <2>1, LineStutters
<1>5. ASSUME NEW t \in Tabs, Resolves(t) PROVE [Line!LineNext]_(Line!lineVars)
  <2>1. CASE ResWrite(t)
    BY <2>1, ResWriteChooses
  <2>2. CASE ResClean(t)
    BY <2>2, ResCleanSettles DEF Line!LineNext
  <2>3. CASE ~ResWrite(t) /\ ~ResClean(t)
    <3>1. UNCHANGED <<durable, conflicts, discarded>>
      BY <1>5, <2>3 DEF Resolves, Resolve, ResFails, Release, disk, ghosts
    <3> QED BY <3>1, LineStutters
  <2> QED BY <2>1, <2>2, <2>3
<1>6. CASE Tick \/ UNCHANGED vars
  <2>1. UNCHANGED <<durable, conflicts, discarded>>
    BY <1>6 DEF Tick, vars, disk, ghosts
  <2> QED BY <2>1, LineStutters
<1> QED BY <1>1, <1>2, <1>3, <1>4, <1>5, <1>6 DEF Next

\* Nothing is saved at first.
LEMMA LineStarts == Init => Line!LineInit
<1> SUFFICES ASSUME Init PROVE Line!LineInit
  OBVIOUS
<1>1. conflicts = <<>> /\ durable.val = {} /\ discarded = {}
  BY DEF Init, NoSave
<1>2. Aside = {}
  BY <1>1 DEF Aside, Open
<1> QED BY <1>1, <1>2 DEF Line!LineInit

\* What holds until the first window: no stale page has a save to commit, and no mirror
\* is of one.
TamePage(p) ==
  /\ p.pc = "mirror" => ~p.copy.stale
  /\ p.stale \/ p.goal = "resolve" => p.proof = None /\ p.queue = None
Quiet == (mirror # None => ~mirror.stale) /\ \A t \in Tabs : TamePage(page[t])
Tame == hit = {} => Quiet

\* The page r is no further from Tame than p was.
Milder(p, r) ==
  /\ r.pc = "mirror" => p.pc = "mirror" /\ r.copy = p.copy
  /\ r.stale \/ r.goal = "resolve" => p.stale \/ p.goal = "resolve"
  /\ (p.proof = None => r.proof = None) /\ (p.queue = None => r.queue = None)

\* The page t moves that way, and no mirror is written.
Mildly(t) ==
  /\ Milder(page[t], page'[t]) /\ mirror' \in {mirror, None}
  /\ \A u \in Tabs \ {t} : page'[u] = page[u]

\* A page that reads no mirror, resolves nothing new and starts no save.
Gentle(p, r) ==
  /\ r.pc # "mirror" /\ r.proof \in {p.proof, None} /\ r.queue \in {p.queue, None}
  /\ r.stale => p.stale \/ p.goal = "resolve"
  /\ r.goal \in {p.goal, "boot"}

LEMMA GentleIsMild ==
  ASSUME NEW t \in Tabs, Gentle(page[t], page'[t]), mirror' \in {mirror, None},
         \A u \in Tabs \ {t} : page'[u] = page[u]
  PROVE  Mildly(t)
BY DEF Gentle, Mildly, Milder

\* So do the steps that end an operation,
LEMMA EndsMildly ==
  ASSUME page \in [Tabs -> PageType], NEW t \in Tabs,
         \/ AppliesMirror(t) \/ SetsMirrorAside(t) \/ ClaimDenied(t) \/ ClaimDone(t)
         \/ TakeDone(t) \/ ResFails(t) \/ Release(t)
  PROVE  Mildly(t)
<1> DEFINE p == page[t]
           i == Idle(p)
           r == page'[t]
<1>1. p \in PageType /\ i \in PageType /\ KeptIdle(p, i)
  BY IdleFields
<1>2. mirror' \in {mirror, None} /\ \A u \in Tabs \ {t} : page'[u] = page[u]
  BY DEF AppliesMirror, SetsMirrorAside, ClaimDenied, ClaimDone, TakeDone, ResFails, Release
<1>3. ASSUME r.pc # "mirror", r.proof = i.proof, r.queue = i.queue, r.goal = i.goal,
             r.stale => i.stale \/ p.goal = "resolve"
      PROVE  Gentle(p, r)
  BY <1>1, <1>3 DEF Gentle, KeptIdle
<1> SUFFICES Gentle(p, r)
  BY <1>2, GentleIsMild
<1> HIDE DEF i
<1>4. CASE AppliesMirror(t) \/ SetsMirrorAside(t)
  <2>1. \E forked : r = [i EXCEPT !.pc = "claim", !.forked = forked]
    BY <1>4 DEF AppliesMirror, SetsMirrorAside, i
  <2> HIDE DEF p, r
  <2>2. r.pc = "claim" /\ r.proof = i.proof /\ r.queue = i.queue /\ r.goal = i.goal /\ r.stale = i.stale
    BY <1>1, <2>1 DEF PageType
  <2> QED BY <1>3, <2>2
<1>5. CASE ClaimDenied(t)
  <2>1. \E pc \in {"load", "run"} : \E role, token :
          r = [i EXCEPT !.pc = pc, !.role = role, !.token = token]
    BY <1>5 DEF ClaimDenied, AfterClaim, i
  <2> HIDE DEF p, r
  <2>2. /\ r.pc \in {"load", "run"} /\ r.proof = i.proof /\ r.queue = i.queue
        /\ r.goal = i.goal /\ r.stale = i.stale
    BY <1>1, <2>1 DEF PageType
  <2> QED BY <1>3, <2>2
<1>6. CASE ClaimDone(t)
  <2> DEFINE resolves == p.goal = "resolve"
  <2>1. \E pc \in {"load", "resWrite"} : \E role, token, cache, pick :
          r = [i EXCEPT !.pc = pc, !.role = role, !.token = token, !.cache = cache,
                        !.pick = pick, !.stale = resolves]
    BY <1>6 DEF ClaimDone, AfterClaim, i
  <2> HIDE DEF resolves, p, r
  <2>2. /\ r.pc \in {"load", "resWrite"} /\ r.proof = i.proof /\ r.queue = i.queue
        /\ r.goal = i.goal /\ r.stale = resolves
    BY <1>1, <2>1 DEF PageType
  <2> QED BY <1>3, <2>2 DEF resolves
<1>7. CASE TakeDone(t)
  <2>1. \/ r = [i EXCEPT !.pc = "run"]
        \/ r = [i EXCEPT !.pc = "run", !.role = "primary", !.cache = Cached,
                         !.token = lease.token, !.stale = FALSE, !.consent = TRUE]
    BY <1>7 DEF TakeDone, i
  <2> HIDE DEF p, r
  <2>2. /\ r.pc = "run" /\ r.proof = i.proof /\ r.queue = i.queue /\ r.goal = i.goal
        /\ r.stale => i.stale
    BY <1>1, <2>1 DEF PageType
  <2> QED BY <1>3, <2>2
<1>8. CASE ResFails(t) \/ Release(t)
  <2>1. \/ r = [i EXCEPT !.pc = "run"]
        \/ r = [i EXCEPT !.pc = "leaving", !.role = "initializing"]
    BY <1>8 DEF ResFails, Release, i
  <2> HIDE DEF p, r
  <2>2. /\ r.pc \in {"run", "leaving"} /\ r.proof = i.proof /\ r.queue = i.queue
        /\ r.goal = i.goal /\ r.stale = i.stale
    BY <1>1, <2>1 DEF PageType
  <2> QED BY <1>3, <2>2
<1> QED BY <1>4, <1>5, <1>6, <1>7, <1>8

\* a claim at its write,
LEMMA ClaimWritesMildly ==
  ASSUME page \in [Tabs -> PageType], NEW t \in Tabs, ClaimWrite(t)
  PROVE  Mildly(t)
<1> DEFINE p == page[t]
           i == Idle(p)
           r == page'[t]
<1>1. p \in PageType /\ i \in PageType /\ KeptIdle(p, i)
  BY IdleFields
<1>2. mirror' = mirror /\ \A u \in Tabs \ {t} : page'[u] = page[u]
  BY DEF ClaimWrite
<1> HIDE DEF i
<1>3. \/ \E pc \in {"failed", "run"} : r = [i EXCEPT !.pc = pc]
      \/ r = [p EXCEPT !.pc = "claimed", !.snap = lease', !.at = 0]
  BY DEF ClaimWrite, i
<1>4. Gentle(p, r)
  <2> HIDE DEF p, r
  <2>1. CASE \E pc \in {"failed", "run"} : r = [i EXCEPT !.pc = pc]
    <3>1. /\ r.pc \in {"failed", "run"} /\ r.proof = i.proof /\ r.queue = i.queue
          /\ r.goal = i.goal /\ r.stale = i.stale
      BY <1>1, <2>1 DEF PageType
    <3> QED BY <1>1, <3>1 DEF Gentle, KeptIdle
  <2>2. CASE r = [p EXCEPT !.pc = "claimed", !.snap = lease', !.at = 0]
    <3>1. /\ r.pc = "claimed" /\ r.proof = p.proof /\ r.queue = p.queue
          /\ r.goal = p.goal /\ r.stale = p.stale
      BY <1>1, <2>2 DEF PageType
    <3> QED BY <3>1 DEF Gentle
  <2> QED BY <1>3, <2>1, <2>2
<1> QED BY <1>2, <1>4, GentleIsMild

\* the other steps that start no save,
LEMMA GoesOnMildly ==
  ASSUME page \in [Tabs -> PageType], NEW t \in Tabs,
         \/ ClaimRead(t) \/ Load(t) \/ TakeOver(t) \/ ProofCommits(t) \/ ProofFails(t)
         \/ ProofSettles(t) \/ Return(t) \/ QueueCommits(t) \/ QueueForks(t) \/ QueueFails(t)
         \/ QueueVerified(t) \/ Refresh(t) \/ ResWrite(t) \/ ResClean(t)
  PROVE  Mildly(t)
<1> DEFINE p == page[t]
<1>1. p \in PageType
  OBVIOUS
<1>2. CASE ClaimRead(t) \/ Load(t) \/ TakeOver(t)
  BY <1>1, <1>2 DEF ClaimRead, Load, TakeOver, disk, Mildly, Milder, PageType
<1>3. CASE Return(t)
  BY <1>1, <1>3 DEF Return, disk, Mildly, Milder, PageType
<1>4. CASE ResWrite(t)
  BY <1>1, <1>4 DEF ResWrite, Mildly, Milder, PageType
<1>5. CASE ResClean(t)
  BY <1>1, <1>5 DEF ResClean, Mildly, Milder, PageType
<1>6. CASE ProofCommits(t) \/ ProofFails(t)
  BY <1>1, <1>6 DEF ProofCommits, ProofFails, Sent, disk, Mildly, Milder, PageType
<1>7. CASE ProofSettles(t)
  BY <1>1, <1>7 DEF ProofSettles, disk, Mildly, Milder, PageType
<1>8. CASE QueueCommits(t)
  BY <1>1, <1>8 DEF QueueCommits, Queued, Mildly, Milder, PageType
<1>9. CASE QueueForks(t)
  <2>1. mirror' = mirror /\ \A u \in Tabs \ {t} : page'[u] = page[u]
    BY <1>9 DEF QueueForks
  <2>2. page'[t] = [p EXCEPT !.queue = None, !.cache = Cached, !.role = "conflict",
                             !.token = lease.token]
    BY <1>9 DEF QueueForks
  <2>3. /\ page'[t].pc = p.pc /\ page'[t].proof = p.proof /\ page'[t].queue = None
        /\ page'[t].goal = p.goal /\ page'[t].stale = p.stale /\ page'[t].copy = p.copy
    BY <1>1, <2>2 DEF PageType
  <2> QED BY <2>1, <2>3 DEF Mildly, Milder
<1>10. CASE QueueFails(t) \/ QueueVerified(t)
  BY <1>1, <1>10 DEF QueueFails, QueueVerified, Queued, disk, Mildly, Milder, PageType
<1>11. CASE Refresh(t)
  BY <1>1, <1>11 DEF Refresh, disk, Mildly, Milder, PageType
<1> QED BY <1>2, <1>3, <1>4, <1>5, <1>6, <1>7, <1>8, <1>9, <1>10, <1>11

\* and the end of a page.
LEMMA EndsPageMildly ==
  ASSUME page \in [Tabs -> PageType], NEW t \in Tabs, Heartbeat(t) \/ Close(t) \/ Die(t)
  PROVE  Mildly(t)
<1>1. CASE Heartbeat(t)
  BY <1>1 DEF Heartbeat, Mildly, Milder, PageType
<1>2. CASE Close(t) \/ Die(t)
  <2>1. page' = [page EXCEPT ![t] = Blank] /\ mirror' = mirror
    BY <1>2 DEF Close, Die, disk
  <2> QED BY <2>1 DEF Mildly, Milder, Blank
<1> QED BY <1>1, <1>2

\* A mild step keeps Quiet,
LEMMA MildKeeps ==
  ASSUME Quiet, NEW t \in Tabs, Mildly(t)
  PROVE  Quiet'
<1>1. mirror' # None => ~mirror'.stale
  BY DEF Quiet, Mildly
<1>2. ASSUME NEW u \in Tabs PROVE TamePage(page'[u])
  <2>1. CASE u = t
    <3>1. TamePage(page[t]) /\ Milder(page[t], page'[t])
      BY DEF Quiet, Mildly
    <3> QED BY <2>1, <3>1 DEF TamePage, Milder
  <2>2. CASE u # t
    BY <2>2 DEF Quiet, Mildly
  <2> QED BY <2>1, <2>2
<1> QED BY <1>1, <1>2 DEF Quiet

\* and so does one that leaves its page tame.
LEMMA TameStep ==
  ASSUME Quiet, NEW t \in Tabs, TamePage(page'[t]), mirror' = mirror \/ ~mirror'.stale,
         \A u \in Tabs \ {t} : page'[u] = page[u]
  PROVE  Quiet'
<1>1. mirror' # None => ~mirror'.stale
  BY DEF Quiet
<1>2. ASSUME NEW u \in Tabs PROVE TamePage(page'[u])
  BY DEF Quiet
<1> QED BY <1>1, <1>2 DEF Quiet

\* The three steps that could start a stale save, or read a stale mirror, keep it when
\* no window is passed.
LEMMA StartsTame ==
  ASSUME Quiet, page \in [Tabs -> PageType], NEW t \in Tabs, Phase(page[t]), Start(t)
  PROVE  Quiet'
<1>1. mirror' = mirror /\ \A u \in Tabs \ {t} : page'[u] = page[u]
  BY DEF Start
<1>2. page[t].proof = None /\ page[t].queue = None
  BY DEF Start, Phase, Up
<1>3. TamePage(page'[t])
  <2> DEFINE r == IF mirror = None THEN [page[t] EXCEPT !.pc = "claim", !.forked = AnyOpen]
                  ELSE [page[t] EXCEPT !.pc = "mirror", !.snap = lease, !.base = durable,
                                       !.copy = mirror, !.forked = AnyOpen]
  <2>1. page'[t] = r
    BY DEF Start
  <2>2. r.proof = None /\ r.queue = None /\ (r.pc = "mirror" => ~r.copy.stale)
    BY <1>2 DEF PageType, Quiet
  <2> QED BY <2>1, <2>2 DEF TamePage
<1> QED BY <1>1, <1>3, TameStep

LEMMA SavesTame ==
  ASSUME Quiet, page \in [Tabs -> PageType], NEW t \in Tabs, Phase(page[t]),
         Save(t) \/ HideSave(t), hit' = {}
  PROVE  Quiet'
<1> DEFINE p == page[t]
<1>1. ~p.stale /\ p.goal # "resolve" /\ p.pc # "mirror"
  <2>1. StaleSave(t) = {} /\ Mounted(t) /\ p.role = "primary"
    BY DEF Save, HideSave
  <2> QED BY <2>1 DEF StaleSave, Mounted, Phase
<1>2. (mirror' = mirror \/ ~mirror'.stale) /\ \A u \in Tabs \ {t} : page'[u] = page[u]
  BY <1>1 DEF Save, HideSave
<1>3. page'[t].stale = p.stale /\ page'[t].goal = p.goal /\ page'[t].pc = p.pc
  BY DEF Save, HideSave, PageType
<1>4. TamePage(page'[t])
  BY <1>1, <1>3 DEF TamePage
<1> QED BY <1>2, <1>4, TameStep

LEMMA ResolvesTame ==
  ASSUME Quiet, page \in [Tabs -> PageType], NEW t \in Tabs,
         NEW c \in DOMAIN conflicts, NEW choice \in Saves, Resolve(t, c, choice), hit' = {}
  PROVE  Quiet'
<1> DEFINE p == page[t]
<1>1. p.proof = None /\ p.queue = None /\ mirror' = mirror
      /\ \A u \in Tabs \ {t} : page'[u] = page[u]
  BY DEF Resolve
<1>2. /\ page'[t].proof = p.proof /\ page'[t].queue = p.queue
      /\ page'[t].pc \in {"resWrite", "claim"}
  BY DEF Resolve, PageType
<1>3. TamePage(page'[t])
  BY <1>1, <1>2 DEF TamePage
<1> QED BY <1>1, <1>3, TameStep

\* Only a window leads a page out of Tame.
LEMMA TameKept == (Fenced => IInv) /\ Tame /\ [Next]_vars => Tame'
<1> SUFFICES ASSUME Fenced => IInv, Tame, [Next]_vars, hit' = {} PROVE Quiet'
  BY DEF Tame
<1>1. hit = {}
  BY GhostsGrow
<1>2. /\ Quiet /\ page \in [Tabs -> PageType]
      /\ \A u \in Tabs : Phase(page[u])
  BY <1>1 DEF Tame, Fenced, IInv, PageInv
<1>3. CASE Tick \/ UNCHANGED vars
  <2>1. mirror' = mirror /\ page' = page
    BY <1>3 DEF Tick, vars
  <2> QED BY <1>2, <2>1 DEF Quiet
<1>4. ASSUME NEW t \in Tabs, Starts(t) PROVE Quiet'
  <2>1. CASE Start(t)
    BY <1>2, <2>1, StartsTame
  <2>2. CASE ~Start(t)
    BY <1>2, <1>4, <2>2, EndsMildly, ClaimWritesMildly, GoesOnMildly, MildKeeps DEF Starts
  <2> QED BY <2>1, <2>2
<1>5. ASSUME NEW t \in Tabs, Takes(t) PROVE Quiet'
  BY <1>2, <1>5, EndsMildly, GoesOnMildly, MildKeeps DEF Takes
<1>6. ASSUME NEW t \in Tabs, Writes(t) PROVE Quiet'
  <2>1. CASE Save(t) \/ HideSave(t)
    BY <1>2, <2>1, SavesTame
  <2>2. CASE ~(Save(t) \/ HideSave(t))
    BY <1>2, <1>6, <2>2, GoesOnMildly, MildKeeps DEF Writes
  <2> QED BY <2>1, <2>2
<1>7. ASSUME NEW t \in Tabs, Hears(t) PROVE Quiet'
  BY <1>2, <1>7, GoesOnMildly, EndsPageMildly, MildKeeps DEF Hears
<1>8. ASSUME NEW t \in Tabs, Resolves(t) PROVE Quiet'
  <2>1. CASE \E c \in DOMAIN conflicts, choice \in Saves : Resolve(t, c, choice)
    BY <1>2, <2>1, ResolvesTame
  <2>2. CASE ResWrite(t) \/ ResFails(t) \/ ResClean(t) \/ Release(t)
    BY <1>2, <2>2, EndsMildly, GoesOnMildly, MildKeeps
  <2> QED BY <1>8, <2>1, <2>2 DEF Resolves
<1> QED BY <1>3, <1>4, <1>5, <1>6, <1>7, <1>8 DEF Next

\* No window, no stale save.
LEMMA TameHolds == Spec => []Tame
<1>1. Init => Tame
  BY DEF Init, Tame, Quiet, TamePage, Blank
<1> QED BY <1>1, TameKept, InvariantHolds, PTL DEF Spec

\* The whole store implements the promise of one line of progress, until a page passes
\* through a window: the antecedent of ImplementsSaveLine excepts all but the tie, the
\* theorem the tie too.
THEOREM StoreImplementsLine == Spec /\ []("tie" \notin hit) => ImplementsSaveLine
<1>1. (Fenced => IInv) /\ Tame /\ [Next]_vars /\ ("tie" \notin hit)'
      => [hit' \subseteq {"tie"} => Line!LineNext]_(Line!lineVars)
  <2> SUFFICES ASSUME Fenced => IInv, Tame, [Next]_vars, "tie" \notin hit', hit' \subseteq {"tie"}
               PROVE  [Line!LineNext]_(Line!lineVars)
    OBVIOUS
  <2>1. hit' = {} /\ hit = {}
    BY GhostsGrow
  <2>2. Fenced' /\ IInv
    BY <2>1 DEF Fenced
  <2>3. ASSUME NEW t \in Tabs PROVE ~StaleCommit(t)
    BY <2>1 DEF Tame, Quiet, TamePage, StaleCommit, AppliesMirror, ProofCommits, Sent, QueueCommits, Queued
  <2> QED BY <2>2, <2>3, LineStep
<1> QED BY <1>1, InvariantHolds, TameHolds, LineStarts, PTL DEF Spec, ImplementsSaveLine

-----------------------------------------------------------------------------
(* No confirmed save is lost *)

\* Nothing that is on the line, preserved aside or given up leaves all three.
LEMMA LineKeeps == [Line!LineNext]_(Line!lineVars) => Line!Kept \subseteq Line!Kept'
<1>1. Line!Extend => Line!Kept \subseteq Line!Kept'
  BY DEF Line!Extend, Line!Kept
<1>2. Line!Fork => Line!Kept \subseteq Line!Kept'
  BY DEF Line!Fork, Line!Kept
<1>3. Line!Choose => Line!Kept \subseteq Line!Kept'
  BY DEF Line!Choose, Line!Kept
<1>4. Line!Settle => Line!Kept \subseteq Line!Kept'
  BY DEF Line!Settle
<1>5. Line!Replace => Line!Kept \subseteq Line!Kept'
  BY DEF Line!Replace, Line!Kept
<1>6. UNCHANGED Line!lineVars => Line!Kept \subseteq Line!Kept'
  BY DEF Line!lineVars, Line!Kept
<1> QED BY <1>1, <1>2, <1>3, <1>4, <1>5, <1>6 DEF Line!LineNext

\* A page is told a save is complete only when it reads it back as the primary save.
LEMMA AckedFromDisk == [Next]_vars => acked' \subseteq acked \cup durable.val
<1> SUFFICES ASSUME [Next]_vars PROVE acked' \subseteq acked \cup durable.val
  OBVIOUS
<1>1. ASSUME NEW t \in Tabs, Starts(t) PROVE acked' = acked
  BY <1>1 DEF Starts, Start, AppliesMirror, SetsMirrorAside, ClaimRead, ClaimDenied, ClaimWrite,
              ClaimDone, Load, ghosts
<1>2. ASSUME NEW t \in Tabs, Takes(t) PROVE acked' = acked
  BY <1>2 DEF Takes, TakeOver, TakeDone, ghosts
<1>3. ASSUME NEW t \in Tabs, Writes(t) PROVE acked' \subseteq acked \cup durable.val
  BY <1>3 DEF Writes, Save, ProofCommits, ProofFails, ProofSettles, HideSave, Return, QueueCommits,
              QueueForks, QueueFails, QueueVerified, ghosts
<1>4. ASSUME NEW t \in Tabs, Hears(t) PROVE acked' = acked
  BY <1>4 DEF Hears, Refresh, Heartbeat, Close, Die, ghosts
<1>5. ASSUME NEW t \in Tabs, Resolves(t) PROVE acked' = acked
  BY <1>5 DEF Resolves, Resolve, ResWrite, ResFails, ResClean, Release, ghosts
<1>6. CASE Tick \/ UNCHANGED vars
  BY <1>6 DEF Tick, vars, ghosts
<1> QED BY <1>1, <1>2, <1>3, <1>4, <1>5, <1>6 DEF Next

\* A save the player was told is complete is on the line, in a copy still offered to the
\* player, was given up by the player's own choice, or was overwritten by a page that
\* resolves a conflict; in every run that passes neither the tie nor the starting page's
\* window.
THEOREM AckedSurvive == Spec => [](Fenced => AckedSavesSurvive)
<1>1. Init => (Fenced => AckedSavesSurvive)
  BY DEF Init, AckedSavesSurvive
<1>2. (Fenced => IInv) /\ (Fenced => AckedSavesSurvive) /\ [Next]_vars => (Fenced => AckedSavesSurvive)'
  <2> SUFFICES ASSUME Fenced => IInv, Fenced => AckedSavesSurvive, [Next]_vars, Fenced'
               PROVE  AckedSavesSurvive'
    OBVIOUS
  <2>1. /\ Fenced /\ overwritten \subseteq overwritten'
    BY GhostsGrow DEF Fenced
  <2>2. Line!Kept \subseteq Line!Kept' \cup overwritten'
    BY <2>1, LineStep, LineKeeps, StaleCommitKeeps
  <2>3. acked' \subseteq acked \cup durable.val
    BY AckedFromDisk
  <2>4. acked \subseteq Line!Kept \cup overwritten /\ durable.val \subseteq Line!Kept
    BY <2>1 DEF AckedSavesSurvive, Line!Kept
  <2>5. acked' \subseteq Line!Kept' \cup overwritten'
    BY <2>1, <2>2, <2>3, <2>4
  <2> QED BY <2>5 DEF AckedSavesSurvive, Line!Kept
<1> QED BY <1>1, <1>2, InvariantHolds, PTL DEF Spec

-----------------------------------------------------------------------------
(* The type invariant: what bounds the tokens *)

\* A page that spent a turn and has not written the lease for it.
Before == {"mirror", "claim", "claimWrite"}
Claiming == {t \in Tabs : page[t].pc \in Before}

FencedPage(b, p) ==
  /\ p.token <= b /\ p.snap.token <= b
  /\ (p.proof # None => p.proof.token <= b) /\ (p.copy # None => p.copy.token <= b)
FencedShared(b) ==
  durable.token <= b /\ lease.token <= b /\ (mirror # None => mirror.token <= b)

\* Every record has its type, and no token is above b.
Typed(b) ==
  /\ SharedType /\ FencedShared(b)
  /\ page \in [Tabs -> PageType] /\ \A t \in Tabs : FencedPage(b, page[t])

\* A token is raised once for a turn.
Budget == \E b \in Nat : Typed(b) /\ b + Cardinality(Claiming) <= turns

Bounded ==
  /\ turns \in 0..MaxTurns /\ Len(conflicts) <= MaxConflicts
  /\ heard \in [Tabs -> SUBSET (0..MaxConflicts)]
  /\ acked \in Saves /\ discarded \in Saves
  /\ overwritten \in Saves /\ hit \subseteq Windows

\* A starting page that judges a mirror has read it.
Copied == \A t \in Tabs : page[t].pc = "mirror" => page[t].copy # None

TypeInv == Budget /\ IsFiniteSet(Claiming) /\ Bounded /\ Copied

\* A step that spends no turn and raises no token.
Kept(b) == Typed(b)' /\ Claiming' \subseteq Claiming /\ turns' = turns

\* One page moves.
LEMMA PageMoves ==
  ASSUME NEW b \in Nat, NEW c \in Nat, b <= c, Typed(b), NEW t \in Tabs, NEW r \in PageType,
         FencedPage(c, r), page' = [page EXCEPT ![t] = r], SharedType', FencedShared(c)'
  PROVE  /\ Typed(c)'
         /\ Claiming' \subseteq Claiming \union {t}
         /\ r.pc \notin Before => Claiming' \subseteq Claiming \ {t}
<1>1. /\ page' \in [Tabs -> PageType] /\ page'[t] = r
      /\ \A u \in Tabs \ {t} : page'[u] = page[u]
  BY DEF Typed
<1>2. ASSUME NEW u \in Tabs PROVE FencedPage(c, page'[u])
  <2>1. CASE u = t
    BY <2>1, <1>1
  <2>2. CASE u # t
    <3>1. page[u] \in PageType /\ FencedPage(b, page[u])
      BY DEF Typed
    <3> QED BY <2>2, <3>1, <1>1 DEF FencedPage, PageType, LeaseType, ProofType, MirrorType
  <2> QED BY <2>1, <2>2
<1> QED BY <1>1, <1>2 DEF Typed, FencedPage, Claiming

\* One page moves, and nothing else that has a type but the clock and the number of saves.
LEMMA PageOnly ==
  ASSUME NEW b \in Nat, Typed(b), NEW t \in Tabs, NEW r \in PageType,
         FencedPage(b, r), page' = [page EXCEPT ![t] = r],
         UNCHANGED <<durable, lease, conflicts, mirror, turns>>, now' \in Nat, saves' \in Nat,
         r.pc \in Before => page[t].pc \in Before
  PROVE  Kept(b)
<1>1. SharedType' /\ FencedShared(b)'
  BY DEF Typed, SharedType, FencedShared
<1>2. /\ Typed(b)' /\ Claiming' \subseteq Claiming \union {t}
      /\ r.pc \notin Before => Claiming' \subseteq Claiming \ {t}
  <2>1. b <= b  OBVIOUS
  <2> QED BY <1>1, <2>1, PageMoves
<1>3. page[t].pc \in Before => t \in Claiming
  BY DEF Claiming
<1>4. Claiming' \subseteq Claiming
  <2>1. CASE r.pc \in Before
    BY <1>2, <1>3, <2>1
  <2>2. CASE r.pc \notin Before
    BY <1>2, <2>2
  <2> QED BY <2>1, <2>2
<1> QED BY <1>2, <1>4 DEF Kept

\* One page moves under the lease and the save as its step leaves them.
LEMMA PageWrites ==
  ASSUME NEW b \in Nat, Typed(b), NEW t \in Tabs, NEW r \in PageType,
         FencedPage(b, r), page' = [page EXCEPT ![t] = r], SharedType', FencedShared(b)',
         turns' = turns, r.pc \in Before => page[t].pc \in Before
  PROVE  Kept(b)
<1>2. /\ Typed(b)' /\ Claiming' \subseteq Claiming \union {t}
      /\ r.pc \notin Before => Claiming' \subseteq Claiming \ {t}
  <2>1. b <= b  OBVIOUS
  <2> QED BY <2>1, PageMoves
<1>3. page[t].pc \in Before => t \in Claiming
  BY DEF Claiming
<1>4. Claiming' \subseteq Claiming
  <2>1. CASE r.pc \in Before
    BY <1>2, <1>3, <2>1
  <2>2. CASE r.pc \notin Before
    BY <1>2, <2>2
  <2> QED BY <2>1, <2>2
<1> QED BY <1>2, <1>4 DEF Kept

\* What a page and the shared records have.
LEMMA TypedParts ==
  ASSUME NEW b \in Nat, Typed(b), NEW t \in Tabs
  PROVE  /\ page[t] \in PageType /\ FencedPage(b, page[t])
         /\ SharedType /\ FencedShared(b)
         /\ lease \in LeaseType /\ durable \in DurableType /\ Cached \in CacheType
         /\ lease.token \in Nat /\ lease.token <= b /\ durable.token <= b
         /\ durable.rev \in Nat /\ durable.val \in Saves
         /\ now \in Nat /\ saves \in Nat
BY DEF Typed, SharedType, FencedShared, LeaseType, DurableType, Cached, CacheType

\* Ending an operation forgets the lease it read.
LEMMA IdleFenced ==
  ASSUME NEW b \in Nat, NEW p \in PageType, FencedPage(b, p)
  PROVE  Idle(p) \in PageType /\ FencedPage(b, Idle(p)) /\ Idle(p).pc = p.pc
<1>1. Idle(p) \in PageType /\ KeptIdle(p, Idle(p))
  BY IdleFields
<1>2. Idle(p).snap = NoLease /\ Idle(p).copy = None
  BY DEF Idle, PageType
<1> QED BY <1>1, <1>2 DEF FencedPage, KeptIdle, NoLease

\* A renewal raises no token.
LEMMA HeldFenced ==
  ASSUME NEW b \in Nat, Typed(b), NEW t \in Tabs
  PROVE  Held(t) \in LeaseType /\ Held(t).token <= b
BY HeldFields DEF Typed, FencedShared

\* The names of what a page is doing.
LEMMA States ==
  /\ {"gone", "mirror", "claim", "claimWrite", "claimed", "load", "run", "take", "failed",
      "resWrite", "resClean", "release", "leaving"} \subseteq PageStates
  /\ {"initializing", "primary", "secondary", "conflict"} \subseteq Roles
BY DEF PageStates, Roles

-----------------------------------------------------------------------------
(* The type invariant: starting, claiming and taking over.  Here and below, one lemma for *)
(* each step: it keeps every type and, the claim and the takeover apart, raises no token. *)

LEMMA StartTyped ==
  ASSUME NEW b \in Nat, Typed(b), NEW t \in Tabs, Start(t)
  PROVE  /\ Typed(b)' /\ Claiming' \subseteq Claiming \union {t}
         /\ turns' = turns + 1 /\ turns < MaxTurns
<1> DEFINE p == page[t]
           r == IF mirror = None THEN [p EXCEPT !.pc = "claim", !.forked = AnyOpen]
                ELSE [p EXCEPT !.pc = "mirror", !.snap = lease, !.base = durable,
                                 !.copy = mirror, !.forked = AnyOpen]
<1>1. /\ UNCHANGED <<durable, lease, conflicts, mirror, now, saves>>
      /\ turns' = turns + 1 /\ turns < MaxTurns
      /\ page' = [page EXCEPT ![t] = r]
  BY DEF Start, disk
<1>2. p \in PageType /\ FencedPage(b, p) /\ lease \in LeaseType /\ lease.token <= b /\ durable \in DurableType
  BY TypedParts
<1>3. AnyOpen \in BOOLEAN /\ {"claim", "mirror"} \subseteq PageStates
  BY States DEF AnyOpen
<1>4. r \in PageType /\ FencedPage(b, r)
  <2>1. mirror \in MirrorType \cup {None} /\ (mirror # None => mirror.token <= b)
    BY DEF Typed, SharedType, FencedShared
  <2>2. CASE mirror = None
    BY <1>2, <1>3, <2>2 DEF PageType, FencedPage
  <2>3. CASE mirror # None
    BY <1>2, <1>3, <2>1, <2>3 DEF PageType, FencedPage
  <2> QED BY <2>2, <2>3
<1>5. SharedType' /\ FencedShared(b)'
  BY <1>1 DEF Typed, SharedType, FencedShared
<1> HIDE DEF r
<1>6. b <= b
  OBVIOUS
<1> QED BY <1>1, <1>4, <1>5, <1>6, PageMoves

LEMMA AppliesMirrorTyped ==
  ASSUME NEW b \in Nat, Typed(b), NEW t \in Tabs, AppliesMirror(t), page[t].copy # None
  PROVE  Kept(b)
<1> DEFINE p == page[t]
           m == p.copy
           r == [Idle(p) EXCEPT !.pc = "claim", !.forked = p.forked]
<1>1. /\ UNCHANGED <<lease, conflicts, now, saves, turns>>
      /\ p.pc = "mirror" /\ mirror' = None
      /\ durable' = [val |-> m.val, rev |-> p.base.rev + 1, by |-> t, token |-> m.token]
      /\ page' = [page EXCEPT ![t] = r]
  BY DEF AppliesMirror, counters
<1>2. p \in PageType /\ FencedPage(b, p) /\ SharedType /\ FencedShared(b)
  BY TypedParts
<1>3. Idle(p) \in PageType /\ FencedPage(b, Idle(p))
  BY <1>2, IdleFenced
<1>4. r \in PageType /\ FencedPage(b, r) /\ r.pc = "claim"
  BY <1>2, <1>3, States DEF PageType, FencedPage
<1>5. m \in MirrorType /\ p.base.rev + 1 \in Nat /\ m.token <= b
  BY <1>2 DEF FencedPage, PageType, DurableType
<1>6. durable' \in DurableType /\ durable'.token <= b
  BY <1>1, <1>5 DEF MirrorType, DurableType
<1>7. SharedType' /\ FencedShared(b)'
  BY <1>1, <1>2, <1>6 DEF SharedType, FencedShared
<1> HIDE DEF r
<1> QED BY <1>1, <1>4, <1>7, PageWrites DEF Before

LEMMA SetsMirrorAsideTyped ==
  ASSUME NEW b \in Nat, Typed(b), NEW t \in Tabs, SetsMirrorAside(t), page[t].copy # None
  PROVE  Kept(b)
<1> DEFINE p == page[t]
           forks == p.copy.val # p.base.val
           fork == [cand |-> p.copy.val, kept |-> p.base.val, open |-> TRUE]
           forked == p.forked \/ forks
           r == [Idle(p) EXCEPT !.pc = "claim", !.forked = forked]
<1>1. /\ UNCHANGED <<durable, lease, now, saves, turns>>
      /\ p.pc = "mirror" /\ mirror' = None
      /\ conflicts' = IF forks THEN Append(conflicts, fork) ELSE conflicts
      /\ page' = [page EXCEPT ![t] = r]
  BY DEF SetsMirrorAside, counters
<1>2. p \in PageType /\ FencedPage(b, p) /\ SharedType /\ FencedShared(b)
  BY TypedParts
<1>3. Idle(p) \in PageType /\ FencedPage(b, Idle(p))
  BY <1>2, IdleFenced
<1>4. forked \in BOOLEAN /\ (forks => fork \in ForkType)
  BY <1>2 DEF SharedType, MirrorType, ForkType, PageType, DurableType
<1> HIDE DEF forked
<1>5. r \in PageType /\ FencedPage(b, r) /\ r.pc = "claim"
  BY <1>3, <1>4, States DEF PageType, FencedPage
<1> HIDE DEF fork, forks, r
<1>6. conflicts' \in Seq(ForkType)
  BY <1>1, <1>2, <1>4 DEF SharedType
<1>7. SharedType' /\ FencedShared(b)'
  BY <1>1, <1>2, <1>6 DEF SharedType, FencedShared
<1> QED BY <1>1, <1>5, <1>7, PageWrites DEF Before

LEMMA ClaimReadTyped ==
  ASSUME NEW b \in Nat, Typed(b), NEW t \in Tabs, ClaimRead(t)
  PROVE  Kept(b)
<1> DEFINE p == page[t]
           r == [p EXCEPT !.pc = "claimWrite", !.snap = lease, !.at = now]
<1>1. /\ UNCHANGED <<durable, lease, conflicts, mirror, now, saves, turns>>
      /\ p.pc = "claim" /\ page' = [page EXCEPT ![t] = r]
  BY DEF ClaimRead, disk, counters
<1>2. /\ p \in PageType /\ FencedPage(b, p) /\ lease \in LeaseType /\ lease.token <= b
      /\ now \in Nat /\ saves \in Nat
  BY TypedParts
<1>3. r \in PageType /\ FencedPage(b, r)
  BY <1>2, States DEF PageType, FencedPage
<1> HIDE DEF r
<1> QED BY <1>1, <1>2, <1>3, PageOnly DEF Before

LEMMA ClaimDeniedTyped ==
  ASSUME NEW b \in Nat, Typed(b), NEW t \in Tabs, ClaimDenied(t)
  PROVE  Kept(b)
<1> DEFINE p == page[t]
           pc == AfterClaim(t, FALSE)
           role == RoleAfterClaim(t, "secondary")
           token == IF LockHeld(t) THEN p.token ELSE lease.token
           r == [Idle(p) EXCEPT !.pc = pc, !.role = role, !.token = token]
<1>1. /\ UNCHANGED <<durable, lease, conflicts, mirror, now, saves, turns>>
      /\ p.pc = "claim" /\ page' = [page EXCEPT ![t] = r]
  BY DEF ClaimDenied, disk, counters
<1>2. /\ p \in PageType /\ FencedPage(b, p) /\ lease.token \in Nat /\ lease.token <= b
      /\ now \in Nat /\ saves \in Nat
  BY TypedParts
<1>3. Idle(p) \in PageType /\ FencedPage(b, Idle(p))
  BY <1>2, IdleFenced
<1>4. /\ pc \in PageStates /\ role \in Roles /\ token \in Nat /\ token <= b
  BY <1>2, States DEF AfterClaim, RoleAfterClaim, PageType, FencedPage
<1> HIDE DEF pc, role, token
<1>5. r \in PageType /\ FencedPage(b, r)
  BY <1>3, <1>4 DEF PageType, FencedPage
<1> HIDE DEF r
<1> QED BY <1>1, <1>2, <1>5, PageOnly DEF Before

\* A claim that is granted is the turn's one rise of the token.
LEMMA ClaimWriteTyped ==
  ASSUME NEW b \in Nat, Typed(b), NEW t \in Tabs, ClaimWrite(t)
  PROVE  \/ Kept(b)
         \/ Typed(b + 1)' /\ t \in Claiming /\ Claiming' \subseteq Claiming \ {t} /\ turns' = turns
<1> DEFINE p == page[t]
           refused == lease.owner \notin {None, t} /\ lease.until > p.at
           token == IF p.snap.owner = t THEN p.snap.token ELSE p.snap.token + 1
           pc == IF p.goal = "boot" THEN "failed" ELSE "run"
           r == [Idle(p) EXCEPT !.pc = pc]
           g == [p EXCEPT !.pc = "claimed", !.snap = lease', !.at = 0]
<1>1. /\ UNCHANGED <<durable, conflicts, mirror, now, saves, turns>>
      /\ p.pc = "claimWrite"
  BY DEF ClaimWrite, counters
<1>2. /\ p \in PageType /\ FencedPage(b, p) /\ SharedType /\ FencedShared(b)
      /\ now \in Nat /\ saves \in Nat
  BY TypedParts
<1>3. CASE refused
  <2>1. lease' = lease /\ page' = [page EXCEPT ![t] = r]
    BY <1>3 DEF ClaimWrite
  <2>2. Idle(p) \in PageType /\ FencedPage(b, Idle(p))
    BY <1>2, IdleFenced
  <2>3. pc \in PageStates
    BY States
  <2> HIDE DEF pc
  <2>4. r \in PageType /\ FencedPage(b, r)
    BY <2>2, <2>3 DEF PageType, FencedPage
  <2> HIDE DEF r
  <2> QED BY <1>1, <1>2, <2>1, <2>4, PageOnly DEF Before
<1>4. CASE ~refused
  <2>1. /\ lease' = [owner |-> t, token |-> token, until |-> p.at + Duration]
        /\ page' = [page EXCEPT ![t] = g]
    BY <1>4 DEF ClaimWrite
  <2>2. token \in Nat /\ token <= b + 1 /\ p.at + Duration \in Nat
    BY <1>2, BoundsAreNat DEF PageType, LeaseType, FencedPage
  <2>3. lease' \in LeaseType /\ lease'.token <= b + 1
    BY <2>1, <2>2 DEF LeaseType
  <2>a. FencedPage(b + 1, p) /\ FencedShared(b)
    BY <1>2 DEF FencedPage, PageType, ProofType, LeaseType, MirrorType
  <2>4. g \in PageType /\ FencedPage(b + 1, g) /\ g.pc = "claimed"
    BY <1>2, <2>a, <2>3, States DEF PageType, FencedPage
  <2>5. SharedType' /\ FencedShared(b + 1)'
    BY <1>1, <1>2, <2>3 DEF SharedType, FencedShared, DurableType, MirrorType
  <2>6. t \in Claiming
    BY <1>1 DEF Claiming, Before
  <2> HIDE DEF g
  <2>7. g.pc \notin Before
    BY <2>4 DEF Before
  <2>b. b + 1 \in Nat /\ b <= b + 1
    OBVIOUS
  <2>8. Typed(b + 1)' /\ Claiming' \subseteq Claiming \ {t}
    BY <2>b, <2>1, <2>4, <2>5, <2>7, PageMoves
  <2> QED BY <1>1, <2>6, <2>8
<1> QED BY <1>3, <1>4

LEMMA ClaimDoneTyped ==
  ASSUME NEW b \in Nat, Typed(b), NEW t \in Tabs, ClaimDone(t)
  PROVE  Kept(b)
<1> DEFINE p == page[t]
           pc == AfterClaim(t, TRUE)
           role == RoleAfterClaim(t, "primary")
           stale == p.goal = "resolve"
           r == [Idle(p) EXCEPT !.pc = pc, !.role = role, !.token = p.snap.token, !.cache = Cached,
                              !.pick = p.pick, !.stale = stale]
<1>1. /\ UNCHANGED <<durable, lease, conflicts, mirror, now, saves, turns>>
      /\ page' = [page EXCEPT ![t] = r]
  BY DEF ClaimDone, disk, counters
<1>2. /\ p \in PageType /\ FencedPage(b, p) /\ Cached \in CacheType
      /\ now \in Nat /\ saves \in Nat
  BY TypedParts
<1>3. Idle(p) \in PageType /\ FencedPage(b, Idle(p))
  BY <1>2, IdleFenced
<1>4. /\ pc \in PageStates /\ pc \notin Before /\ role \in Roles /\ stale \in BOOLEAN
      /\ p.snap.token \in Nat /\ p.snap.token <= b /\ p.pick \in Nat \X Saves
  BY <1>2, States DEF AfterClaim, RoleAfterClaim, PageType, LeaseType, FencedPage, Before
<1> HIDE DEF pc, role, stale
<1>5. r \in PageType /\ FencedPage(b, r) /\ r.pc = pc
  BY <1>2, <1>3, <1>4, ZenonT(60) DEF PageType, FencedPage
<1> HIDE DEF r
<1> QED BY <1>1, <1>2, <1>4, <1>5, PageOnly

LEMMA LoadTyped ==
  ASSUME NEW b \in Nat, Typed(b), NEW t \in Tabs, Load(t)
  PROVE  Kept(b)
<1> DEFINE p == page[t]
           r == [p EXCEPT !.pc = "run", !.game = durable.val]
<1>1. /\ UNCHANGED <<durable, lease, conflicts, mirror, now, saves, turns>>
      /\ page' = [page EXCEPT ![t] = r]
  BY DEF Load, disk, counters
<1>2. /\ p \in PageType /\ FencedPage(b, p) /\ durable.val \in Saves
      /\ now \in Nat /\ saves \in Nat
  BY TypedParts
<1>3. r \in PageType /\ FencedPage(b, r) /\ r.pc = "run"
  BY <1>2, States DEF PageType, FencedPage
<1> HIDE DEF r
<1> QED BY <1>1, <1>2, <1>3, PageOnly DEF Before

\* So is a takeover.
LEMMA TakeOverTyped ==
  ASSUME NEW b \in Nat, Typed(b), NEW t \in Tabs, TakeOver(t)
  PROVE  Typed(b + 1)' /\ Claiming' \subseteq Claiming /\ turns' = turns + 1 /\ turns < MaxTurns
<1> DEFINE p == page[t]
           token == Larger(p.token, lease.token) + 1
           r == [p EXCEPT !.pc = "take", !.snap = lease']
<1>1. /\ UNCHANGED <<durable, conflicts, mirror, now, saves>>
      /\ turns' = turns + 1 /\ turns < MaxTurns
      /\ lease' = [owner |-> t, token |-> token, until |-> now + Duration]
      /\ page' = [page EXCEPT ![t] = r]
  BY DEF TakeOver
<1>2. /\ p \in PageType /\ FencedPage(b, p) /\ SharedType /\ FencedShared(b)
      /\ lease.token \in Nat /\ lease.token <= b /\ now \in Nat
  BY TypedParts
<1>3. token \in Nat /\ token <= b + 1 /\ now + Duration \in Nat
  BY <1>2, BoundsAreNat DEF PageType, FencedPage, Larger
<1>4. lease' \in LeaseType /\ lease'.token <= b + 1
  BY <1>1, <1>3 DEF LeaseType
<1>a. FencedPage(b + 1, p)
  BY <1>2 DEF FencedPage, PageType, ProofType, LeaseType, MirrorType
<1>5. r \in PageType /\ FencedPage(b + 1, r) /\ r.pc = "take"
  BY <1>2, <1>a, <1>4, States DEF PageType, FencedPage
<1>6. SharedType' /\ FencedShared(b + 1)'
  BY <1>1, <1>2, <1>4 DEF SharedType, FencedShared, DurableType, MirrorType
<1> HIDE DEF r
<1>7. r.pc \notin Before
  BY <1>5 DEF Before
<1>b. b + 1 \in Nat /\ b <= b + 1
  OBVIOUS
<1>8. Typed(b + 1)' /\ Claiming' \subseteq Claiming \ {t}
  BY <1>b, <1>1, <1>5, <1>6, <1>7, PageMoves
<1> QED BY <1>1, <1>8

LEMMA TakeDoneTyped ==
  ASSUME NEW b \in Nat, Typed(b), NEW t \in Tabs, TakeDone(t)
  PROVE  Kept(b)
<1> DEFINE p == page[t]
           own == lease.owner = t /\ lease.token = p.snap.token
           i == Idle(p)
           r == [i EXCEPT !.pc = "run", !.role = "primary", !.cache = Cached,
                          !.token = lease.token, !.stale = FALSE, !.consent = TRUE]
           q == [i EXCEPT !.pc = "run"]
<1>1. /\ UNCHANGED <<durable, lease, conflicts, mirror, now, saves, turns>>
      /\ page' = [page EXCEPT ![t] = IF own THEN r ELSE q]
  BY DEF TakeDone, disk, counters
<1>2. /\ p \in PageType /\ FencedPage(b, p) /\ Cached \in CacheType
      /\ lease.token \in Nat /\ lease.token <= b /\ now \in Nat /\ saves \in Nat
  BY TypedParts
<1>3. i \in PageType /\ FencedPage(b, i)
  BY <1>2, IdleFenced
<1> HIDE DEF i
<1>4. r \in PageType /\ FencedPage(b, r) /\ r.pc = "run"
  BY <1>2, <1>3, States, ZenonT(60) DEF PageType, FencedPage
<1>5. q \in PageType /\ FencedPage(b, q) /\ q.pc = "run"
  BY <1>2, <1>3, States DEF PageType, FencedPage
<1> HIDE DEF r, q, own
<1>6. CASE own
  BY <1>1, <1>2, <1>4, <1>6, PageOnly DEF Before
<1>7. CASE ~own
  BY <1>1, <1>2, <1>5, <1>7, PageOnly DEF Before
<1> QED BY <1>6, <1>7

-----------------------------------------------------------------------------
(* The type invariant: saving *)

LEMMA SaveTyped ==
  ASSUME NEW b \in Nat, Typed(b), NEW t \in Tabs, Save(t)
  PROVE  Kept(b)
<1> DEFINE p == page[t]
           val == p.game \cup {saves + 1}
           flight == [val |-> val, rev |-> p.cache.rev, token |-> p.token,
                      consent |-> p.consent, written |-> FALSE]
           r == [p EXCEPT !.game = val, !.proof = flight]
<1>1. /\ UNCHANGED <<durable, lease, conflicts, mirror, now, turns>>
      /\ saves < MaxSaves /\ saves' = saves + 1
      /\ page' = [page EXCEPT ![t] = r]
  BY DEF Save, disk
<1>2. p \in PageType /\ FencedPage(b, p) /\ now \in Nat /\ saves \in Nat
  BY TypedParts
<1>3. val \in Saves
  <2>1. p.game \in Saves
    BY <1>2 DEF PageType
  <2> QED BY <1>1, <1>2, <2>1, BoundsAreNat DEF Saves
<1>4. flight \in ProofType /\ flight.token <= b
  BY <1>2, <1>3 DEF PageType, ProofType, CacheType, FencedPage
<1> HIDE DEF flight, val
<1>5. r \in PageType /\ FencedPage(b, r) /\ r.pc = p.pc
  BY <1>2, <1>3, <1>4 DEF PageType, FencedPage
<1> HIDE DEF r
<1>6. saves' \in Nat /\ now' \in Nat
  BY <1>1, <1>2
<1> QED BY <1>1, <1>5, <1>6, PageOnly

LEMMA ProofCommitsTyped ==
  ASSUME NEW b \in Nat, Typed(b), NEW t \in Tabs, ProofCommits(t)
  PROVE  Kept(b)
<1> DEFINE p == page[t]
           written == [p.proof EXCEPT !.written = TRUE]
           r == [p EXCEPT !.proof = written]
<1>1. /\ UNCHANGED <<conflicts, mirror, now, saves, turns>>
      /\ p.proof # None
      /\ durable' = [val |-> p.proof.val, rev |-> p.proof.rev + 1, by |-> t, token |-> p.proof.token]
      /\ lease' = Held(t)
      /\ page' = [page EXCEPT ![t] = r]
  BY DEF ProofCommits, Sent, counters
<1>2. p \in PageType /\ FencedPage(b, p) /\ SharedType /\ FencedShared(b)
  BY TypedParts
<1>3. p.proof \in ProofType /\ p.proof.token <= b
  BY <1>1, <1>2 DEF PageType, FencedPage
<1>4. written \in ProofType /\ written.token = p.proof.token
  BY <1>3 DEF ProofType
<1> HIDE DEF written
<1>5. r \in PageType /\ FencedPage(b, r) /\ r.pc = p.pc
  BY <1>2, <1>3, <1>4 DEF PageType, FencedPage
<1>6. durable' \in DurableType /\ durable'.token <= b /\ lease' \in LeaseType /\ lease'.token <= b
  BY <1>1, <1>3, HeldFenced DEF ProofType, DurableType
<1>7. SharedType' /\ FencedShared(b)'
  BY <1>1, <1>2, <1>6 DEF SharedType, FencedShared
<1> HIDE DEF r
<1> QED BY <1>1, <1>5, <1>7, PageWrites

LEMMA ProofFailsTyped ==
  ASSUME NEW b \in Nat, Typed(b), NEW t \in Tabs, ProofFails(t)
  PROVE  Kept(b)
<1> DEFINE p == page[t]
           r == [p EXCEPT !.proof = None, !.cache = Cached]
<1>1. /\ UNCHANGED <<durable, lease, conflicts, mirror, now, saves, turns>>
      /\ page' = [page EXCEPT ![t] = r]
  BY DEF ProofFails, disk
<1>2. p \in PageType /\ FencedPage(b, p) /\ Cached \in CacheType /\ now \in Nat /\ saves \in Nat
  BY TypedParts
<1>3. r \in PageType /\ FencedPage(b, r) /\ r.pc = p.pc
  BY <1>2 DEF PageType, FencedPage
<1> HIDE DEF r
<1> QED BY <1>1, <1>2, <1>3, PageOnly

LEMMA ProofSettlesTyped ==
  ASSUME NEW b \in Nat, Typed(b), NEW t \in Tabs, ProofSettles(t)
  PROVE  Kept(b)
<1> DEFINE p == page[t]
           ok == durable.val = p.proof.val /\ durable.rev = p.proof.rev + 1
                 /\ lease.owner = t /\ lease.token = p.proof.token
           consent == p.consent /\ ~ok
           r == [p EXCEPT !.proof = None, !.cache = Cached, !.consent = consent]
<1>1. /\ UNCHANGED <<durable, lease, conflicts, now, saves, turns>>
      /\ mirror' \in {mirror, None}
      /\ page' = [page EXCEPT ![t] = r]
  BY DEF ProofSettles, disk, counters
<1>2. p \in PageType /\ FencedPage(b, p) /\ Cached \in CacheType /\ SharedType /\ FencedShared(b)
  BY TypedParts
<1>3. consent \in BOOLEAN
  BY <1>2 DEF PageType
<1> HIDE DEF consent
<1>4. r \in PageType /\ FencedPage(b, r) /\ r.pc = p.pc
  BY <1>2, <1>3 DEF PageType, FencedPage
<1>5. SharedType' /\ FencedShared(b)'
  BY <1>1, <1>2 DEF SharedType, FencedShared
<1> HIDE DEF r
<1> QED BY <1>1, <1>4, <1>5, PageWrites

LEMMA HideSaveTyped ==
  ASSUME NEW b \in Nat, Typed(b), NEW t \in Tabs, HideSave(t)
  PROVE  Kept(b)
<1> DEFINE p == page[t]
           val == p.game \cup {saves + 1}
           rev == p.cache.rev + 1
           cache == [rev |-> rev, val |-> val]
           queue == [val |-> val, base |-> p.cache, written |-> FALSE]
           r == [p EXCEPT !.away = TRUE, !.game = val, !.cache = cache, !.queue = queue]
<1>1. /\ UNCHANGED <<durable, lease, conflicts, now, turns>>
      /\ saves < MaxSaves /\ saves' = saves + 1
      /\ mirror' = [val |-> val, by |-> t, token |-> p.token, rev |-> rev,
                    stale |-> p.stale]
      /\ page' = [page EXCEPT ![t] = r]
  BY DEF HideSave, disk
<1>2. p \in PageType /\ FencedPage(b, p) /\ SharedType /\ FencedShared(b) /\ saves \in Nat
  BY TypedParts
<1>3. val \in Saves
  <2>1. p.game \in Saves
    BY <1>2 DEF PageType
  <2> QED BY <1>1, <1>2, <2>1, BoundsAreNat DEF Saves
<1>4. p.cache \in CacheType /\ rev \in Nat
  BY <1>2 DEF PageType, CacheType
<1>5. cache \in CacheType /\ queue \in QueueType
  BY <1>3, <1>4 DEF CacheType, QueueType
<1>6. mirror' \in MirrorType /\ mirror'.token <= b
  BY <1>1, <1>2, <1>3, <1>4 DEF MirrorType, PageType, FencedPage
<1> HIDE DEF val, rev, cache, queue
<1>7. r \in PageType /\ FencedPage(b, r) /\ r.pc = p.pc
  BY <1>2, <1>3, <1>5 DEF PageType, FencedPage
<1>8. SharedType' /\ FencedShared(b)'
  BY <1>1, <1>2, <1>6 DEF SharedType, FencedShared
<1> HIDE DEF r
<1> QED BY <1>1, <1>7, <1>8, PageWrites

LEMMA ReturnTyped ==
  ASSUME NEW b \in Nat, Typed(b), NEW t \in Tabs, Return(t)
  PROVE  Kept(b)
<1> DEFINE p == page[t]
           r == [p EXCEPT !.away = FALSE]
<1>1. /\ UNCHANGED <<durable, lease, conflicts, mirror, now, saves, turns>>
      /\ page' = [page EXCEPT ![t] = r]
  BY DEF Return, disk, counters
<1>2. p \in PageType /\ FencedPage(b, p) /\ now \in Nat /\ saves \in Nat
  BY TypedParts
<1>3. r \in PageType /\ FencedPage(b, r) /\ r.pc = p.pc
  BY <1>2 DEF PageType, FencedPage
<1> HIDE DEF r
<1> QED BY <1>1, <1>2, <1>3, PageOnly

LEMMA QueueCommitsTyped ==
  ASSUME NEW b \in Nat, Typed(b), NEW t \in Tabs, QueueCommits(t)
  PROVE  Kept(b)
<1> DEFINE p == page[t]
           written == [p.queue EXCEPT !.written = TRUE]
           r == [p EXCEPT !.queue = written]
<1>1. /\ UNCHANGED <<conflicts, mirror, now, saves, turns>>
      /\ p.queue # None
      /\ durable' = [val |-> p.queue.val, rev |-> p.queue.base.rev + 1, by |-> t, token |-> lease.token]
      /\ lease' = Held(t)
      /\ page' = [page EXCEPT ![t] = r]
  BY DEF QueueCommits, Queued, counters
<1>2. /\ p \in PageType /\ FencedPage(b, p) /\ SharedType /\ FencedShared(b)
      /\ lease.token \in Nat /\ lease.token <= b
  BY TypedParts
<1>3. p.queue \in QueueType
  BY <1>1, <1>2 DEF PageType
<1>4. written \in QueueType /\ p.queue.val \in Saves /\ p.queue.base.rev + 1 \in Nat
  <2>1. p.queue.base \in CacheType /\ p.queue.val \in Saves
    BY <1>3 DEF QueueType
  <2>2. p.queue.base.rev \in Nat
    BY <2>1 DEF CacheType
  <2>3. written \in QueueType
    BY <1>3 DEF QueueType
  <2> QED BY <2>1, <2>2, <2>3
<1> HIDE DEF written
<1>5. r \in PageType /\ FencedPage(b, r) /\ r.pc = p.pc
  BY <1>2, <1>4 DEF PageType, FencedPage
<1>6. durable' \in DurableType /\ durable'.token <= b /\ lease' \in LeaseType /\ lease'.token <= b
  BY <1>1, <1>2, <1>4, HeldFenced DEF DurableType
<1>7. SharedType' /\ FencedShared(b)'
  BY <1>1, <1>2, <1>6 DEF SharedType, FencedShared
<1> HIDE DEF r
<1> QED BY <1>1, <1>5, <1>7, PageWrites

LEMMA QueueForksTyped ==
  ASSUME NEW b \in Nat, Typed(b), NEW t \in Tabs, QueueForks(t)
  PROVE  Kept(b)
<1> DEFINE p == page[t]
           fork == [cand |-> p.queue.val, kept |-> durable.val, open |-> TRUE]
           r == [p EXCEPT !.queue = None, !.cache = Cached, !.role = "conflict", !.token = lease.token]
<1>1. /\ UNCHANGED <<durable, mirror, now, saves, turns>>
      /\ p.queue # None
      /\ conflicts' = Append(conflicts, fork)
      /\ lease' \in {Held(t), lease}
      /\ page' = [page EXCEPT ![t] = r]
  BY DEF QueueForks, Queued, counters
<1>2. /\ p \in PageType /\ FencedPage(b, p) /\ SharedType /\ FencedShared(b)
      /\ lease \in LeaseType /\ lease.token \in Nat /\ lease.token <= b
      /\ durable.val \in Saves /\ Cached \in CacheType
  BY TypedParts
<1>3. p.queue \in QueueType
  BY <1>1, <1>2 DEF PageType
<1>4. fork \in ForkType
  BY <1>2, <1>3 DEF ForkType, QueueType
<1> HIDE DEF fork
<1>5. r \in PageType /\ FencedPage(b, r) /\ r.pc = p.pc
  BY <1>2, States DEF PageType, FencedPage
<1>6. conflicts' \in Seq(ForkType) /\ lease' \in LeaseType /\ lease'.token <= b
  BY <1>1, <1>2, <1>4, HeldFenced DEF SharedType
<1>7. SharedType' /\ FencedShared(b)'
  BY <1>1, <1>2, <1>6 DEF SharedType, FencedShared
<1> HIDE DEF r
<1> QED BY <1>1, <1>5, <1>7, PageWrites

LEMMA QueueFailsTyped ==
  ASSUME NEW b \in Nat, Typed(b), NEW t \in Tabs, QueueFails(t)
  PROVE  Kept(b)
<1> DEFINE p == page[t]
           r == [p EXCEPT !.queue = None, !.cache = p.queue.base]
<1>1. /\ UNCHANGED <<durable, lease, conflicts, mirror, now, saves, turns>>
      /\ p.queue # None
      /\ page' = [page EXCEPT ![t] = r]
  BY DEF QueueFails, Queued, disk
<1>2. p \in PageType /\ FencedPage(b, p) /\ now \in Nat /\ saves \in Nat
  BY TypedParts
<1>3. p.queue.base \in CacheType
  BY <1>1, <1>2 DEF PageType, QueueType
<1>4. r \in PageType /\ FencedPage(b, r) /\ r.pc = p.pc
  BY <1>2, <1>3 DEF PageType, FencedPage
<1> HIDE DEF r
<1> QED BY <1>1, <1>2, <1>4, PageOnly

LEMMA QueueVerifiedTyped ==
  ASSUME NEW b \in Nat, Typed(b), NEW t \in Tabs, QueueVerified(t)
  PROVE  Kept(b)
<1> DEFINE p == page[t]
           q == p.queue
           cache == IF durable.val = q.val
                    THEN [rev |-> Larger(p.cache.rev, q.base.rev + 1), val |-> q.val] ELSE q.base
           r == [p EXCEPT !.queue = None, !.cache = cache]
<1>1. /\ UNCHANGED <<durable, lease, conflicts, mirror, now, saves, turns>>
      /\ p.queue # None
      /\ page' = [page EXCEPT ![t] = r]
  BY DEF QueueVerified, disk, counters
<1>2. p \in PageType /\ FencedPage(b, p) /\ now \in Nat /\ saves \in Nat
  BY TypedParts
<1>3. q \in QueueType /\ p.cache \in CacheType
  BY <1>1, <1>2 DEF PageType
<1>4. q.base \in CacheType /\ q.val \in Saves /\ Larger(p.cache.rev, q.base.rev + 1) \in Nat
  BY <1>3 DEF QueueType, CacheType, Larger
<1>5. cache \in CacheType
  BY <1>4 DEF CacheType
<1> HIDE DEF cache
<1>6. r \in PageType /\ FencedPage(b, r) /\ r.pc = p.pc
  BY <1>2, <1>5 DEF PageType, FencedPage
<1> HIDE DEF r
<1> QED BY <1>1, <1>2, <1>6, PageOnly

-----------------------------------------------------------------------------
(* The type invariant: messages, the heartbeat, the end of a page *)

LEMMA RefreshTyped ==
  ASSUME NEW b \in Nat, Typed(b), NEW t \in Tabs, Refresh(t)
  PROVE  Kept(b)
<1> DEFINE p == page[t]
           forked == \E c \in heard[t] : Open(c)
           foreign == lease.owner \notin {None, t} /\ lease.until > now /\ lease.token >= p.token
           role == IF forked THEN "conflict" ELSE IF foreign THEN "secondary" ELSE p.role
           token == IF forked \/ foreign THEN lease.token ELSE p.token
           r == [p EXCEPT !.cache = Cached, !.role = role, !.token = token]
<1>1. /\ UNCHANGED <<durable, lease, conflicts, mirror, now, saves, turns>>
      /\ page' = [page EXCEPT ![t] = r]
  BY DEF Refresh, disk, counters
<1>2. /\ p \in PageType /\ FencedPage(b, p) /\ now \in Nat /\ saves \in Nat
      /\ Cached \in CacheType /\ lease.token \in Nat /\ lease.token <= b
  BY TypedParts
<1>3. role \in Roles /\ token \in Nat /\ token <= b
  BY <1>2, States DEF PageType, FencedPage
<1> HIDE DEF forked, foreign, role, token
<1>4. r \in PageType /\ FencedPage(b, r) /\ r.pc = p.pc
  BY <1>2, <1>3 DEF PageType, FencedPage
<1> HIDE DEF r
<1> QED BY <1>1, <1>2, <1>4, PageOnly

LEMMA HeartbeatTyped ==
  ASSUME NEW b \in Nat, Typed(b), NEW t \in Tabs, Heartbeat(t)
  PROVE  Kept(b)
<1> DEFINE p == page[t]
           r == [p EXCEPT !.role = "secondary", !.token = lease.token]
<1>1. UNCHANGED <<durable, conflicts, mirror, now, saves, turns>>
  BY DEF Heartbeat, counters
<1>2. /\ p \in PageType /\ FencedPage(b, p) /\ now \in Nat /\ saves \in Nat
      /\ SharedType /\ FencedShared(b) /\ lease.token \in Nat /\ lease.token <= b
  BY TypedParts
<1>3. CASE Owns(t)
  <2>1. lease' \in LeaseType /\ lease'.token <= b /\ page' = page
    BY <1>3, HeldFenced DEF Heartbeat
  <2> QED BY <1>1, <2>1 DEF Kept, Typed, SharedType, FencedShared, Claiming
<1>4. CASE ~Owns(t)
  <2>1. lease' = lease /\ page' = [page EXCEPT ![t] = r]
    BY <1>4 DEF Heartbeat
  <2>2. r \in PageType /\ FencedPage(b, r) /\ r.pc = p.pc
    BY <1>2, States DEF PageType, FencedPage
  <2> HIDE DEF r
  <2> QED BY <1>1, <1>2, <2>1, <2>2, PageOnly
<1> QED BY <1>3, <1>4

\* A page that is gone has no token.
LEMMA BlankFenced ==
  ASSUME NEW b \in Nat PROVE Blank \in PageType /\ FencedPage(b, Blank) /\ Blank.pc = "gone"
BY BlankIsAPage DEF Blank, FencedPage, NoLease

LEMMA CloseTyped ==
  ASSUME NEW b \in Nat, Typed(b), NEW t \in Tabs, Close(t)
  PROVE  Kept(b)
<1>1. /\ UNCHANGED <<durable, conflicts, mirror, now, saves, turns>>
      /\ lease' = [lease EXCEPT !.until = now] /\ page' = [page EXCEPT ![t] = Blank]
  BY DEF Close, counters
<1>2. SharedType /\ FencedShared(b) /\ lease \in LeaseType /\ now \in Nat
  BY TypedParts
<1>3. lease' \in LeaseType /\ lease'.token = lease.token
  BY <1>1, <1>2 DEF LeaseType
<1>4. SharedType' /\ FencedShared(b)'
  BY <1>1, <1>2, <1>3 DEF SharedType, FencedShared
<1> QED BY <1>1, <1>4, BlankFenced, PageWrites DEF Before

LEMMA DieTyped ==
  ASSUME NEW b \in Nat, Typed(b), NEW t \in Tabs, Die(t)
  PROVE  Kept(b)
<1>1. /\ UNCHANGED <<durable, lease, conflicts, mirror, now, saves, turns>>
      /\ page' = [page EXCEPT ![t] = Blank]
  BY DEF Die, disk, counters
<1>2. now \in Nat /\ saves \in Nat
  BY TypedParts
<1> QED BY <1>1, <1>2, BlankFenced, PageOnly DEF Before

-----------------------------------------------------------------------------
(* The type invariant: resolving a conflict *)

LEMMA ResolveTyped ==
  ASSUME NEW b \in Nat, Typed(b), NEW t \in Tabs, NEW c \in DOMAIN conflicts, NEW choice \in Saves,
         Resolve(t, c, choice)
  PROVE  /\ Typed(b)' /\ Claiming' \subseteq Claiming \union {t}
         /\ turns' = turns + 1 /\ turns < MaxTurns
<1> DEFINE p == page[t]
           pc == IF p.role = "primary" THEN "resWrite" ELSE "claim"
           r == [p EXCEPT !.goal = "resolve", !.pick = <<c, choice>>, !.pc = pc]
<1>1. /\ UNCHANGED <<durable, lease, conflicts, mirror, now, saves>>
      /\ turns' = turns + 1 /\ turns < MaxTurns
      /\ page' = [page EXCEPT ![t] = r]
  BY DEF Resolve, disk
<1>2. p \in PageType /\ FencedPage(b, p) /\ SharedType /\ FencedShared(b)
  BY TypedParts
<1>3. pc \in PageStates /\ <<c, choice>> \in Nat \X Saves
  BY <1>2, States DEF SharedType
<1> HIDE DEF pc
<1>4. r \in PageType /\ FencedPage(b, r)
  BY <1>2, <1>3 DEF PageType, FencedPage
<1>5. SharedType' /\ FencedShared(b)'
  BY <1>1, <1>2 DEF SharedType, FencedShared
<1> HIDE DEF r
<1>6. b <= b
  OBVIOUS
<1> QED BY <1>1, <1>4, <1>5, <1>6, PageMoves

LEMMA ResWriteTyped ==
  ASSUME NEW b \in Nat, Typed(b), NEW t \in Tabs, ResWrite(t)
  PROVE  Kept(b)
<1> DEFINE p == page[t]
           r == [p EXCEPT !.pc = "resClean", !.base = durable']
<1>1. /\ UNCHANGED <<conflicts, mirror, now, saves, turns>>
      /\ lease' = Held(t)
      /\ durable' \in {durable, [val |-> p.pick[2], rev |-> durable.rev + 1, by |-> t,
                                 token |-> lease.token]}
      /\ page' = [page EXCEPT ![t] = r]
  BY DEF ResWrite, counters
<1>2. /\ p \in PageType /\ FencedPage(b, p) /\ SharedType /\ FencedShared(b)
      /\ lease.token \in Nat /\ lease.token <= b /\ durable \in DurableType /\ durable.rev \in Nat
      /\ durable.token <= b
  BY TypedParts
<1>3. p.pick[2] \in Saves
  BY <1>2 DEF PageType
<1>4. durable' \in DurableType /\ durable'.token <= b /\ lease' \in LeaseType /\ lease'.token <= b
  BY <1>1, <1>2, <1>3, HeldFenced DEF DurableType
<1>5. r \in PageType /\ FencedPage(b, r) /\ r.pc = "resClean"
  BY <1>2, <1>4, States DEF PageType, FencedPage
<1>6. SharedType' /\ FencedShared(b)'
  BY <1>1, <1>2, <1>4 DEF SharedType, FencedShared
<1> HIDE DEF r
<1> QED BY <1>1, <1>5, <1>6, PageWrites DEF Before

LEMMA ResFailsTyped ==
  ASSUME NEW b \in Nat, Typed(b), NEW t \in Tabs, ResFails(t)
  PROVE  Kept(b)
<1> DEFINE p == page[t]
           r == [Idle(p) EXCEPT !.pc = "run"]
<1>1. /\ UNCHANGED <<durable, lease, conflicts, mirror, now, saves, turns>>
      /\ page' = [page EXCEPT ![t] = r]
  BY DEF ResFails, disk, counters
<1>2. p \in PageType /\ FencedPage(b, p) /\ now \in Nat /\ saves \in Nat
  BY TypedParts
<1>3. Idle(p) \in PageType /\ FencedPage(b, Idle(p))
  BY <1>2, IdleFenced
<1>4. r \in PageType /\ FencedPage(b, r) /\ r.pc = "run"
  BY <1>3, States DEF PageType, FencedPage
<1> HIDE DEF r
<1> QED BY <1>1, <1>2, <1>4, PageOnly DEF Before

LEMMA ResCleanTyped ==
  ASSUME NEW b \in Nat, Typed(b), NEW t \in Tabs, ResClean(t)
  PROVE  Kept(b)
<1> DEFINE p == page[t]
           c == p.pick[1]
           closed == [conflicts[c] EXCEPT !.open = FALSE]
           r == [p EXCEPT !.pc = "release", !.role = "primary", !.token = lease.token, !.cache = Cached]
<1>1. /\ UNCHANGED <<durable, mirror, now, saves, turns>>
      /\ c \in DOMAIN conflicts
      /\ conflicts' = [conflicts EXCEPT ![c] = closed]
      /\ lease' = Held(t)
      /\ page' = [page EXCEPT ![t] = r]
  BY DEF ResClean, Open, counters
<1>2. /\ p \in PageType /\ FencedPage(b, p) /\ SharedType /\ FencedShared(b)
      /\ lease.token \in Nat /\ lease.token <= b /\ Cached \in CacheType
  BY TypedParts
<1>3. conflicts \in Seq(ForkType) /\ c \in 1..Len(conflicts) /\ conflicts[c] \in ForkType
  BY <1>1, <1>2 DEF SharedType
<1>4. closed \in ForkType
  BY <1>3 DEF ForkType
<1>5. r \in PageType /\ FencedPage(b, r) /\ r.pc = "release"
  BY <1>2, States DEF PageType, FencedPage
<1>6. conflicts' \in Seq(ForkType)
  <2> HIDE DEF closed, c, r
  <2> QED BY <1>1, <1>3, <1>4, ExceptSeq
<1>7. lease' \in LeaseType /\ lease'.token <= b
  BY <1>1, HeldFenced
<1>8. SharedType' /\ FencedShared(b)'
  BY <1>1, <1>2, <1>6, <1>7 DEF SharedType, FencedShared
<1> HIDE DEF r
<1> QED BY <1>1, <1>5, <1>8, PageWrites DEF Before

LEMMA ReleaseTyped ==
  ASSUME NEW b \in Nat, Typed(b), NEW t \in Tabs, Release(t)
  PROVE  Kept(b)
<1> DEFINE p == page[t]
           r == [Idle(p) EXCEPT !.pc = "leaving", !.role = "initializing"]
<1>1. /\ UNCHANGED <<durable, conflicts, mirror, now, saves, turns>>
      /\ lease' \in {lease, [lease EXCEPT !.until = now]}
      /\ page' = [page EXCEPT ![t] = r]
  BY DEF Release, counters
<1>2. /\ p \in PageType /\ FencedPage(b, p) /\ SharedType /\ FencedShared(b)
      /\ lease \in LeaseType /\ now \in Nat
  BY TypedParts
<1>3. Idle(p) \in PageType /\ FencedPage(b, Idle(p))
  BY <1>2, IdleFenced
<1>4. r \in PageType /\ FencedPage(b, r) /\ r.pc = "leaving"
  BY <1>3, States DEF PageType, FencedPage
<1>5. lease' \in LeaseType /\ lease'.token = lease.token
  BY <1>1, <1>2 DEF LeaseType
<1>6. SharedType' /\ FencedShared(b)'
  BY <1>1, <1>2, <1>5 DEF SharedType, FencedShared
<1> HIDE DEF r
<1> QED BY <1>1, <1>4, <1>6, PageWrites DEF Before

-----------------------------------------------------------------------------
(* The type invariant: every step *)

\* The budget after a step: the tokens rise by as much as turns are spent on it.
LEMMA BudgetKept ==
  ASSUME TypeInv, [Next]_vars
  PROVE  Budget' /\ IsFiniteSet(Claiming') /\ turns' \in 0..MaxTurns
<1>1. /\ IsFiniteSet(Claiming) /\ Cardinality(Claiming) \in Nat
      /\ turns \in Nat /\ turns <= MaxTurns /\ MaxTurns \in Nat
  BY FS_CardinalityType, LocalSaveAssumption DEF TypeInv, Bounded
<1>2. PICK b \in Nat : Typed(b) /\ b + Cardinality(Claiming) <= turns
  BY DEF TypeInv, Budget
<1>a. b + 1 \in Nat /\ MaxTurns \in Nat
  BY LocalSaveAssumption
<1>3. CASE Kept(b)
  <2>1. IsFiniteSet(Claiming') /\ Cardinality(Claiming') <= Cardinality(Claiming)
    BY <1>1, <1>3, FS_Subset DEF Kept
  <2>2. Cardinality(Claiming') \in Nat /\ b + Cardinality(Claiming') <= turns'
    BY <1>1, <1>2, <1>3, <2>1, FS_CardinalityType DEF Kept
  <2> QED BY <1>1, <1>3, <2>1, <2>2 DEF Kept, Budget
<1>4. ASSUME NEW t \in Tabs, Typed(b)', Claiming' \subseteq Claiming \union {t},
             turns' = turns + 1, turns < MaxTurns
      PROVE  Budget' /\ IsFiniteSet(Claiming') /\ turns' \in 0..MaxTurns
  <2> DEFINE more == Claiming \union {t}
  <2>1. IsFiniteSet(more) /\ Cardinality(more) <= Cardinality(Claiming) + 1
    <3>1. /\ IsFiniteSet(Claiming \union {t})
          /\ Cardinality(Claiming \union {t}) = IF t \in Claiming THEN Cardinality(Claiming)
                                                ELSE Cardinality(Claiming) + 1
      BY <1>1, FS_AddElement
    <3> QED BY <1>1, <3>1
  <2>2. IsFiniteSet(Claiming') /\ Cardinality(Claiming') <= Cardinality(more)
    BY <1>4, <2>1, FS_Subset
  <2>3. Cardinality(Claiming') \in Nat /\ Cardinality(more) \in Nat
    BY <2>1, <2>2, FS_CardinalityType
  <2> HIDE DEF more
  <2>4. b + Cardinality(Claiming') <= turns'
    BY <1>1, <1>2, <1>4, <2>1, <2>2, <2>3
  <2> QED BY <1>1, <1>4, <2>2, <2>4 DEF Budget
<1>5. ASSUME NEW t \in Tabs, Typed(b + 1)', t \in Claiming, Claiming' \subseteq Claiming \ {t},
             turns' = turns
      PROVE  Budget' /\ IsFiniteSet(Claiming') /\ turns' \in 0..MaxTurns
  <2> DEFINE less == Claiming \ {t}
  <2>1. IsFiniteSet(less) /\ Cardinality(less) = Cardinality(Claiming) - 1
    BY <1>1, <1>5, FS_RemoveElement
  <2>2. IsFiniteSet(Claiming') /\ Cardinality(Claiming') <= Cardinality(less)
    BY <1>5, <2>1, FS_Subset
  <2>3. Cardinality(Claiming') \in Nat /\ Cardinality(less) \in Nat
    BY <2>1, <2>2, FS_CardinalityType
  <2> HIDE DEF less
  <2>4. (b + 1) + Cardinality(Claiming') <= turns'
    BY <1>1, <1>2, <1>5, <2>1, <2>2, <2>3
  <2> QED BY <1>1, <1>a, <1>5, <2>2, <2>4 DEF Budget
<1>6. ASSUME Typed(b + 1)', Claiming' \subseteq Claiming, turns' = turns + 1, turns < MaxTurns
      PROVE  Budget' /\ IsFiniteSet(Claiming') /\ turns' \in 0..MaxTurns
  <2>1. IsFiniteSet(Claiming') /\ Cardinality(Claiming') <= Cardinality(Claiming)
    BY <1>1, <1>6, FS_Subset
  <2>2. Cardinality(Claiming') \in Nat
    BY <2>1, FS_CardinalityType
  <2>3. (b + 1) + Cardinality(Claiming') <= turns'
    BY <1>1, <1>2, <1>6, <2>1, <2>2
  <2> QED BY <1>1, <1>a, <1>6, <2>1, <2>3 DEF Budget
<1> DEFINE Goal == Budget' /\ IsFiniteSet(Claiming') /\ turns' \in 0..MaxTurns
<1>7. ASSUME NEW t \in Tabs, Starts(t) PROVE Goal
  <2>1. CASE Start(t)
    BY <1>2, <1>4, <2>1, StartTyped
  <2>2. CASE ClaimWrite(t)
    BY <1>2, <1>3, <1>5, <2>2, ClaimWriteTyped
  <2>3. CASE AppliesMirror(t) \/ SetsMirrorAside(t)
    <3>1. page[t].copy # None
      BY <2>3 DEF AppliesMirror, SetsMirrorAside, TypeInv, Copied
    <3> QED BY <1>2, <1>3, <2>3, <3>1, AppliesMirrorTyped, SetsMirrorAsideTyped
  <2>4. CASE ClaimRead(t) \/ ClaimDenied(t) \/ ClaimDone(t) \/ Load(t)
    BY <1>2, <1>3, <2>4, ClaimReadTyped, ClaimDeniedTyped, ClaimDoneTyped, LoadTyped
  <2> QED BY <1>7, <2>1, <2>2, <2>3, <2>4 DEF Starts
<1>8. ASSUME NEW t \in Tabs, Takes(t) PROVE Goal
  BY <1>2, <1>3, <1>6, <1>8, TakeOverTyped, TakeDoneTyped DEF Takes
<1>9. ASSUME NEW t \in Tabs, Writes(t) PROVE Goal
  BY <1>2, <1>3, <1>9, SaveTyped, ProofCommitsTyped, ProofFailsTyped, ProofSettlesTyped,
     HideSaveTyped, ReturnTyped, QueueCommitsTyped, QueueForksTyped, QueueFailsTyped,
     QueueVerifiedTyped DEF Writes
<1>10. ASSUME NEW t \in Tabs, Hears(t) PROVE Goal
  BY <1>2, <1>3, <1>10, RefreshTyped, HeartbeatTyped, CloseTyped, DieTyped DEF Hears
<1>11. ASSUME NEW t \in Tabs, Resolves(t) PROVE Goal
  <2>1. CASE \E c \in DOMAIN conflicts, choice \in Saves : Resolve(t, c, choice)
    BY <1>2, <1>4, <2>1, ResolveTyped
  <2>2. CASE ResWrite(t) \/ ResFails(t) \/ ResClean(t) \/ Release(t)
    BY <1>2, <1>3, <2>2, ResWriteTyped, ResFailsTyped, ResCleanTyped, ReleaseTyped
  <2> QED BY <1>11, <2>1, <2>2 DEF Resolves
<1>12. ASSUME Tick \/ UNCHANGED vars PROVE Goal
  <2>1. UNCHANGED <<durable, lease, conflicts, mirror, page, saves, turns>> /\ now' \in {now, now + 1}
    BY <1>12 DEF Tick, vars, disk, counters
  <2>2. SharedType' /\ FencedShared(b)'
    BY <1>2, <2>1 DEF Typed, SharedType, FencedShared
  <2>3. Kept(b)
    BY <1>2, <2>1, <2>2 DEF Kept, Typed, Claiming
  <2> QED BY <1>3, <2>3
<1> HIDE DEF Goal
<1>13. Goal
  BY <1>7, <1>8, <1>9, <1>10, <1>11, <1>12 DEF Next
<1> QED BY <1>13 DEF Goal

\* A message is the number of a conflict there is room for, or 0.
LEMMA TellsNumbers ==
  ASSUME heard \in [Tabs -> SUBSET (0..MaxConflicts)], NEW t \in Tabs, NEW m \in 0..MaxConflicts,
         Tell(t, m)
  PROVE  heard' \in [Tabs -> SUBSET (0..MaxConflicts)]
BY DEF Tell

\* The conflicts stay within their number, and so do the messages.
LEMMA ConflictsBounded ==
  ASSUME TypeInv, [Next]_vars
  PROVE  Len(conflicts') <= MaxConflicts /\ heard' \in [Tabs -> SUBSET (0..MaxConflicts)]
<1>1. /\ conflicts \in Seq(ForkType) /\ Len(conflicts) \in Nat /\ Len(conflicts) <= MaxConflicts
      /\ heard \in [Tabs -> SUBSET (0..MaxConflicts)] /\ MaxConflicts \in Nat
  BY LocalSaveAssumption DEF TypeInv, Budget, Typed, SharedType, Bounded
<1>2. 0 \in 0..MaxConflicts
  BY <1>1
<1> DEFINE Grown(f) == Len(conflicts) < MaxConflicts /\ conflicts' = Append(conflicts, f)
<1>3. ASSUME NEW f, Grown(f) PROVE Len(conflicts') \in 0..MaxConflicts
  <2>1. Len(conflicts') = Len(conflicts) + 1
    BY <1>1, <1>3
  <2> QED BY <1>1, <1>3, <2>1
<1>4. ASSUME NEW t \in Tabs, QueueForks(t)
      PROVE  Len(conflicts') <= MaxConflicts /\ heard' \in [Tabs -> SUBSET (0..MaxConflicts)]
  <2>1. Len(conflicts') \in 0..MaxConflicts
    BY <1>3, <1>4 DEF QueueForks
  <2>2. Tell(t, Len(conflicts'))
    BY <1>4 DEF QueueForks
  <2> QED BY <1>1, <2>1, <2>2, TellsNumbers
<1>5. ASSUME NEW t \in Tabs, SetsMirrorAside(t)
      PROVE  Len(conflicts') <= MaxConflicts /\ UNCHANGED heard
  <2>1. UNCHANGED heard /\ (conflicts' = conflicts \/ \E f : Grown(f))
    BY <1>5 DEF SetsMirrorAside
  <2> QED BY <1>1, <1>3, <2>1
<1>6. ASSUME NEW t \in Tabs, ResClean(t)
      PROVE  Len(conflicts') <= MaxConflicts /\ heard' \in [Tabs -> SUBSET (0..MaxConflicts)]
  <2>1. Tell(t, 0) /\ \E c, f : conflicts' = [conflicts EXCEPT ![c] = f]
    BY <1>6 DEF ResClean
  <2>2. Len(conflicts') = Len(conflicts)
    BY <1>1, <2>1, ExceptSeq
  <2> QED BY <1>1, <1>2, <2>1, <2>2, TellsNumbers
<1> HIDE DEF Grown
<1> DEFINE Goal == Len(conflicts') <= MaxConflicts /\ heard' \in [Tabs -> SUBSET (0..MaxConflicts)]
<1>7. ASSUME conflicts' = conflicts,
             UNCHANGED heard \/ \E t \in Tabs : Tell(t, 0) \/ heard' = [heard EXCEPT ![t] = {}]
      PROVE  Goal
  BY <1>1, <1>2, <1>7, TellsNumbers
<1>8. ASSUME NEW t \in Tabs, Starts(t) \/ Takes(t) PROVE Goal
  <2>1. CASE SetsMirrorAside(t)
    BY <1>1, <1>5, <2>1
  <2>2. CASE \/ Start(t) \/ AppliesMirror(t) \/ ClaimRead(t) \/ ClaimDenied(t) \/ ClaimWrite(t)
             \/ ClaimDone(t) \/ Load(t) \/ TakeOver(t) \/ TakeDone(t)
    <3>1. conflicts' = conflicts /\ (UNCHANGED heard \/ Tell(t, 0))
      BY <2>2 DEF Start, AppliesMirror, ClaimRead, ClaimDenied, ClaimWrite, ClaimDone, Load,
                  TakeOver, TakeDone, disk
    <3> QED BY <1>7, <3>1
  <2> QED BY <1>8, <2>1, <2>2 DEF Starts, Takes
<1>9. ASSUME NEW t \in Tabs, Writes(t) PROVE Goal
  <2>1. CASE QueueForks(t)
    BY <1>4, <2>1
  <2>2. CASE \/ Save(t) \/ ProofCommits(t) \/ ProofFails(t) \/ ProofSettles(t) \/ HideSave(t)
             \/ Return(t) \/ QueueCommits(t) \/ QueueFails(t) \/ QueueVerified(t)
    <3>1. conflicts' = conflicts /\ (UNCHANGED heard \/ Tell(t, 0))
      BY <2>2 DEF Save, ProofCommits, ProofFails, ProofSettles, HideSave, Return, QueueCommits,
                  QueueFails, QueueVerified, disk
    <3> QED BY <1>7, <3>1
  <2> QED BY <1>9, <2>1, <2>2 DEF Writes
<1>10. ASSUME NEW t \in Tabs, Hears(t) PROVE Goal
  <2>1. conflicts' = conflicts /\ (UNCHANGED heard \/ heard' = [heard EXCEPT ![t] = {}])
    BY <1>10 DEF Hears, Refresh, Heartbeat, Close, Die, disk
  <2> QED BY <1>7, <2>1
<1>11. ASSUME NEW t \in Tabs, Resolves(t) PROVE Goal
  <2>1. CASE ResClean(t)
    BY <1>6, <2>1
  <2>2. CASE \/ \E c \in DOMAIN conflicts, choice \in Saves : Resolve(t, c, choice)
             \/ ResWrite(t) \/ ResFails(t) \/ Release(t)
    <3>1. conflicts' = conflicts /\ UNCHANGED heard
      BY <2>2 DEF Resolve, ResWrite, ResFails, Release, disk
    <3> QED BY <1>7, <3>1
  <2> QED BY <1>11, <2>1, <2>2 DEF Resolves
<1>12. ASSUME Tick \/ UNCHANGED vars PROVE Goal
  BY <1>7, <1>12 DEF Tick, vars, disk
<1> HIDE DEF Goal
<1>13. Goal
  BY <1>8, <1>9, <1>10, <1>11, <1>12 DEF Next
<1> QED BY <1>13 DEF Goal

\* A page that judges a mirror keeps the copy it read.
LEMMA CopiedKept ==
  ASSUME page \in [Tabs -> PageType], Copied, [Next]_vars
  PROVE  Copied'
<1>1. ASSUME NEW t \in Tabs, Mildly(t) PROVE Copied'
  BY <1>1 DEF Mildly, Milder, Copied
<1>2. ASSUME NEW t \in Tabs, page'[t].pc = "mirror" => page'[t].copy # None,
             \A u \in Tabs \ {t} : page'[u] = page[u]
      PROVE  Copied'
  BY <1>2 DEF Copied
<1>3. ASSUME NEW t \in Tabs, Start(t) PROVE Copied'
  <2>1. page[t] \in PageType /\ \A u \in Tabs \ {t} : page'[u] = page[u]
    BY <1>3 DEF Start
  <2>2. page'[t].pc = "mirror" => page'[t].copy # None
    BY <1>3, <2>1 DEF Start, PageType
  <2> QED BY <1>2, <2>1, <2>2
<1>4. ASSUME NEW t \in Tabs, Save(t) \/ HideSave(t) PROVE Copied'
  <2>1. page[t] \in PageType /\ page'[t].pc = page[t].pc /\ page[t].pc # "mirror"
        /\ \A u \in Tabs \ {t} : page'[u] = page[u]
    BY <1>4 DEF Save, HideSave, Mounted, PageType
  <2> QED BY <1>2, <2>1
<1>5. ASSUME NEW t \in Tabs, NEW c \in DOMAIN conflicts, NEW choice \in Saves, Resolve(t, c, choice)
      PROVE  Copied'
  <2>1. page[t] \in PageType /\ page'[t].pc # "mirror" /\ \A u \in Tabs \ {t} : page'[u] = page[u]
    BY <1>5 DEF Resolve, PageType
  <2> QED BY <1>2, <2>1
<1>6. CASE Tick \/ UNCHANGED vars
  BY <1>6 DEF Tick, vars, Copied
<1>7. ASSUME NEW t \in Tabs, Starts(t) \/ Takes(t) \/ Writes(t) \/ Hears(t) \/ Resolves(t)
      PROVE  Copied'
  BY <1>1, <1>3, <1>4, <1>5, <1>7, EndsMildly, ClaimWritesMildly, GoesOnMildly, EndsPageMildly
     DEF Starts, Takes, Writes, Hears, Resolves
<1> QED BY <1>6, <1>7 DEF Next

\* What is overwritten was in the primary save.
LEMMA OverwrittenFromDisk ==
  [Next]_vars => overwritten' \subseteq overwritten \cup durable.val
<1> SUFFICES ASSUME [Next]_vars PROVE overwritten' \subseteq overwritten \cup durable.val
  OBVIOUS
<1>1. ASSUME NEW t \in Tabs, Starts(t) PROVE overwritten' \subseteq overwritten \cup durable.val
  BY <1>1 DEF Starts, Start, AppliesMirror, SetsMirrorAside, ClaimRead, ClaimDenied, ClaimWrite,
              ClaimDone, Load, ghosts
<1>2. ASSUME NEW t \in Tabs, Takes(t) \/ Hears(t) \/ Resolves(t) PROVE overwritten' = overwritten
  BY <1>2 DEF Takes, TakeOver, TakeDone, Hears, Refresh, Heartbeat, Close, Die,
              Resolves, Resolve, ResWrite, ResFails, ResClean, Release, ghosts
<1>3. ASSUME NEW t \in Tabs, Writes(t) PROVE overwritten' \subseteq overwritten \cup durable.val
  BY <1>3 DEF Writes, Save, ProofCommits, ProofFails, ProofSettles, HideSave, Return, QueueCommits,
              QueueForks, QueueFails, QueueVerified, Overwrites, ghosts
<1>4. CASE Tick \/ UNCHANGED vars
  BY <1>4 DEF Tick, vars, ghosts
<1> QED BY <1>1, <1>2, <1>3, <1>4 DEF Next

\* Checkpoints that were confirmed, given up or overwritten are checkpoints.
LEMMA GhostsTyped ==
  ASSUME TypeInv, [Next]_vars
  PROVE  acked' \in Saves /\ discarded' \in Saves /\ overwritten' \in Saves
<1>1. /\ acked \in Saves /\ discarded \in Saves /\ overwritten \in Saves
      /\ durable.val \in Saves /\ durable'.val \in Saves
      /\ page \in [Tabs -> PageType] /\ conflicts \in Seq(ForkType)
  BY BudgetKept DEF TypeInv, Bounded, Budget, Typed, SharedType, DurableType
<1>2. acked' \subseteq acked \cup durable.val
  BY AckedFromDisk
<1>3. acked' \in Saves
  BY <1>1, <1>2 DEF Saves
<1>4. ASSUME NEW t \in Tabs, ResClean(t) PROVE discarded' \in Saves
  <2> DEFINE c == page[t].pick[1]
  <2>1. c \in DOMAIN conflicts
        /\ discarded' = discarded \cup ((conflicts[c].cand \cup conflicts[c].kept) \ durable.val)
    BY <1>4 DEF ResClean, Open
  <2>2. conflicts[c].cand \in Saves /\ conflicts[c].kept \in Saves
    <3>1. c \in 1..Len(conflicts)
      BY <1>1, <2>1
    <3>2. conflicts[c] \in ForkType
      BY <1>1, <3>1
    <3> QED BY <3>2 DEF ForkType
  <2> HIDE DEF c
  <2> QED BY <1>1, <2>1, <2>2 DEF Saves
<1>5. ASSUME discarded' \in {discarded} \/ \E v : discarded' = discarded \cup (durable.val \ v)
      PROVE  discarded' \in Saves
  BY <1>1, <1>5 DEF Saves
<1>6. ASSUME NEW t \in Tabs, Starts(t) \/ Takes(t) \/ Hears(t) PROVE discarded' = discarded
  BY <1>6 DEF Starts, Start, AppliesMirror, SetsMirrorAside, ClaimRead, ClaimDenied, ClaimWrite,
              ClaimDone, Load, Takes, TakeOver, TakeDone, Hears, Refresh, Heartbeat, Close, Die, ghosts
<1>7. ASSUME NEW t \in Tabs, Writes(t)
      PROVE  discarded' \in {discarded} \/ \E v : discarded' = discarded \cup (durable.val \ v)
  BY <1>7 DEF Writes, Save, ProofCommits, ProofFails, ProofSettles, HideSave, Return, QueueCommits,
              QueueForks, QueueFails, QueueVerified, ghosts
<1>8. ASSUME NEW t \in Tabs, Resolves(t) PROVE discarded' = discarded \/ ResClean(t)
  BY <1>8 DEF Resolves, Resolve, ResWrite, ResFails, Release, ghosts
<1>9. CASE Tick \/ UNCHANGED vars
  BY <1>1, <1>3, <1>9 DEF Tick, vars, ghosts
<1>10. discarded' \in Saves
  BY <1>1, <1>4, <1>5, <1>6, <1>7, <1>8, <1>9 DEF Next
<1>11. overwritten' \subseteq overwritten \cup durable.val
  BY OverwrittenFromDisk
<1>12. overwritten' \in Saves
  BY <1>1, <1>11 DEF Saves
<1> QED BY <1>3, <1>10, <1>12

\* The windows that are passed are the four.
LEMMA HitTyped == hit \subseteq Windows /\ [Next]_vars => hit' \subseteq Windows
<1> SUFFICES ASSUME hit \subseteq Windows, [Next]_vars PROVE hit' \subseteq Windows
  OBVIOUS
<1>1. ASSUME NEW t \in Tabs, Starts(t) PROVE hit' \subseteq Windows
  BY <1>1 DEF Starts, Start, AppliesMirror, SetsMirrorAside, ClaimRead, ClaimDenied, ClaimWrite,
              ClaimDone, Load, ghosts, Windows
<1>2. ASSUME NEW t \in Tabs, Takes(t) \/ Hears(t) PROVE hit' = hit
  BY <1>2 DEF Takes, TakeOver, TakeDone, Hears, Refresh, Heartbeat, Close, Die, ghosts
<1>3. ASSUME NEW t \in Tabs, Writes(t) PROVE hit' \subseteq Windows
  BY <1>3 DEF Writes, Save, ProofCommits, ProofFails, ProofSettles, HideSave, Return, QueueCommits,
              QueueForks, QueueFails, QueueVerified, StaleSave, ghosts, Windows
<1>4. ASSUME NEW t \in Tabs, Resolves(t) PROVE hit' \subseteq Windows
  BY <1>4 DEF Resolves, Resolve, ResWrite, ResFails, ResClean, Release, ghosts, Windows
<1>5. CASE Tick \/ UNCHANGED vars
  BY <1>5 DEF Tick, vars, ghosts
<1> QED BY <1>1, <1>2, <1>3, <1>4, <1>5 DEF Next

\* Every record has its type, in every behaviour, whichever window is hit: in particular a
\* token is raised at most once for a start, a takeover or a resolution, so the fence
\* cannot run ahead of what pages did.
THEOREM StoreTypes == Spec => []LocalTypeOK
<1>1. Init => TypeInv
  <2> SUFFICES ASSUME Init PROVE TypeInv
    OBVIOUS
  <2>1. NoLease \in LeaseType /\ NoSave \in DurableType
    BY DEF NoLease, NoSave, LeaseType, DurableType, Saves
  <2>2. SharedType /\ FencedShared(0)
    BY <2>1 DEF Init, SharedType, FencedShared, NoLease, NoSave
  <2>3. page \in [Tabs -> PageType] /\ \A t \in Tabs : FencedPage(0, page[t])
    BY BlankFenced DEF Init
  <2>4. Claiming = {}
    BY DEF Init, Claiming, Before, Blank
  <2>5. IsFiniteSet(Claiming) /\ Cardinality(Claiming) = 0
    BY <2>4, FS_EmptySet
  <2>6. Budget
    BY <2>2, <2>3, <2>5 DEF Init, Budget, Typed
  <2>7. Bounded
    BY LocalSaveAssumption DEF Init, Bounded, Saves
  <2>8. Copied
    BY DEF Init, Copied, Blank
  <2> QED BY <2>5, <2>6, <2>7, <2>8 DEF TypeInv
<1>2. TypeInv /\ [Next]_vars => TypeInv'
  <2> SUFFICES ASSUME TypeInv, [Next]_vars PROVE TypeInv'
    OBVIOUS
  <2>1. page \in [Tabs -> PageType]
    BY DEF TypeInv, Budget, Typed
  <2>2. Copied'
    BY <2>1, CopiedKept DEF TypeInv
  <2>3. hit' \subseteq Windows
    BY HitTyped DEF TypeInv, Bounded
  <2> QED BY <2>2, <2>3, BudgetKept, ConflictsBounded, GhostsTyped DEF TypeInv, Bounded
<1>3. TypeInv => LocalTypeOK
  <2> SUFFICES ASSUME TypeInv PROVE LocalTypeOK
    OBVIOUS
  <2>1. PICK b \in Nat : Typed(b) /\ b + Cardinality(Claiming) <= turns
    BY DEF TypeInv, Budget
  <2>2. b <= MaxTurns /\ MaxTurns \in Nat
    BY <2>1, FS_CardinalityType, LocalSaveAssumption DEF TypeInv, Bounded
  <2>3. durable \in [val : Saves, rev : Nat, by : Tabs \cup {None}, token : 0..MaxTurns]
    BY <2>1, <2>2 DEF Typed, SharedType, FencedShared, DurableType
  <2>4. lease \in [owner : Tabs \cup {None}, token : 0..MaxTurns, until : Nat]
    BY <2>1, <2>2 DEF Typed, SharedType, FencedShared, LeaseType
  <2>5. ASSUME NEW c \in DOMAIN conflicts
        PROVE  conflicts[c].cand \in Saves /\ conflicts[c].kept \in Saves /\ conflicts[c].open \in BOOLEAN
    <3>1. conflicts \in Seq(ForkType) /\ c \in 1..Len(conflicts)
      BY <2>1 DEF Typed, SharedType
    <3>2. conflicts[c] \in ForkType
      BY <3>1
    <3> QED BY <3>2 DEF ForkType
  <2>6. ASSUME NEW t \in Tabs
        PROVE  /\ page[t].pc \in PageStates /\ page[t].role \in Roles /\ page[t].token \in 0..MaxTurns
               /\ page[t].game \in Saves /\ page[t].cache.val \in Saves /\ page[t].cache.rev \in Nat
               /\ heard[t] \subseteq 0..MaxConflicts
    <3>1. page[t] \in PageType /\ page[t].token <= b
      BY <2>1 DEF Typed, FencedPage
    <3>2. page[t].token \in 0..MaxTurns
      BY <2>2, <3>1 DEF PageType
    <3> QED BY <3>1, <3>2 DEF PageType, CacheType, TypeInv, Bounded
  <2> QED BY <2>3, <2>4, <2>5, <2>6 DEF LocalTypeOK, TypeInv, Bounded
<1> QED BY <1>1, <1>2, <1>3, PTL DEF Spec
=============================================================================
