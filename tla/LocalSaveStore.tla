--------------------------- MODULE LocalSaveStore ---------------------------
(***************************************************************************)
(* The browser's save store: pages of the same origin share one IndexedDB  *)
(* (the primary save with its revision record, the writer lease, the       *)
(* preserved conflicts) and one localStorage mirror.  A readwrite          *)
(* transaction is atomic and serialised with those of the other pages;     *)
(* everything between two transactions interleaves.                        *)
(*                                                                         *)
(* A save is the set of checkpoints whose progress it holds, so one save   *)
(* continues another when it contains it.                                  *)
(***************************************************************************)
EXTENDS Naturals, Sequences, FiniteSets

CONSTANTS
  Tabs,          \* page identities (kept by a reload, LOCAL_SAVE_WRITER_SESSION_KEY)
  None,          \* absence of a lease owner, a mirror, a pending commit
  Duration,      \* LOCAL_SAVE_LEASE_DURATION_MS, in ticks
  MaxTurns, MaxSaves, MaxNow, MaxConflicts, MaxFaults   \* bounds

\* Four windows the code leaves open; `hit` says which were passed.
\* "boot": another page takes the lease or saves between a starting page's reads
\* and its mirror transaction.  "resolving": a page that is resolving a conflict
\* saves its own game before it reloads, or still has a save to commit.  "refused":
\* a page whose resolution was refused, and which therefore stays primary, saves
\* its own game.  "tie": a page takes the lease over and gives it back within the
\* clock tick in which another page's claim began, between its read and its write.
Windows == {"boot", "resolving", "refused", "tie"}

ASSUME LocalSaveAssumption ==
  /\ None \notin Tabs
  /\ {Duration, MaxTurns, MaxSaves, MaxNow, MaxConflicts, MaxFaults} \subseteq Nat

VARIABLES
  durable,     \* the primary save and its revision record
  lease,       \* the writer lease record
  conflicts,   \* conflict records with both copies, in the order of their ids
  mirror,      \* the emergency mirror in localStorage
  page,        \* what each page keeps in memory
  heard,       \* messages a page has not handled: a conflict's number, or 0
  now,         \* the wall clock
  turns, saves, faults,    \* bounds: a turn starts a page, takes over or resolves
  acked,       \* history: checkpoints some page was told are saved
  discarded,   \* history: checkpoints the player chose to give up
  hit,         \* history: the windows a page has passed through
  overwritten  \* history: checkpoints overwritten in a window

disk == <<durable, lease, conflicts>>
counters == <<now, turns, saves, faults>>
ghosts == <<acked, discarded, hit, overwritten>>
vars == <<disk, mirror, page, heard, counters, ghosts>>

Saves == SUBSET (1..MaxSaves)

\* The queued commit of a page is a record or None.
ASSUME NoneIsNotAQueue ==
  None \notin [val : Saves, base : [rev : Nat, val : Saves], written : BOOLEAN]

NoSave == [val |-> {}, rev |-> 0, by |-> None, token |-> 0]
NoLease == [owner |-> None, token |-> 0, until |-> 0]
Cold == [rev |-> 0, val |-> {}]           \* the caches of a new page
Cached == [rev |-> durable.rev, val |-> durable.val]

Roles == {"initializing", "primary", "secondary", "conflict"}
PageStates == {"gone", "mirror", "claim", "claimWrite", "claimed", "load", "run", "take", "failed",
               "resWrite", "resClean", "release", "leaving"}

Blank ==
  [pc |-> "gone", goal |-> "boot", role |-> "initializing", token |-> 0,
   game |-> {}, cache |-> Cold, proof |-> None, queue |-> None,
   snap |-> NoLease, at |-> 0, base |-> NoSave, pick |-> <<0, {}>>,
   copy |-> None, forked |-> FALSE, away |-> FALSE, stale |-> FALSE, consent |-> FALSE]

\* What an operation read is forgotten when it ends.
Idle(p) == [p EXCEPT !.goal = "boot", !.snap = NoLease, !.at = 0, !.base = NoSave,
                     !.pick = <<0, {}>>, !.copy = None, !.forked = FALSE, !.consent = FALSE]

\* The game runs in the page, whatever else the page is doing.
Mounted(t) ==
  \/ page[t].pc \in {"run", "take", "resWrite", "resClean", "release"}
  \/ page[t].goal = "resolve" /\ page[t].pc \in {"claim", "claimWrite", "claimed"}

Listening(t) == page[t].pc \notin {"gone", "mirror", "failed"}
Owns(t) == lease.owner = t /\ lease.token = page[t].token
Held(t) == [lease EXCEPT !.owner = t, !.until = now + Duration]
Open(c) == c \in DOMAIN conflicts /\ conflicts[c].open
AnyOpen == \E c \in DOMAIN conflicts : Open(c)
Newest(s) == IF s = {} THEN 0 ELSE CHOOSE i \in s : \A j \in s : j <= i

\* Mutant: the fences are added up.
LargerSum(m, n) == m + n

Larger(m, n) == IF m > n THEN m ELSE n

\* withBrowserCoordinationLock: another page is between its lease read and write.
LockHeld(t) == \E u \in Tabs \ {t} : page[u].pc = "claimWrite"

\* postCoordinationMessage: to every other page that listens.
Tell(t, message) ==
  heard' = [u \in Tabs |-> IF u # t /\ Listening(u) THEN heard[u] \cup {message} ELSE heard[u]]

-----------------------------------------------------------------------------
(* A page starts. *)

Init ==
  /\ durable = NoSave /\ lease = NoLease /\ conflicts = <<>> /\ mirror = None
  /\ page = [t \in Tabs |-> Blank]
  /\ heard = [t \in Tabs |-> {}]
  /\ now = 0 /\ saves = 0 /\ turns = 0 /\ faults = 0
  /\ acked = {} /\ discarded = {} /\ hit = {} /\ overwritten = {}

\* initializeIndexedDb reads conflicts, lease, revision, save and mirror; the copy
\* of the mirror is judged and committed by what was read here.
Start(t) ==
  /\ page[t].pc = "gone" /\ turns < MaxTurns
  /\ page' = [page EXCEPT ![t] =
       IF mirror = None THEN [@ EXCEPT !.pc = "claim", !.forked = AnyOpen]
       ELSE [@ EXCEPT !.pc = "mirror", !.snap = lease, !.base = durable, !.copy = mirror,
                      !.forked = AnyOpen]]
  /\ turns' = turns + 1
  /\ UNCHANGED <<disk, mirror, heard, now, saves, faults, ghosts>>

\* Mutant: the newer revision number is enough.
ContinuesByRevision(t, m) == m.rev > page[t].base.rev

\* canApplyLocalSaveEmergencyMirror, on what the page read before.
Continues(t, m) ==
  LET base == page[t].base  snap == page[t].snap IN
  /\ m.by = t /\ m.rev > base.rev
  /\ base.rev > 0 => base.by = t /\ base.token = m.token
  /\ snap.owner = t /\ snap.token = m.token

\* Nobody wrote since the page read.
Undisturbed(t) == durable = page[t].base /\ lease.owner = page[t].snap.owner
                                         /\ lease.token = page[t].snap.token

\* The mirror is committed over whatever is the save by now.
AppliesMirror(t) ==
  LET p == page[t]  m == p.copy IN
  /\ p.pc = "mirror" /\ Continues(t, m)
  /\ durable' = [val |-> m.val, rev |-> p.base.rev + 1, by |-> t, token |-> m.token]
  /\ page' = [page EXCEPT ![t] = [Idle(p) EXCEPT !.pc = "claim", !.forked = p.forked]]
  /\ mirror' = None
  /\ hit' = hit \cup (IF Undisturbed(t) THEN {} ELSE {"boot"})
  /\ overwritten' = overwritten \cup
       (IF Undisturbed(t) /\ ~m.stale THEN {} ELSE durable.val \ m.val)
  /\ UNCHANGED <<lease, conflicts, heard, counters, acked, discarded>>

\* Both copies are preserved, or the mirror is only a duplicate.
SetsMirrorAside(t) ==
  LET p == page[t]  m == p.copy  forks == m.val # p.base.val IN
  /\ p.pc = "mirror" /\ ~Continues(t, m)
  /\ forks => Len(conflicts) < MaxConflicts
  /\ conflicts' = IF forks
                  THEN Append(conflicts, [cand |-> m.val, kept |-> p.base.val, open |-> TRUE])
                  ELSE conflicts
  /\ page' = [page EXCEPT ![t] = [Idle(p) EXCEPT !.pc = "claim", !.forked = p.forked \/ forks]]
  /\ mirror' = None
  /\ UNCHANGED <<durable, lease, heard, counters, ghosts>>

-----------------------------------------------------------------------------
(* Claiming the lease: at start, and to resolve a conflict. *)

\* canClaimLocalSaveWriterLease
Claimable(t) == lease.owner \in {None, t} \/ lease.until <= now

\* Where a page goes on when its claim is decided.
AfterClaim(t, granted) ==
  IF page[t].goal = "boot" THEN "load" ELSE IF granted THEN "resWrite" ELSE "run"

RoleAfterClaim(t, role) ==
  IF page[t].goal = "boot" /\ page[t].forked THEN "conflict" ELSE role

ClaimRead(t) ==
  /\ page[t].pc = "claim" /\ ~LockHeld(t) /\ Claimable(t)
  /\ page' = [page EXCEPT ![t].pc = "claimWrite", ![t].snap = lease, ![t].at = now]
  /\ UNCHANGED <<disk, mirror, heard, counters, ghosts>>

\* Another page holds the lease or the cooperative lock: read-only.
ClaimDenied(t) ==
  /\ page[t].pc = "claim" /\ (LockHeld(t) \/ ~Claimable(t))
  /\ page' = [page EXCEPT ![t] =
       [Idle(page[t]) EXCEPT !.pc = AfterClaim(t, FALSE), !.role = RoleAfterClaim(t, "secondary"),
                       !.token = IF LockHeld(t) THEN page[t].token ELSE lease.token]]
  /\ UNCHANGED <<disk, mirror, heard, counters, ghosts>>

\* writeLease: refused when another page owns the lease beyond the claim's clock.
ClaimWrite(t) ==
  LET p == page[t]
      refused == lease.owner \notin {None, t} /\ lease.until > p.at
      token == IF p.snap.owner = t THEN p.snap.token ELSE p.snap.token + 1
      same == lease.owner = p.snap.owner /\ lease.token = p.snap.token IN
  /\ p.pc = "claimWrite"
  /\ lease' = IF refused THEN lease ELSE [owner |-> t, token |-> token, until |-> p.at + Duration]
  /\ page' = [page EXCEPT ![t] =
       IF refused
       THEN [Idle(p) EXCEPT !.pc = IF p.goal = "boot" THEN "failed" ELSE "run"]
       ELSE [p EXCEPT !.pc = "claimed", !.snap = lease', !.at = 0]]
  /\ hit' = hit \cup (IF refused \/ same THEN {} ELSE {"tie"})
  /\ UNCHANGED <<durable, conflicts, mirror, heard, counters, acked, discarded, overwritten>>

\* The caches are reloaded and the page calls itself primary.
ClaimDone(t) ==
  /\ page[t].pc = "claimed"
  /\ page' = [page EXCEPT ![t] =
       [Idle(page[t]) EXCEPT !.pc = AfterClaim(t, TRUE), !.role = RoleAfterClaim(t, "primary"),
                       !.token = page[t].snap.token, !.cache = Cached,
                       !.pick = page[t].pick, !.stale = page[t].goal = "resolve"]]
  /\ Tell(t, 0)
  /\ UNCHANGED <<disk, mirror, counters, ghosts>>

\* The player loads the primary save.
Load(t) ==
  /\ page[t].pc = "load"
  /\ page' = [page EXCEPT ![t].pc = "run", ![t].game = durable.val]
  /\ UNCHANGED <<disk, mirror, heard, counters, ghosts>>

-----------------------------------------------------------------------------
(* Deliberate takeover: the fence advances even over a live lease. *)

TakeOver(t) ==
  LET token == Larger(page[t].token, lease.token) + 1 IN
  /\ page[t].pc = "run" /\ page[t].role = "secondary" /\ turns < MaxTurns
  /\ lease' = [owner |-> t, token |-> token, until |-> now + Duration]
  /\ page' = [page EXCEPT ![t].pc = "take", ![t].snap = lease']
  /\ turns' = turns + 1
  /\ UNCHANGED <<durable, conflicts, mirror, heard, now, saves, faults, ghosts>>

\* The lease is read back: the page gives up when it was taken over again, or is
\* primary, with the player's consent to save this page's game over the other.
TakeDone(t) ==
  LET own == lease.owner = t /\ lease.token = page[t].snap.token IN
  /\ page[t].pc = "take"
  /\ page' = [page EXCEPT ![t] =
       IF own THEN [Idle(page[t]) EXCEPT !.pc = "run", !.role = "primary", !.cache = Cached,
                                   !.token = lease.token, !.stale = FALSE, !.consent = TRUE]
       ELSE [Idle(page[t]) EXCEPT !.pc = "run"]]
  /\ IF own THEN Tell(t, 0) ELSE UNCHANGED heard
  /\ UNCHANGED <<disk, mirror, counters, ghosts>>

-----------------------------------------------------------------------------
(* Saving with proof: autosave, manual save, the save forced by a takeover. *)

\* A page that is primary only to resolve a conflict plays an older game.
StaleSave(t) ==
  IF page[t].stale THEN {IF page[t].pc = "run" THEN "refused" ELSE "resolving"} ELSE {}

\* A commit of such a page overwrites what its game lacks, without being asked to.
Overwrites(t, val, consent) ==
  overwritten' = IF page[t].stale /\ ~consent THEN overwritten \cup (durable.val \ val)
                 ELSE overwritten

\* The checkpoint, the expected revision and the fence are captured together.
Save(t) ==
  LET p == page[t]  val == p.game \cup {saves + 1} IN
  /\ Mounted(t) /\ p.role = "primary" /\ ~p.away /\ p.proof = None /\ p.queue = None
  /\ saves < MaxSaves
  /\ saves' = saves + 1
  /\ page' = [page EXCEPT ![t].game = val,
                          ![t].proof = [val |-> val, rev |-> p.cache.rev, token |-> p.token,
                                        consent |-> p.consent, written |-> FALSE]]
  /\ hit' = hit \cup StaleSave(t)
  /\ UNCHANGED <<disk, mirror, heard, now, turns, faults, acked, discarded, overwritten>>

Sent(t) == page[t].proof # None /\ ~page[t].proof.written

\* Mutant: the fence is not compared, only the revision.
ProofWithoutFence(t, p) == durable.rev = p.rev

\* leaseMatches, revisionMatchesExpected: a live lease and the expected revision.
ProofAdmitted(t, p) ==
  /\ lease.owner = t /\ lease.token = p.token /\ lease.until > now
  /\ durable.rev = p.rev /\ durable.token <= p.token

\* The persistence Worker's transaction.
ProofCommits(t) ==
  LET p == page[t].proof IN
  /\ Sent(t) /\ ProofAdmitted(t, p)
  /\ durable' = [val |-> p.val, rev |-> p.rev + 1, by |-> t, token |-> p.token]
  /\ lease' = Held(t)
  /\ page' = [page EXCEPT ![t].proof.written = TRUE]
  /\ discarded' = IF p.consent THEN discarded \cup (durable.val \ p.val) ELSE discarded
  /\ Overwrites(t, p.val, p.consent)
  /\ UNCHANGED <<conflicts, mirror, heard, counters, acked, hit>>

\* Refused, or the storage fails: nothing was written, but the caches are
\* reloaded, so a refused save also learns the newer revision.
ProofFails(t) ==
  /\ Sent(t)
  /\ \/ ~ProofAdmitted(t, page[t].proof) /\ faults' = faults
     \/ faults < MaxFaults /\ faults' = faults + 1
  /\ page' = [page EXCEPT ![t].proof = None, ![t].cache = Cached]
  /\ UNCHANGED <<disk, mirror, heard, now, saves, turns, ghosts>>

\* clearPrimarySaveEmergencyMirrorProof: the same save, or an older one of this fence.
Superseded(t, val) ==
  /\ mirror # None
  /\ \/ mirror.val = val
     \/ mirror.by = t /\ mirror.token = page[t].token /\ Newest(mirror.val) <= Newest(val)

\* Read-back in a second transaction; the caches are reloaded whatever it says.
ProofSettles(t) ==
  LET p == page[t].proof
      ok == durable.val = p.val /\ durable.rev = p.rev + 1
            /\ lease.owner = t /\ lease.token = p.token IN
  /\ p # None /\ p.written
  /\ acked' = IF ok THEN acked \cup p.val ELSE acked
  /\ mirror' = IF ok /\ Superseded(t, p.val) THEN None ELSE mirror
  /\ page' = [page EXCEPT ![t].proof = None, ![t].cache = Cached,
                          ![t].consent = @ /\ ~ok]
  /\ IF ok THEN Tell(t, 0) ELSE UNCHANGED heard
  /\ UNCHANGED <<disk, counters, discarded, hit, overwritten>>

-----------------------------------------------------------------------------
(* The save of a page that is being hidden: it cannot wait for a transaction. *)

HideSave(t) ==
  LET p == page[t]  val == p.game \cup {saves + 1}  rev == p.cache.rev + 1 IN
  /\ Mounted(t) /\ p.role = "primary" /\ ~p.away /\ p.queue = None
  /\ saves < MaxSaves
  /\ saves' = saves + 1
  /\ mirror' = [val |-> val, by |-> t, token |-> p.token, rev |-> rev, stale |-> p.stale]
  /\ hit' = hit \cup StaleSave(t)
  /\ page' = [page EXCEPT ![t].away = TRUE, ![t].game = val,
                          ![t].cache = [rev |-> rev, val |-> val],
                          ![t].queue = [val |-> val, base |-> p.cache, written |-> FALSE]]
  /\ UNCHANGED <<disk, heard, now, turns, faults, acked, discarded, overwritten>>

\* restoreFromBfcache
Return(t) ==
  /\ page[t].away
  /\ page' = [page EXCEPT ![t].away = FALSE]
  /\ UNCHANGED <<disk, mirror, heard, counters, ghosts>>

Queued(t) == page[t].queue # None /\ ~page[t].queue.written /\ page[t].proof = None

\* The base must still be the durable save, and the lease the page's own; the
\* lease may have expired.
BaseUnchanged(t) ==
  Owns(t) /\ durable.rev = page[t].queue.base.rev /\ durable.val = page[t].queue.base.val

QueueCommits(t) ==
  LET q == page[t].queue IN
  /\ Queued(t) /\ page[t].role = "primary" /\ BaseUnchanged(t)
  /\ durable' = [val |-> q.val, rev |-> q.base.rev + 1, by |-> t, token |-> lease.token]
  /\ lease' = Held(t)
  /\ page' = [page EXCEPT ![t].queue.written = TRUE]
  /\ discarded' = IF page[t].consent THEN discarded \cup (durable.val \ q.val) ELSE discarded
  /\ Overwrites(t, q.val, page[t].consent)
  /\ UNCHANGED <<conflicts, mirror, heard, counters, acked, hit>>

\* preserveWriteConflict: both copies are kept, the page stops writing.
QueueForks(t) ==
  LET q == page[t].queue IN
  /\ Queued(t) /\ page[t].role = "primary" /\ ~BaseUnchanged(t)
  /\ Len(conflicts) < MaxConflicts
  /\ conflicts' = Append(conflicts, [cand |-> q.val, kept |-> durable.val, open |-> TRUE])
  /\ lease' = IF Owns(t) THEN Held(t) ELSE lease
  /\ page' = [page EXCEPT ![t].queue = None, ![t].cache = Cached,
                          ![t].role = "conflict", ![t].token = lease.token]
  /\ Tell(t, Len(conflicts'))
  /\ UNCHANGED <<durable, mirror, counters, ghosts>>

\* Read-only by now, or the storage fails: the cache is restored.
QueueFails(t) ==
  /\ Queued(t)
  /\ \/ page[t].role # "primary" /\ faults' = faults
     \/ faults < MaxFaults /\ faults' = faults + 1
  /\ page' = [page EXCEPT ![t].queue = None, ![t].cache = page[t].queue.base]
  /\ UNCHANGED <<disk, mirror, heard, now, saves, turns, ghosts>>

\* The commit is read back.  A failed read-back also restores the old cache.
QueueVerified(t) ==
  LET q == page[t].queue  ok == durable.val = q.val IN
  /\ q # None /\ q.written
  /\ acked' = IF ok THEN acked \cup q.val ELSE acked
  /\ page' = [page EXCEPT ![t].queue = None,
       ![t].cache = IF ok THEN [rev |-> Larger(@.rev, q.base.rev + 1), val |-> q.val] ELSE q.base]
  /\ IF ok THEN Tell(t, 0) ELSE UNCHANGED heard
  /\ UNCHANGED <<disk, mirror, counters, discarded, hit, overwritten>>

-----------------------------------------------------------------------------
(* Other pages' messages, the heartbeat and the end of a page. *)

\* refreshAfterRemoteChange: the caches are reloaded, the role follows the lease
\* and the conflicts the messages name.
Refresh(t) ==
  LET foreign == lease.owner \notin {None, t} /\ lease.until > now /\ lease.token >= page[t].token
      forked == \E c \in heard[t] : Open(c) IN
  /\ heard[t] # {} /\ Listening(t)
  /\ page' = [page EXCEPT ![t].cache = Cached,
       ![t].role = IF forked THEN "conflict" ELSE IF foreign THEN "secondary" ELSE @,
       ![t].token = IF forked \/ foreign THEN lease.token ELSE @]
  /\ heard' = [heard EXCEPT ![t] = {}]
  /\ UNCHANGED <<disk, mirror, counters, ghosts>>

\* renewWriterLease: an expired lease is renewed while the record is still this page's.
Heartbeat(t) ==
  /\ Mounted(t) /\ page[t].role = "primary" /\ ~LockHeld(t)
  /\ lease' = IF Owns(t) THEN Held(t) ELSE lease
  /\ page' = IF Owns(t) THEN page
             ELSE [page EXCEPT ![t].role = "secondary", ![t].token = lease.token]
  /\ UNCHANGED <<durable, conflicts, mirror, heard, counters, ghosts>>

\* closeLocalSaveWriter: both queues are quiet and the durable save is the cached
\* one; the page stops writing for good ("unavailable").
Close(t) ==
  /\ page[t].pc = "run" /\ page[t].role = "primary"
  /\ page[t].proof = None /\ page[t].queue = None
  /\ Owns(t) /\ Cached = page[t].cache
  /\ lease' = [lease EXCEPT !.until = now]
  /\ page' = [page EXCEPT ![t] = Blank]
  /\ heard' = [heard EXCEPT ![t] = {}]
  /\ UNCHANGED <<durable, conflicts, mirror, counters, ghosts>>

\* The document is gone: closed, crashed, reloaded.
Die(t) ==
  /\ page[t].pc # "gone"
  /\ page' = [page EXCEPT ![t] = Blank]
  /\ heard' = [heard EXCEPT ![t] = {}]
  /\ UNCHANGED <<disk, mirror, counters, ghosts>>

Tick ==
  /\ now < MaxNow
  /\ now' = now + 1
  /\ UNCHANGED <<disk, mirror, page, heard, saves, turns, faults, ghosts>>

-----------------------------------------------------------------------------
(* The player resolves a conflict: claim, write the choice, verify, clean up. *)

Resolve(t, c, choice) ==
  /\ page[t].pc = "run" /\ turns < MaxTurns
  /\ page[t].role \in {"conflict", "primary"}
  /\ page[t].role = "primary" => page[t].stale
  /\ Open(c) /\ choice \in {conflicts[c].cand, conflicts[c].kept}
  /\ page' = [page EXCEPT ![t].goal = "resolve", ![t].pick = <<c, choice>>,
                          ![t].pc = IF page[t].role = "primary" THEN "resWrite" ELSE "claim"]
  /\ turns' = turns + 1
  /\ hit' = hit \cup (IF page[t].proof = None /\ page[t].queue = None THEN {} ELSE {"resolving"})
  /\ UNCHANGED <<disk, mirror, heard, now, saves, faults, acked, discarded, overwritten>>

\* Mutant: the save is not compared with the copy that was preserved as persisted.
SelectableAnyway(t) == Open(page[t].pick[1]) /\ Owns(t)

\* The record is open, the lease is this page's, and the save is still the one
\* preserved as persisted, or already the chosen one.
Selectable(t) ==
  LET c == page[t].pick[1] IN
  Open(c) /\ Owns(t) /\ durable.val \in {conflicts[c].kept, page[t].pick[2]}

ResWrite(t) ==
  LET choice == page[t].pick[2]
      mine == durable.val = choice /\ durable.by = t /\ durable.token = lease.token IN
  /\ page[t].pc = "resWrite" /\ Selectable(t)
  /\ lease' = Held(t)
  /\ durable' = IF mine THEN durable
                ELSE [val |-> choice, rev |-> durable.rev + 1, by |-> t, token |-> lease.token]
  /\ page' = [page EXCEPT ![t].pc = "resClean", ![t].base = durable']
  /\ UNCHANGED <<conflicts, mirror, heard, counters, ghosts>>

\* A failed resolution leaves the page its role, the lease and its own game.
ResFails(t) ==
  /\ page[t].pc \in {"resWrite", "resClean"}
  /\ page[t].pc = "resWrite" => ~Selectable(t)
  /\ page[t].pc = "resClean" => ~(Open(page[t].pick[1]) /\ Owns(t) /\ durable = page[t].base)
  /\ page' = [page EXCEPT ![t] = [Idle(page[t]) EXCEPT !.pc = "run"]]
  /\ UNCHANGED <<disk, mirror, heard, counters, ghosts>>

\* Both copies are deleted: the one not chosen is given up.
ResClean(t) ==
  LET c == page[t].pick[1] IN
  /\ page[t].pc = "resClean"
  /\ Open(c) /\ Owns(t) /\ durable = page[t].base
  /\ lease' = Held(t)
  /\ conflicts' = [conflicts EXCEPT ![c].open = FALSE]
  /\ discarded' = discarded \cup ((conflicts[c].cand \cup conflicts[c].kept) \ durable.val)
  /\ page' = [page EXCEPT ![t].pc = "release", ![t].role = "primary",
                          ![t].token = lease.token, ![t].cache = Cached]
  /\ Tell(t, 0)
  /\ UNCHANGED <<durable, mirror, counters, acked, hit, overwritten>>

\* releaseWriterLeaseForReload: the page stops being primary and is reloaded.
Release(t) ==
  /\ page[t].pc = "release"
  /\ lease' = IF Owns(t) THEN [lease EXCEPT !.until = now] ELSE lease
  /\ page' = [page EXCEPT ![t] = [Idle(page[t]) EXCEPT !.pc = "leaving", !.role = "initializing"]]
  /\ UNCHANGED <<durable, conflicts, mirror, heard, counters, ghosts>>

-----------------------------------------------------------------------------

Starts(t) == \/ Start(t) \/ AppliesMirror(t) \/ SetsMirrorAside(t)
             \/ ClaimRead(t) \/ ClaimDenied(t) \/ ClaimWrite(t) \/ ClaimDone(t) \/ Load(t)
Takes(t) == TakeOver(t) \/ TakeDone(t)
Writes(t) == \/ Save(t) \/ ProofCommits(t) \/ ProofFails(t) \/ ProofSettles(t)
             \/ HideSave(t) \/ Return(t) \/ QueueCommits(t) \/ QueueForks(t)
             \/ QueueFails(t) \/ QueueVerified(t)
Hears(t) == Refresh(t) \/ Heartbeat(t) \/ Close(t) \/ Die(t)
Resolves(t) == \/ \E c \in DOMAIN conflicts, choice \in Saves : Resolve(t, c, choice)
               \/ ResWrite(t) \/ ResFails(t) \/ ResClean(t) \/ Release(t)

Next ==
  \/ \E t \in Tabs : Starts(t) \/ Takes(t) \/ Writes(t) \/ Hears(t) \/ Resolves(t)
  \/ Tick

Spec == Init /\ [][Next]_vars

-----------------------------------------------------------------------------
(* Properties. *)

\* Every record has its shape: the type invariant.
LocalTypeOK ==
  /\ durable \in [val : Saves, rev : Nat, by : Tabs \cup {None}, token : 0..MaxTurns]
  /\ lease \in [owner : Tabs \cup {None}, token : 0..MaxTurns, until : Nat]
  /\ \A c \in DOMAIN conflicts :
       conflicts[c].cand \in Saves /\ conflicts[c].kept \in Saves /\ conflicts[c].open \in BOOLEAN
  /\ \A t \in Tabs :
       /\ page[t].pc \in PageStates /\ page[t].role \in Roles /\ page[t].token \in 0..MaxTurns
       /\ page[t].game \in Saves /\ page[t].cache.val \in Saves /\ page[t].cache.rev \in Nat
       /\ heard[t] \subseteq 0..MaxConflicts
  /\ acked \in Saves /\ discarded \in Saves
  /\ overwritten \in Saves /\ hit \subseteq Windows

\* The copies still offered to the player.
Aside == UNION {{conflicts[c].cand, conflicts[c].kept} : c \in {d \in DOMAIN conflicts : Open(d)}}

\* A save the player was told is complete is lost in a window or not at all: its
\* progress is in the primary save, in a conflict copy still offered to the
\* player, was given up by the player's own choice, or was overwritten by one of
\* the two kinds of commit the code does not guard: a mirror judged before
\* another page wrote, and the save of a page that resolves a conflict.
AckedSavesSurvive ==
  acked \subseteq durable.val \cup (UNION Aside) \cup discarded \cup overwritten

\* The page that may write plays the line it would overwrite: a primary page
\* that owns the lease has the primary save's progress in its own game, unless
\* the player asked for the takeover, the page is resolving a conflict, or a
\* mirror was committed over what another page had written since it was judged.
PrimaryCarriesLine ==
  "boot" \notin hit =>
    \A t \in Tabs :
      page[t].role = "primary" /\ Mounted(t) /\ Owns(t) /\ ~page[t].stale /\ ~page[t].consent
        => durable.val \subseteq page[t].game

Line == INSTANCE SaveLine WITH line <- durable.val, aside <- Aside, given <- discarded

\* The whole store implements the promise of one line of progress until a page
\* passes through a window other than the tie; the tie does not break it.
ImplementsSaveLine ==
  Line!LineInit /\ [][hit' \subseteq {"tie"} => Line!LineNext]_(Line!lineVars)

\* docs/RELEASE_HANDOFF_1.0.40.md:40: stale saves, and emergency mirrors racing with
\* a refresh, cannot overwrite a newer save that was confirmed.
ConfirmedNeverOverwritten == acked \subseteq durable.val \cup (UNION Aside) \cup discarded

\* The same for runs through one window only (LocalBoot.cfg, LocalRefused.cfg).
BootKeepsConfirmed == hit = {"boot"} => ConfirmedNeverOverwritten
RefusedKeepsConfirmed == hit = {"refused"} => ConfirmedNeverOverwritten
=============================================================================
