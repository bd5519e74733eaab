--------------------------- MODULE NativeSaveStore ---------------------------
(***************************************************************************)
(* One logical slot of the native save store                               *)
(* (native/dsp-native-host/src/save_store.rs): content-addressed chunks, a *)
(* manifest per generation, two alternating superblocks and an append-only *)
(* write-ahead log (WAL).  A call of the store runs alone (every mutating  *)
(* method is reached through the host's single command loop), but it makes *)
(* several durable steps; an I/O error, a crash or media damage may fall   *)
(* between any two of them.                                                *)
(*                                                                         *)
(* Contents are abstracted: a record's value is its chunk (the hash names  *)
(* it), a superblock is the manifest whose digest it carries, and two WAL  *)
(* entries are equal when their range and command are.                     *)
(***************************************************************************)
EXTENDS Integers, Sequences, FiniteSets

CONSTANTS
  Keys,              \* record keys of the slot
  Values,            \* record values, one content-addressed chunk each
  TxIds,             \* transaction ids that may be live together
  Commands,          \* WAL command ids
  None,              \* no record for a key; no transaction
  Damaged,           \* a file that fails authentication, or a generation
                     \* directory without its manifest
  MaxRevision,       \* bound: largest state revision a client reaches
  MaxGeneration,     \* bound: generation numbers before exhaustion
  MaxWalEntries,     \* MAX_WAL_ENTRIES
  MaxDamage,         \* bound: number of media damage events
  DamageKinds,       \* which files the media may damage
  CheckpointAhead,   \* may a checkpoint lie beyond the last journaled entry?
  TruncationMayFail  \* may replacing the WAL with an empty file fail?

Pointers == {"a", "b"}
Generation == 1..MaxGeneration
Revision == 0..MaxRevision
AllDamageKinds == {"pointer", "manifest", "chunk", "walFrame", "walCut"}

\* SaveManifest; prev is 0 when previous_generation is None.
Manifest == [gen: Generation, prev: 0..MaxGeneration, rev: Revision,
             recs: [Keys -> Values \union {None}]]

\* "No manifest": its fields are the defaults the code falls back to
\* (revision 0, no records, no previous generation).
NoManifest == [gen |-> 0, prev |-> 0, rev |-> 0, recs |-> [k \in Keys |-> None]]

\* WalEntry: the operation `cmd` takes the state from `base` to `rev`.
WalEntry == [base: Revision, rev: Revision, cmd: Commands]

ASSUME BoundsAssumption ==
  /\ MaxRevision \in Nat /\ MaxGeneration \in Nat \ {0}
  /\ MaxWalEntries \in Nat /\ MaxDamage \in Nat
  /\ DamageKinds \subseteq AllDamageKinds
  /\ CheckpointAhead \in BOOLEAN /\ TruncationMayFail \in BOOLEAN

ASSUME SentinelAssumption ==
  /\ None \notin Values \union TxIds
  /\ Damaged \notin Manifest \union {NoManifest}

VARIABLES
  \* Durable state.
  super,      \* pointer -> the manifest a superblock names (or NoManifest, Damaged)
  gens,       \* generation -> its directory: a manifest, NoManifest (none) or Damaged
  chunks,     \* value -> "absent", "good" or "bad"
  wal,        \* the complete frames of the WAL file
  walTail,    \* "none" (no file), "clean", "torn" (partial frame), "rotten"
  \* Volatile state of the SaveStore value.
  txs,        \* open SaveTransactions
  cache,      \* verified_manifests: the last manifest read or committed
  uncertain,  \* uncertain_publications: published, never acknowledged
  call,       \* the call in progress
  \* History, read by the properties only.
  ackedCkpt,  \* newest checkpoint reported as success
  ackedOps,   \* WAL entries reported as success
  settled,    \* checkpoint this process opened on or last saw succeed
  damage      \* media damage events so far

disk == <<super, gens, chunks, wal, walTail>>
memory == <<txs, cache, uncertain, call>>
history == <<ackedCkpt, ackedOps, settled, damage>>
vars == <<disk, memory, history>>

-----------------------------------------------------------------------------
(* What a reader finds on disk. *)

\* read_manifest_for_superblock: digest, identity and every referenced chunk.
Verified(m) ==
  /\ m \notin {NoManifest, Damaged}
  /\ gens[m.gen] = m
  /\ \A k \in Keys : m.recs[k] # None => chunks[m.recs[k]] = "good"

Candidate(s) == IF Verified(super[s]) THEN super[s] ELSE NoManifest

Candidates == {Candidate(s) : s \in Pointers} \ {NoManifest}

\* scan_published_manifests(..).pop()
Newest == IF Candidate("a").gen >= Candidate("b").gen
            THEN Candidate("a") ELSE Candidate("b")

OrderConsistent ==
  \A m, n \in Candidates : m.gen < n.gen => m.rev <= n.rev /\ n.prev = m.gen

\* Mutant: a generation that does not verify is simply passed over.
InvalidIsOlderUnchecked(s) == TRUE

\* A pointer whose generation does not verify is passed over only when it is
\* provably older than the newest generation that does.
InvalidIsOlder(s) ==
  super[s] # NoManifest /\ ~Verified(super[s]) =>
    super[s].gen < Newest.gen /\ super[s].rev <= Newest.rev

\* scan_published_manifests returns Ok.
ScanSucceeds ==
  /\ \A s \in Pointers : super[s] # Damaged
  /\ OrderConsistent
  /\ \A s \in Pointers : InvalidIsOlder(s)

\* recover_manifest: the cached manifest, else a scan.
ManifestReadable == cache # NoManifest \/ ScanSucceeds
Recovered == IF cache # NoManifest THEN cache ELSE Newest

Entries(w) == {w[i] : i \in 1..Len(w)}

\* scan_wal accepts the complete frames: every adjacent pair is contiguous
\* and no command repeats.
ChainValid(w) ==
  /\ \A i \in 1..Len(w) : w[i].base < w[i].rev
  /\ \A i \in 1..(Len(w) - 1) : w[i + 1].base = w[i].rev
  /\ \A i, j \in 1..Len(w) : i # j => w[i].cmd # w[j].cmd

\* scan_wal(repair_torn_tail = TRUE) and scan_wal(FALSE).
WalRepairable == walTail # "rotten" /\ ChainValid(wal)
WalScans == WalRepairable /\ walTail # "torn"
Repaired(tail) == IF tail = "torn" THEN "clean" ELSE tail

IsActive(e, rev) == e.rev > rev
HasActive(w, rev) == \E e \in Entries(w) : IsActive(e, rev)

\* active_wal_entries returns Ok: the first entry past the checkpoint starts
\* at it (later ones follow from ChainValid).
ActiveContinues(w, rev) ==
  \A i \in 1..Len(w) :
    IsActive(w[i], rev) /\ (\A j \in 1..(i - 1) : ~IsActive(w[j], rev))
      => w[i].base = rev

\* Mutant: operations start from the checkpoint, not from the last entry.
HeadRevisionIgnoringWal(w, rev) == rev

\* The revision the next operation has to start from.
HeadRevision(w, rev) == IF HasActive(w, rev) THEN w[Len(w)].rev ELSE rev

\* converge_verified_wal: the possible contents after trying to empty a WAL
\* the checkpoint covers.
Converged(w, rev) ==
  IF HasActive(w, rev) \/ w = <<>> THEN {w}
  ELSE {<<>>} \union (IF TruncationMayFail THEN {w} ELSE {})

-----------------------------------------------------------------------------

NoTransaction == [open |-> FALSE, rev |-> 0, base |-> NoManifest,
                  recs |-> NoManifest.recs]

IdleCall == [pc |-> "idle", tx |-> None, man |-> NoManifest, seen |-> <<>>,
             doomed |-> {}, trash |-> {}]

Idle == call.pc = "idle"

Init ==
  /\ super = [s \in Pointers |-> NoManifest]
  /\ gens = [g \in Generation |-> NoManifest]
  /\ chunks = [v \in Values |-> "absent"]
  /\ wal = <<>> /\ walTail = "none"
  /\ txs = [t \in TxIds |-> NoTransaction]
  /\ cache = NoManifest
  /\ uncertain = [t \in TxIds |-> NoManifest]
  /\ call = IdleCall
  /\ ackedCkpt = NoManifest /\ ackedOps = {} /\ settled = NoManifest /\ damage = 0

-----------------------------------------------------------------------------
(* Building a transaction. *)

\* Ids come from a counter, so a live or unreconciled one is never reused.
FreshTx(t) == ~txs[t].open /\ uncertain[t] = NoManifest

BeginSave(t) ==
  /\ Idle /\ FreshTx(t) /\ ManifestReadable
  /\ \E rev \in Revision :
       /\ rev >= Recovered.rev
       /\ txs' = [txs EXCEPT ![t] = [open |-> TRUE, rev |-> rev,
                                     base |-> Recovered, recs |-> Recovered.recs]]
  /\ cache' = Recovered
  /\ UNCHANGED <<disk, uncertain, call, history>>

\* put_batch: the chunk is durable first; damage to a reused chunk is an
\* error.  A batch that fails later leaves its chunks and not its records.
PutRecord(t, k, v) ==
  /\ Idle /\ txs[t].open
  /\ chunks[v] # "bad"
  /\ chunks' = [chunks EXCEPT ![v] = "good"]
  /\ \/ txs' = [txs EXCEPT ![t].recs[k] = v]
     \/ UNCHANGED txs
  /\ UNCHANGED <<super, gens, wal, walTail, cache, uncertain, call, history>>

RemoveRecord(t, k) ==
  /\ Idle /\ txs[t].open
  /\ txs' = [txs EXCEPT ![t].recs[k] = None]
  /\ UNCHANGED <<disk, cache, uncertain, call, history>>

AbortSave(t) ==
  /\ Idle /\ txs[t].open
  /\ txs' = [txs EXCEPT ![t] = NoTransaction]
  /\ UNCHANGED <<disk, cache, uncertain, call, history>>

-----------------------------------------------------------------------------
(* Committing: check, manifest, superblock, readback and acknowledgement. *)

Directories == {g \in Generation : gens[g] # NoManifest}

\* Mutant: the counter is not checked for exhaustion.
UnusedUnbounded(prev) ==
  {g \in 1..(MaxGeneration + 2) : /\ g > prev
                                  /\ \A h \in Directories : g > h
                                  /\ prev # 0 => g % 2 # prev % 2}

\* next_generation: past every directory and the base, at the parity whose
\* superblock the base does not occupy.
Unused(prev) ==
  {g \in Generation : /\ g > prev
                      /\ \A h \in Directories : g > h
                      /\ prev # 0 => g % 2 # prev % 2}

\* Client assumption: the checkpointed revision does not pass the last frame
\* in the WAL, as for a client that journals every operation.
Journaled(rev) == ~CheckpointAhead /\ wal # <<>> => rev <= wal[Len(wal)].rev

\* The manifest commit is about to write, as generation g.
Prepared(t, g) ==
  [IdleCall EXCEPT !.pc = "manifest", !.tx = t, !.seen = wal,
     !.man = [gen |-> g, prev |-> txs[t].base.gen,
              rev |-> txs[t].rev, recs |-> txs[t].recs]]

\* Mutant: the base is not compared at commit.
BaseUnchecked(t) == TRUE

\* The base a transaction was begun on is still the newest publication.
BaseIsCurrent(t) == Newest = txs[t].base

\* Mutant: a checkpoint may land inside an operation.
BoundaryUnchecked(rev) == TRUE

\* The checkpoint ends on an operation's boundary.
BoundaryRespected(rev) == ActiveContinues(wal, rev)

\* The transaction is consumed whatever happens next.  The base is compared
\* with a fresh scan, not with the cache; a torn WAL tail is repaired.
CommitCheck(t) ==
  /\ Idle /\ txs[t].open /\ Journaled(txs[t].rev)
  /\ txs' = [txs EXCEPT ![t] = NoTransaction]
  /\ IF ScanSucceeds /\ BaseIsCurrent(t) /\ WalRepairable
       THEN /\ walTail' = Repaired(walTail)
            /\ IF BoundaryRespected(txs[t].rev) /\ Unused(txs[t].base.gen) # {}
                 THEN \E g \in Unused(txs[t].base.gen) :
                        /\ \A h \in Unused(txs[t].base.gen) : g <= h
                        /\ call' = Prepared(t, g)
                 ELSE UNCHANGED call
       ELSE UNCHANGED <<walTail, call>>
  /\ UNCHANGED <<super, gens, chunks, wal, cache, uncertain, history>>

CommitManifest ==
  /\ call.pc = "manifest"
  /\ gens' = [gens EXCEPT ![call.man.gen] = call.man]
  /\ call' = [call EXCEPT !.pc = "publish"]
  /\ UNCHANGED <<super, chunks, wal, walTail, txs, cache, uncertain, history>>

PointerFor(g) == IF g % 2 = 0 THEN "a" ELSE "b"

\* Mutant: the cache outlives the pointer it was read from.
CommitPublishKeepingCache ==
  /\ call.pc = "publish"
  /\ super' = [super EXCEPT ![PointerFor(call.man.gen)] = call.man]
  /\ uncertain' = [uncertain EXCEPT ![call.tx] = call.man]
  /\ call' = [call EXCEPT !.pc = "verify"]
  /\ UNCHANGED <<gens, chunks, wal, walTail, txs, cache, history>>

CommitPublish ==
  /\ call.pc = "publish"
  /\ super' = [super EXCEPT ![PointerFor(call.man.gen)] = call.man]
  /\ uncertain' = [uncertain EXCEPT ![call.tx] = call.man]
  /\ cache' = NoManifest
  /\ call' = [call EXCEPT !.pc = "verify"]
  /\ UNCHANGED <<gens, chunks, wal, walTail, txs, history>>

\* The pointer still names the manifest, it verifies, and the WAL is the one
\* that was checked.  Emptying the WAL is best effort: its failure is reported
\* as pending maintenance, not as a failed checkpoint.
CommitAck ==
  /\ call.pc = "verify"
  /\ super[PointerFor(call.man.gen)] = call.man /\ Verified(call.man)
  /\ WalScans /\ wal = call.seen
  /\ wal' \in Converged(wal, call.man.rev)
  /\ cache' = call.man
  /\ uncertain' = [uncertain EXCEPT ![call.tx] = NoManifest]
  /\ ackedCkpt' = call.man /\ settled' = call.man
  /\ call' = IdleCall
  /\ UNCHANGED <<super, gens, chunks, walTail, txs, ackedOps, damage>>

\* Mutant: a failing commit forgets its publication marker.
CommitFailsForgetting ==
  /\ call.pc \in {"manifest", "publish", "verify"}
  /\ uncertain' = [uncertain EXCEPT ![call.tx] = NoManifest]
  /\ call' = IdleCall
  /\ UNCHANGED <<disk, txs, cache, history>>

\* An I/O error (or the process dying) inside a step of commit: before the
\* manifest is complete its directory may exist without it, or the manifest
\* may be complete and the error come from the directory flush.
CommitFails ==
  /\ call.pc \in {"manifest", "publish", "verify"}
  /\ \/ UNCHANGED gens
     \/ /\ call.pc = "manifest"
        /\ gens' = [gens EXCEPT ![call.man.gen] = Damaged]
     \/ /\ call.pc = "manifest"
        /\ gens' = [gens EXCEPT ![call.man.gen] = call.man]
  /\ call' = IdleCall
  /\ UNCHANGED <<super, chunks, wal, walTail, txs, cache, uncertain, history>>

\* A response lost after publication is upgraded to success only when a fresh
\* scan shows the marked manifest is the newest one.
Reconcile(t) ==
  /\ Idle /\ uncertain[t] # NoManifest
  /\ ScanSucceeds /\ Newest = uncertain[t]
  /\ cache' = Newest
  /\ uncertain' = [uncertain EXCEPT ![t] = NoManifest]
  /\ ackedCkpt' = Newest /\ settled' = Newest
  /\ UNCHANGED <<disk, txs, call, ackedOps, damage>>

-----------------------------------------------------------------------------
(* The write-ahead log. *)

\* The contents an append extends: a WAL the checkpoint covers is emptied
\* first, if that works.
Maintained(ck) == Converged(wal, ck)

\* append_wal_internal.  A command already in the file is answered from it
\* (idempotent callers) or refused.  Otherwise a covered WAL is emptied first
\* (best effort) and the frame is written and flushed; an error may leave
\* nothing, a partial frame, or a complete frame nobody was told about.
AppendWal(c, base, rev, idempotent) ==
  LET e == [base |-> base, rev |-> rev, cmd |-> c]
      ck == Recovered.rev
      exists == IF walTail = "none" THEN "none" ELSE "clean"
  IN
  /\ Idle /\ ManifestReadable /\ WalRepairable
  /\ cache' = Recovered
  /\ \/ /\ \E f \in Entries(wal) : f.cmd = c
        /\ walTail' = exists /\ UNCHANGED wal
        /\ ackedOps' = IF idempotent /\ e \in Entries(wal)
                         THEN ackedOps \union {e} ELSE ackedOps
     \/ /\ \A f \in Entries(wal) : f.cmd # c
        /\ \E w \in Maintained(ck) :
             IF /\ ActiveContinues(w, ck)
                /\ base = HeadRevision(w, ck) /\ rev > base
                /\ Len(w) < MaxWalEntries
               THEN \/ /\ wal' = Append(w, e) /\ walTail' = "clean"
                       /\ ackedOps' = ackedOps \union {e}
                    \/ /\ wal' = Append(w, e) /\ walTail' = "clean"
                       /\ UNCHANGED ackedOps
                    \/ /\ wal' = w /\ exists = "clean" /\ walTail' = "torn"
                       /\ UNCHANGED ackedOps
                    \/ /\ wal' = w /\ walTail' = exists /\ UNCHANGED ackedOps
               ELSE wal' = w /\ walTail' = exists /\ UNCHANGED ackedOps
  /\ UNCHANGED <<super, gens, chunks, txs, uncertain, call, ackedCkpt, settled,
                 damage>>

\* Mutant: repairing a torn tail also drops the last complete frame.
RecoverDroppingFrame ==
  /\ Idle /\ ManifestReadable /\ Recovered # NoManifest /\ WalRepairable
  /\ cache' = Recovered
  /\ walTail' = Repaired(walTail)
  /\ wal' = IF walTail = "torn" THEN SubSeq(wal, 1, Len(wal) - 1) ELSE wal
  /\ UNCHANGED <<super, gens, chunks, txs, uncertain, call, history>>

\* recover: find the checkpoint, repair a torn tail, and empty a WAL the
\* checkpoint covers.  find_wal_command and read_wal do the repair alone.
Recover ==
  /\ Idle /\ ManifestReadable /\ Recovered # NoManifest /\ WalRepairable
  /\ cache' = Recovered
  /\ walTail' = Repaired(walTail)
  /\ wal' \in Converged(wal, Recovered.rev)
  /\ UNCHANGED <<super, gens, chunks, txs, uncertain, call, history>>

ReadWal ==
  /\ Idle /\ WalRepairable
  /\ walTail' = Repaired(walTail)
  /\ UNCHANGED <<super, gens, chunks, wal, memory, history>>

-----------------------------------------------------------------------------
(* Compaction. *)

\* The generations two verified superblocks prove, and then the newest other
\* directories up to the requested count.
Protected(retain) ==
  LET proved == {m.gen : m \in Candidates}
  IN  proved \union
      {g \in Directories :
         Cardinality(proved \union {h \in Directories : h > g}) < retain}

\* Mutant: compaction runs beside an open transaction.
CompactPlanUnguarded(retain) ==
  /\ Idle
  /\ ScanSucceeds /\ Cardinality(Candidates) >= 2
  /\ call' = [IdleCall EXCEPT !.pc = "removing",
                              !.doomed = Directories \ Protected(retain)]
  /\ UNCHANGED <<disk, txs, cache, uncertain, history>>

CompactPlan(retain) ==
  /\ Idle
  /\ \A t \in TxIds : ~txs[t].open
  /\ ScanSucceeds /\ Cardinality(Candidates) >= 2
  /\ call' = [IdleCall EXCEPT !.pc = "removing",
                              !.doomed = Directories \ Protected(retain)]
  /\ UNCHANGED <<disk, txs, cache, uncertain, history>>

\* Oldest first.
CompactRemove(g) ==
  /\ call.pc = "removing" /\ g \in call.doomed
  /\ \A h \in call.doomed : g <= h
  /\ gens' = [gens EXCEPT ![g] = NoManifest]
  /\ call' = [call EXCEPT !.doomed = @ \ {g}]
  /\ UNCHANGED <<super, chunks, wal, walTail, txs, cache, uncertain, history>>

\* collect_unreferenced_chunks keeps what any decodable manifest refers to.
Referenced ==
  {v \in Values : \E g \in Directories :
     gens[g] # Damaged /\ \E k \in Keys : gens[g].recs[k] = v}

CompactPlanSweep ==
  /\ call.pc = "removing" /\ call.doomed = {}
  /\ call' = [call EXCEPT !.pc = "sweeping",
                !.trash = {v \in Values : chunks[v] # "absent"} \ Referenced]
  /\ UNCHANGED <<disk, txs, cache, uncertain, history>>

CompactSweep(v) ==
  /\ call.pc = "sweeping" /\ v \in call.trash
  /\ chunks' = [chunks EXCEPT ![v] = "absent"]
  /\ call' = [call EXCEPT !.trash = @ \ {v}]
  /\ UNCHANGED <<super, gens, wal, walTail, txs, cache, uncertain, history>>

\* Compaction returns, done or stopped by an error, which may leave one
\* directory half removed.
CompactEnds ==
  /\ call.pc \in {"removing", "sweeping"}
  /\ \/ UNCHANGED gens
     \/ \E g \in call.doomed :
          /\ \A h \in call.doomed : g <= h
          /\ gens' = [gens EXCEPT ![g] = Damaged]
  /\ call' = IdleCall
  /\ UNCHANGED <<super, chunks, wal, walTail, txs, cache, uncertain, history>>

-----------------------------------------------------------------------------
(* The environment. *)

\* The process ends, at any point of a call, and opens the root again.  What
\* the interrupted step left behind is an outcome of the failing steps above.
Crash ==
  /\ txs' = [t \in TxIds |-> NoTransaction]
  /\ cache' = NoManifest
  /\ uncertain' = [t \in TxIds |-> NoManifest]
  /\ call' = IdleCall
  /\ settled' = Newest
  /\ UNCHANGED <<disk, ackedCkpt, ackedOps, damage>>

\* Media damage.  A flipped bit in a frame's body is caught by its checksum
\* ("walFrame"); a frame length that now reaches past the end of the file
\* reads as a torn tail, and a file cut between two frames reads as a shorter
\* file ("walCut").
MediaDamage ==
  /\ damage < MaxDamage /\ damage' = damage + 1
  /\ \/ /\ "pointer" \in DamageKinds
        /\ \E s \in Pointers :
             /\ super[s] # NoManifest
             /\ super' = [super EXCEPT ![s] = Damaged]
        /\ UNCHANGED <<gens, chunks, wal, walTail>>
     \/ /\ "manifest" \in DamageKinds
        /\ \E g \in Directories : gens' = [gens EXCEPT ![g] = Damaged]
        /\ UNCHANGED <<super, chunks, wal, walTail>>
     \/ /\ "chunk" \in DamageKinds
        /\ \E v \in Values :
             /\ chunks[v] = "good"
             /\ chunks' = [chunks EXCEPT ![v] = "bad"]
        /\ UNCHANGED <<super, gens, wal, walTail>>
     \/ /\ "walFrame" \in DamageKinds
        /\ wal # <<>>
        /\ walTail' = "rotten"
        /\ UNCHANGED <<super, gens, chunks, wal>>
     \/ /\ "walCut" \in DamageKinds /\ walTail # "rotten"
        /\ \E i \in 1..Len(wal) : wal' = SubSeq(wal, 1, i - 1)
        /\ walTail' \in {"torn", "clean"}
        /\ UNCHANGED <<super, gens, chunks>>
  /\ UNCHANGED <<memory, ackedCkpt, ackedOps, settled>>

-----------------------------------------------------------------------------

Commit ==
  (\E t \in TxIds : CommitCheck(t)) \/ CommitManifest \/ CommitPublish
    \/ CommitAck \/ CommitFails

Compact ==
  \/ \E retain \in 2..3 : CompactPlan(retain)
  \/ \E g \in Generation : CompactRemove(g)
  \/ CompactPlanSweep
  \/ \E v \in Values : CompactSweep(v)
  \/ CompactEnds

Next ==
  \/ \E t \in TxIds : BeginSave(t) \/ AbortSave(t) \/ Reconcile(t)
  \/ \E t \in TxIds, k \in Keys, v \in Values : PutRecord(t, k, v)
  \/ \E t \in TxIds, k \in Keys : RemoveRecord(t, k)
  \/ Commit
  \/ \E c \in Commands, base \in Revision, idempotent \in BOOLEAN :
       \E rev \in (base + 1)..MaxRevision : AppendWal(c, base, rev, idempotent)
  \/ Recover \/ ReadWal
  \/ Compact
  \/ Crash
  \/ MediaDamage

Spec == Init /\ [][Next]_vars

-----------------------------------------------------------------------------
(* Properties. *)

Transaction == [open: BOOLEAN, rev: Revision, base: Manifest \union {NoManifest},
                recs: [Keys -> Values \union {None}]]

\* Every variable has the shape its Rust counterpart has.
TypeOK ==
  /\ super \in [Pointers -> Manifest \union {NoManifest, Damaged}]
  /\ gens \in [Generation -> Manifest \union {NoManifest, Damaged}]
  /\ chunks \in [Values -> {"absent", "good", "bad"}]
  /\ wal \in Seq(WalEntry)
  /\ walTail \in {"none", "clean", "torn", "rotten"}
  /\ txs \in [TxIds -> Transaction]
  /\ cache \in Manifest \union {NoManifest}
  /\ uncertain \in [TxIds -> Manifest \union {NoManifest}]
  /\ call \in [pc: {"idle", "manifest", "publish", "verify", "removing", "sweeping"},
               tx: TxIds \union {None}, man: Manifest \union {NoManifest},
               seen: Seq(WalEntry), doomed: SUBSET Generation, trash: SUBSET Values]
  /\ call.pc \in {"manifest", "publish", "verify"}
       => call.tx \in TxIds /\ call.man \in Manifest
  /\ ackedCkpt \in Manifest \union {NoManifest}
  /\ ackedOps \subseteq WalEntry
  /\ settled \in Manifest \union {NoManifest}
  /\ damage \in 0..MaxDamage

\* Whatever was damaged, recovery either refuses or returns a checkpoint at
\* least as new as the last one reported as saved: it never falls back to an
\* older generation or revision (scan_published_manifests, recover).
NoSilentRollback ==
  ScanSucceeds => Newest.gen >= ackedCkpt.gen /\ Newest.rev >= ackedCkpt.rev

\* When recovery succeeds, every operation reported as journaled is in the
\* checkpoint's past or still in the WAL to be replayed.
AckedOperationsRecoverable ==
  ScanSucceeds /\ WalRepairable =>
    \A e \in ackedOps : e.rev <= Newest.rev \/ e \in Entries(wal)

\* Two acknowledged operations never claim overlapping revision ranges: the
\* journal a client was told about is one line of history, across retries,
\* crashes, checkpoints and reused command ids.
AckedOperationsLinear ==
  \A e, f \in ackedOps : e # f => e.rev <= f.base \/ f.rev <= e.base

\* Without media damage the slot always recovers: both pointers authenticate,
\* the generations are ordered, the whole WAL scans, and its active part
\* starts at the checkpoint.
AlwaysRecoverable ==
  ScanSucceeds /\ WalRepairable /\ ActiveContinues(wal, Newest.rev)

\* Without media damage each published superblock refers to a generation that
\* verifies down to its chunks, at every step of a commit, of a compaction
\* and of the chunk sweep: the active checkpoint and its fallback survive.
PublishedGenerationsIntact ==
  \A s \in Pointers : super[s] # NoManifest => Verified(super[s])

\* The cached manifest, which begin, append and recover trust without reading
\* the disk, is the newest publication, also after a failed commit.
CacheIsNewest == cache # NoManifest => cache = Newest

\* A publication whose success was never reported stays claimable: unless the
\* process restarted, its transaction holds the marker reconciliation needs.
LostAckClaimable ==
  \/ Newest = settled
  \/ \E t \in TxIds : uncertain[t] = Newest

\* Publications form one line: a new newest generation names the previous one
\* as its base and never moves the revision back, so of two transactions
\* begun on the same base at most one is ever published.
PublicationLineage ==
  [][Newest' # Newest => Newest'.prev = Newest.gen /\ Newest'.rev >= Newest.rev]_vars

-----------------------------------------------------------------------------
(* Refinement: the slot a client sees. *)

\* How many entries at the head of a log a checkpoint covers, and the others.
CoveredCount(w, rev) ==
  CHOOSE n \in 0..Len(w) : /\ \A i \in 1..n : ~IsActive(w[i], rev)
                           /\ n < Len(w) => IsActive(w[n + 1], rev)

ToReplay(w, rev) == SubSeq(w, CoveredCount(w, rev) + 1, Len(w))

Slot == INSTANCE DurableSlot WITH
  Contents <- [Keys -> Values \union {None}],
  Empty <- NoManifest.recs,
  Ops <- WalEntry,
  revision <- Newest.rev,
  contents <- Newest.recs,
  log <- ToReplay(wal, Newest.rev)

\* Crashes, I/O errors, retries and compaction are invisible to a client of
\* the slot except as steps of the abstract one: chunks-then-manifest-then-
\* superblock publication is one atomic checkpoint, and a WAL truncation
\* loses nothing.
ImplementsDurableSlot == Slot!Spec

=============================================================================
