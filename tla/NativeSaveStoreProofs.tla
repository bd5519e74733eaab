------------------------ MODULE NativeSaveStoreProofs ------------------------
(***************************************************************************)
(* Proofs, for every value of the constants, of properties TLC checks on    *)
(* small instances of NativeSaveStore.                                      *)
(*                                                                          *)
(* Whatever is damaged: types, and no silent rollback.  When the media      *)
(* damage nothing: publications form one line whose two newest generations  *)
(* stay readable at every step of a commit, a compaction and a crash, and   *)
(* the journal continues it without losing an operation that was reported   *)
(* as journaled.                                                            *)
(*                                                                          *)
(* The publication invariant knows what a commit in progress may assume of  *)
(* the two superblocks (Committing) and what a compaction may not touch     *)
(* (Compacting).  The journal invariant adds where the log stands relative  *)
(* to the checkpoint, and to the one a commit is about to publish.          *)
(***************************************************************************)
EXTENDS NativeSaveStore, TLAPS, WellFoundedInduction, SequenceTheorems

\* A manifest or the absence of one.
ManifestOrNone == Manifest \union {NoManifest}

LEMMA NoManifestFields ==
  /\ NoManifest.gen = 0 /\ NoManifest.prev = 0 /\ NoManifest.rev = 0
  /\ NoManifest.recs = [k \in Keys |-> None]
  /\ NoManifest \notin Manifest
  BY DEF NoManifest, Manifest, Generation

LEMMA ManifestFields ==
  ASSUME NEW m \in ManifestOrNone
  PROVE  /\ m.gen \in 0..MaxGeneration /\ m.prev \in 0..MaxGeneration
         /\ m.rev \in Revision
         /\ m.recs \in [Keys -> Values \union {None}]
  BY NoManifestFields, BoundsAssumption
     DEF ManifestOrNone, Manifest, Generation, Revision

\* A scan, and hence recover_manifest, yields a manifest or nothing.
LEMMA CandidateType ==
  ASSUME TypeOK, NEW s \in Pointers
  PROVE  Candidate(s) \in ManifestOrNone
  BY DEF TypeOK, Candidate, Verified, ManifestOrNone

LEMMA RecoveredType ==
  ASSUME TypeOK
  PROVE  Newest \in ManifestOrNone /\ Recovered \in ManifestOrNone
  BY CandidateType DEF TypeOK, Newest, Recovered, Pointers, ManifestOrNone

\* Emptying a WAL leaves it as it was or empty.
LEMMA ConvergedIsWalOrEmpty ==
  ASSUME NEW w, NEW rev, NEW x \in Converged(w, rev)
  PROVE  x = w \/ x = <<>>
  <1>1. CASE HasActive(w, rev) \/ w = <<>>
    BY <1>1 DEF Converged
  <1>2. CASE ~(HasActive(w, rev) \/ w = <<>>) /\ TruncationMayFail
    BY <1>2 DEF Converged
  <1>3. CASE ~(HasActive(w, rev) \/ w = <<>>) /\ ~TruncationMayFail
    BY <1>3 DEF Converged
  <1> QED
    BY <1>1, <1>2, <1>3

LEMMA ConvergedType ==
  ASSUME NEW w \in Seq(WalEntry), NEW rev, NEW x \in Converged(w, rev)
  PROVE  x \in Seq(WalEntry)
  BY ConvergedIsWalOrEmpty, EmptySeq

\* The initial state of a store that was just opened on an empty root.
LEMMA InitTypeOK == Init => TypeOK
  <1> SUFFICES ASSUME Init PROVE TypeOK
    OBVIOUS
  <1>1. NoTransaction \in Transaction
    BY NoManifestFields, BoundsAssumption
       DEF NoTransaction, Transaction, Revision
  <1>2. IdleCall \in [pc: {"idle", "manifest", "publish", "verify", "removing", "sweeping"},
               tx: TxIds \union {None}, man: Manifest \union {NoManifest},
               seen: Seq(WalEntry), doomed: SUBSET Generation, trash: SUBSET Values]
    BY DEF IdleCall
  <1>3. IdleCall.pc = "idle"
    BY DEF IdleCall
  <1> QED
    BY <1>1, <1>2, <1>3, BoundsAssumption DEF Init, TypeOK

\* The record of the call in progress.
CallShape ==
  [pc: {"idle", "manifest", "publish", "verify", "removing", "sweeping"},
   tx: TxIds \union {None}, man: Manifest \union {NoManifest},
   seen: Seq(WalEntry), doomed: SUBSET Generation, trash: SUBSET Values]

LEMMA IdleCallType == IdleCall \in CallShape /\ IdleCall.pc = "idle"
  BY DEF IdleCall, CallShape

LEMMA NoTransactionType == NoTransaction \in Transaction
  BY NoManifestFields, BoundsAssumption DEF NoTransaction, Transaction, Revision

LEMMA PreparedType ==
  ASSUME TypeOK, NEW t \in TxIds, NEW g \in Generation
  PROVE  /\ Prepared(t, g) \in CallShape
         /\ Prepared(t, g).tx \in TxIds /\ Prepared(t, g).man \in Manifest
         /\ Prepared(t, g).pc = "manifest"
  <1>1. txs[t] \in Transaction
    BY DEF TypeOK
  <1>2. txs[t].base \in ManifestOrNone /\ txs[t].rev \in Revision
        /\ txs[t].recs \in [Keys -> Values \union {None}]
    BY <1>1 DEF Transaction, ManifestOrNone
  <1>3. txs[t].base.gen \in 0..MaxGeneration
    BY <1>2, ManifestFields
  <1>4. [gen |-> g, prev |-> txs[t].base.gen,
         rev |-> txs[t].rev, recs |-> txs[t].recs] \in Manifest
    BY <1>2, <1>3 DEF Manifest
  <1>5. wal \in Seq(WalEntry)
    BY DEF TypeOK
  <1> QED
    BY <1>4, <1>5, IdleCallType DEF Prepared, CallShape, IdleCall

\* Putting or removing one record of a transaction.
LEMMA RecordChangeType ==
  ASSUME TypeOK, NEW t \in TxIds, NEW k \in Keys, NEW v \in Values \union {None}
  PROVE  [txs EXCEPT ![t].recs[k] = v] \in [TxIds -> Transaction]
  <1>1. txs \in [TxIds -> Transaction] /\ txs[t] \in Transaction
    BY DEF TypeOK
  <1>2. [txs[t].recs EXCEPT ![k] = v] \in [Keys -> Values \union {None}]
    BY <1>1 DEF Transaction
  <1>3. [txs[t] EXCEPT !.recs = [txs[t].recs EXCEPT ![k] = v]] \in Transaction
    BY <1>1, <1>2 DEF Transaction
  <1> QED
    BY <1>1, <1>3

\* Every step keeps every variable in its type.
LEMMA NextTypeOK == TypeOK /\ [Next]_vars => TypeOK'
  <1> SUFFICES ASSUME TypeOK, [Next]_vars PROVE TypeOK'
    OBVIOUS
  <1> USE DEF CallShape, ManifestOrNone
  <1>1. ASSUME NEW t \in TxIds, BeginSave(t) PROVE TypeOK'
    <2>1. PICK rev \in Revision :
            txs' = [txs EXCEPT ![t] = [open |-> TRUE, rev |-> rev,
                                       base |-> Recovered, recs |-> Recovered.recs]]
      BY <1>1 DEF BeginSave
    <2>2. [open |-> TRUE, rev |-> rev, base |-> Recovered, recs |-> Recovered.recs]
            \in Transaction
      BY RecoveredType, ManifestFields DEF Transaction
    <2>3. txs' \in [TxIds -> Transaction]
      BY <2>1, <2>2 DEF TypeOK
    <2> QED
      BY <1>1, <2>3, RecoveredType DEF BeginSave, TypeOK, disk, history
  <1>2. ASSUME NEW t \in TxIds, AbortSave(t) PROVE TypeOK'
    BY <1>2, NoTransactionType DEF AbortSave, TypeOK, disk, history
  <1>3. ASSUME NEW t \in TxIds, Reconcile(t) PROVE TypeOK'
    BY <1>3, RecoveredType DEF Reconcile, TypeOK, disk
  <1>4. ASSUME NEW t \in TxIds, NEW k \in Keys, NEW v \in Values, PutRecord(t, k, v)
        PROVE  TypeOK'
    <2>1. txs' \in [TxIds -> Transaction]
      <3>1. txs' = [txs EXCEPT ![t].recs[k] = v] \/ txs' = txs
        BY <1>4 DEF PutRecord
      <3>2. [txs EXCEPT ![t].recs[k] = v] \in [TxIds -> Transaction]
        BY RecordChangeType
      <3> QED
        BY <3>1, <3>2 DEF TypeOK
    <2>2. chunks' \in [Values -> {"absent", "good", "bad"}]
      BY <1>4 DEF PutRecord, TypeOK
    <2> QED
      BY <1>4, <2>1, <2>2 DEF PutRecord, TypeOK, history
  <1>5. ASSUME NEW t \in TxIds, NEW k \in Keys, RemoveRecord(t, k) PROVE TypeOK'
    <2>1. txs' \in [TxIds -> Transaction]
      BY <1>5, RecordChangeType DEF RemoveRecord
    <2> QED
      BY <1>5, <2>1 DEF RemoveRecord, TypeOK, disk, history
  <1>6. ASSUME NEW t \in TxIds, CommitCheck(t) PROVE TypeOK'
    <2>1. txs' \in [TxIds -> Transaction]
      BY <1>6, NoTransactionType DEF CommitCheck, TypeOK
    <2>2. walTail' \in {"none", "clean", "torn", "rotten"}
      BY <1>6 DEF CommitCheck, TypeOK, Repaired
    <2>3. call' = call \/ \E g \in Generation : call' = Prepared(t, g)
      BY <1>6 DEF CommitCheck, Unused
    <2>4. /\ call' \in CallShape
          /\ call'.pc \in {"manifest", "publish", "verify"}
               => call'.tx \in TxIds /\ call'.man \in Manifest
      BY <2>3, PreparedType DEF TypeOK
    <2> QED
      BY <1>6, <2>1, <2>2, <2>4 DEF CommitCheck, TypeOK, history
  <1>7. CASE CommitManifest
    <2>1. call.man \in Manifest
      BY <1>7 DEF CommitManifest, TypeOK
    <2> QED
      BY <1>7, <2>1 DEF CommitManifest, TypeOK, history
  <1>8. CASE CommitPublish
    <2>1. call.man \in Manifest /\ call.tx \in TxIds
      BY <1>8 DEF CommitPublish, TypeOK
    <2> QED
      BY <1>8, <2>1 DEF CommitPublish, TypeOK, history
  <1>9. CASE CommitAck
    <2>1. wal' \in Seq(WalEntry)
      BY <1>9, ConvergedType DEF CommitAck, TypeOK
    <2> QED
      BY <1>9, <2>1, IdleCallType DEF CommitAck, TypeOK
  <1>10. CASE CommitFails
    <2>1. call.man \in Manifest
      BY <1>10 DEF CommitFails, TypeOK
    <2>2. gens' \in [Generation -> Manifest \union {NoManifest, Damaged}]
      BY <1>10, <2>1 DEF CommitFails, TypeOK
    <2> QED
      BY <1>10, <2>2, IdleCallType DEF CommitFails, TypeOK, history
  <1>11. ASSUME NEW c \in Commands, NEW base \in Revision, NEW idempotent \in BOOLEAN,
                NEW rev \in (base + 1)..MaxRevision, AppendWal(c, base, rev, idempotent)
         PROVE  TypeOK'
    <2> DEFINE e == [base |-> base, rev |-> rev, cmd |-> c]
    <2>1. e \in WalEntry
      BY BoundsAssumption DEF WalEntry, Revision
    <2>2. \A w \in Maintained(Recovered.rev) : w \in Seq(WalEntry)
      BY ConvergedType DEF Maintained, TypeOK
    <2>3. wal' \in Seq(WalEntry)
      <3>1. \/ wal' = wal
            \/ \E w \in Maintained(Recovered.rev) : wal' = w \/ wal' = Append(w, e)
        BY <1>11 DEF AppendWal
      <3>2. \A w \in Seq(WalEntry) : Append(w, e) \in Seq(WalEntry)
        BY <2>1, AppendProperties
      <3> HIDE DEF e
      <3> QED
        BY <2>2, <3>1, <3>2 DEF TypeOK
    <2>4. walTail' \in {"none", "clean", "torn", "rotten"}
      BY <1>11 DEF AppendWal
    <2>5. ackedOps' \subseteq WalEntry
      <3>1. ackedOps' = ackedOps \/ ackedOps' = ackedOps \union {e}
        BY <1>11 DEF AppendWal
      <3> QED
        BY <2>1, <3>1 DEF TypeOK
    <2>6. cache' \in ManifestOrNone
      BY <1>11, RecoveredType DEF AppendWal
    <2> QED
      BY <1>11, <2>3, <2>4, <2>5, <2>6 DEF AppendWal, TypeOK
  <1>12. CASE Recover
    <2>1. wal' \in Seq(WalEntry)
      BY <1>12, ConvergedType DEF Recover, TypeOK
    <2> QED
      BY <1>12, <2>1, RecoveredType DEF Recover, TypeOK, Repaired, history
  <1>13. CASE ReadWal
    BY <1>13 DEF ReadWal, TypeOK, Repaired, memory, history
  <1>14. ASSUME NEW retain \in 2..3, CompactPlan(retain) PROVE TypeOK'
    <2>1. Directories \ Protected(retain) \in SUBSET Generation
      BY DEF Directories
    <2>2. call' \in CallShape /\ call'.pc = "removing"
      BY <1>14, <2>1, IdleCallType DEF CompactPlan, IdleCall
    <2> QED
      BY <1>14, <2>2 DEF CompactPlan, TypeOK, disk, history
  <1>15. ASSUME NEW g \in Generation, CompactRemove(g) PROVE TypeOK'
    BY <1>15 DEF CompactRemove, TypeOK, history
  <1>16. CASE CompactPlanSweep
    BY <1>16 DEF CompactPlanSweep, TypeOK, disk, history
  <1>17. ASSUME NEW v \in Values, CompactSweep(v) PROVE TypeOK'
    BY <1>17 DEF CompactSweep, TypeOK, history
  <1>18. CASE CompactEnds
    <2>1. gens' \in [Generation -> Manifest \union {NoManifest, Damaged}]
      BY <1>18 DEF CompactEnds, TypeOK
    <2> QED
      BY <1>18, <2>1, IdleCallType DEF CompactEnds, TypeOK, history
  <1>19. CASE Crash
    BY <1>19, IdleCallType, NoTransactionType, RecoveredType DEF Crash, TypeOK, disk
  <1>20. CASE MediaDamage
    <2>1. damage' \in 0..MaxDamage
      BY <1>20, BoundsAssumption DEF MediaDamage, TypeOK
    <2>2. wal' \in Seq(WalEntry)
      <3>1. wal' = wal \/ \E i \in 1..Len(wal) : wal' = SubSeq(wal, 1, i - 1)
        BY <1>20 DEF MediaDamage
      <3>2. \A i \in 1..Len(wal) : SubSeq(wal, 1, i - 1) \in Seq(WalEntry)
        BY SubSeqProperties DEF TypeOK
      <3> QED
        BY <3>1, <3>2 DEF TypeOK
    <2>3. /\ super' \in [Pointers -> Manifest \union {NoManifest, Damaged}]
          /\ gens' \in [Generation -> Manifest \union {NoManifest, Damaged}]
          /\ chunks' \in [Values -> {"absent", "good", "bad"}]
          /\ walTail' \in {"none", "clean", "torn", "rotten"}
      BY <1>20 DEF MediaDamage, TypeOK
    <2> QED
      BY <1>20, <2>1, <2>2, <2>3 DEF MediaDamage, TypeOK, memory
  <1>21. CASE UNCHANGED vars
    BY <1>21 DEF vars, disk, memory, history, TypeOK
  <1> QED
    BY <1>1, <1>2, <1>3, <1>4, <1>5, <1>6, <1>7, <1>8, <1>9, <1>10, <1>11, <1>12,
       <1>13, <1>14, <1>15, <1>16, <1>17, <1>18, <1>19, <1>20, <1>21
       DEF Next, Commit, Compact

\* Every reachable state is well typed (the whole store, for any number of
\* keys, transactions, generations, WAL entries and damage events).
THEOREM TypeCorrect == Spec => []TypeOK
  BY InitTypeOK, NextTypeOK, PTL DEF Spec

-----------------------------------------------------------------------------
(* Recovery never goes behind a checkpoint that was reported as saved.     *)

\* m is at least as new as the acknowledged checkpoint.
AtLeastAcked(m) == m.gen >= ackedCkpt.gen /\ m.rev >= ackedCkpt.rev

\* A superblock pins the acknowledged checkpoint: it was damaged, which a
\* scan refuses, or it names a manifest at least as new.
Pins(s) ==
  \/ super[s] = Damaged
  \/ super[s] # NoManifest /\ AtLeastAcked(super[s])

AckPinned == ackedCkpt = NoManifest \/ \E s \in Pointers : Pins(s)

\* The manifest a commit is about to publish supersedes it, so overwriting
\* the pinning superblock keeps the pin.
PublishingForward ==
  call.pc \in {"manifest", "publish"} => AtLeastAcked(call.man)

TransactionsForward == \A t \in TxIds : txs[t].rev >= txs[t].base.rev

RollbackInv == AckPinned /\ PublishingForward /\ TransactionsForward

\* The newest generation a scan finds is one of the superblocks', and no
\* verified superblock is newer.
LEMMA NewestIsLatest ==
  ASSUME TypeOK
  PROVE  /\ \A s \in Pointers : Newest.gen >= Candidate(s).gen
         /\ Newest # NoManifest =>
              \E s \in Pointers : super[s] = Newest /\ Verified(super[s])
         /\ Newest = Candidate("a") \/ Newest = Candidate("b")
  <1>1. Candidate("a").gen \in 0..MaxGeneration /\ Candidate("b").gen \in 0..MaxGeneration
    BY CandidateType, ManifestFields DEF Pointers
  <1>2. Newest = Candidate("a") \/ Newest = Candidate("b")
    BY DEF Newest
  <1>3. \A s \in Pointers : Newest.gen >= Candidate(s).gen
    BY <1>1, BoundsAssumption DEF Newest, Pointers
  <1>4. \A s \in Pointers : Candidate(s) # NoManifest =>
          super[s] = Candidate(s) /\ Verified(super[s])
    BY DEF Candidate
  <1> QED
    BY <1>2, <1>3, <1>4 DEF Pointers

\* When the scan succeeds, the newest generation is at least as new as every
\* manifest a superblock names, whether it verifies or not.
LEMMA ScanOutranksPointers ==
  ASSUME TypeOK, ScanSucceeds, NEW s \in Pointers, super[s] # NoManifest
  PROVE  Newest.gen >= super[s].gen /\ Newest.rev >= super[s].rev
  <1>1. super[s] \in Manifest /\ Newest \in ManifestOrNone
    BY RecoveredType DEF TypeOK, ScanSucceeds
  <1>2. super[s].gen \in Int /\ super[s].rev \in Int
        /\ Newest.gen \in Int /\ Newest.rev \in Int
    BY <1>1, ManifestFields, BoundsAssumption DEF ManifestOrNone, Revision
  <1>3. CASE ~Verified(super[s])
    <2>1. super[s].gen < Newest.gen /\ super[s].rev <= Newest.rev
      BY <1>3 DEF ScanSucceeds, InvalidIsOlder
    <2> QED
      BY <1>2, <2>1
  <1>4. CASE Verified(super[s])
    <2>1. Candidate(s) = super[s] /\ super[s] \in Candidates
      BY <1>4 DEF Candidate, Candidates
    <2>2. Newest.gen >= super[s].gen
      BY <2>1, NewestIsLatest
    <2>3. Newest # NoManifest
      <3>1. super[s].gen >= 1
        BY <1>1, BoundsAssumption DEF Manifest, Generation
      <3> QED
        BY <1>2, <2>2, <3>1, NoManifestFields
    <2>4. PICK p \in Pointers : super[p] = Newest /\ Verified(super[p])
      BY <2>3, NewestIsLatest
    <2>5. Newest \in Candidates
      BY <2>3, <2>4 DEF Candidates, Candidate
    <2>6. CASE super[s].gen < Newest.gen
      BY <2>1, <2>2, <2>5, <2>6 DEF ScanSucceeds, OrderConsistent
    <2>7. CASE super[s].gen = Newest.gen
      <3>1. super[s] = Newest
        BY <1>4, <2>4, <2>7 DEF Verified
      <3> QED
        BY <1>2, <3>1
    <2> QED
      BY <1>2, <2>2, <2>6, <2>7
  <1> QED
    BY <1>3, <1>4

LEMMA PinnedMeansNoRollback ==
  ASSUME TypeOK, AckPinned
  PROVE  NoSilentRollback
  <1> SUFFICES ASSUME ScanSucceeds PROVE AtLeastAcked(Newest)
    BY DEF NoSilentRollback, AtLeastAcked
  <1>1. Newest \in ManifestOrNone /\ ackedCkpt \in ManifestOrNone
    BY RecoveredType DEF TypeOK, ManifestOrNone
  <1>2. /\ Newest.gen \in Nat /\ Newest.rev \in Nat
        /\ ackedCkpt.gen \in Nat /\ ackedCkpt.rev \in Nat
    BY <1>1, ManifestFields, BoundsAssumption DEF Revision
  <1>3. CASE ackedCkpt = NoManifest
    BY <1>2, <1>3, NoManifestFields DEF AtLeastAcked
  <1>4. CASE ackedCkpt # NoManifest
    <2>1. PICK s \in Pointers : super[s] # NoManifest /\ AtLeastAcked(super[s])
      BY <1>4 DEF AckPinned, Pins, ScanSucceeds
    <2>2. Newest.gen >= super[s].gen /\ Newest.rev >= super[s].rev
      BY <2>1, ScanOutranksPointers
    <2>3. super[s] \in Manifest
      BY <2>1 DEF TypeOK, ScanSucceeds
    <2>4. super[s].gen \in Int /\ super[s].rev \in Int
      BY <2>3, ManifestFields, BoundsAssumption DEF ManifestOrNone, Revision
    <2> QED
      BY <1>2, <2>1, <2>2, <2>4 DEF AtLeastAcked
  <1> QED
    BY <1>3, <1>4

LEMMA InitRollbackInv == Init => RollbackInv
  BY NoManifestFields
     DEF Init, RollbackInv, AckPinned, PublishingForward, TransactionsForward,
         NoTransaction, IdleCall

\* A transaction's revision never falls below its base's.
LEMMA NextTransactionsForward ==
  TypeOK /\ TransactionsForward /\ [Next]_vars => TransactionsForward'
  <1> SUFFICES ASSUME TypeOK, TransactionsForward, [Next]_vars,
                      NEW t \in TxIds
               PROVE  (txs[t].rev >= txs[t].base.rev)'
    BY DEF TransactionsForward
  <1> USE DEF TransactionsForward
  <1>0. txs \in [TxIds -> Transaction]
    BY DEF TypeOK
  <1>1. NoTransaction.rev >= NoTransaction.base.rev
    BY NoManifestFields DEF NoTransaction
  <1>2. ASSUME NEW u \in TxIds, BeginSave(u) PROVE (txs[t].rev >= txs[t].base.rev)'
    BY <1>0, <1>2 DEF BeginSave
  <1>3. ASSUME NEW u \in TxIds, AbortSave(u) \/ CommitCheck(u)
        PROVE  (txs[t].rev >= txs[t].base.rev)'
    BY <1>0, <1>1, <1>3 DEF AbortSave, CommitCheck
  <1>4. ASSUME NEW u \in TxIds, NEW k \in Keys, NEW v \in Values, PutRecord(u, k, v)
        PROVE  (txs[t].rev >= txs[t].base.rev)'
    BY <1>0, <1>4 DEF PutRecord, Transaction
  <1>5. ASSUME NEW u \in TxIds, NEW k \in Keys, RemoveRecord(u, k)
        PROVE  (txs[t].rev >= txs[t].base.rev)'
    BY <1>0, <1>5 DEF RemoveRecord, Transaction
  <1>6. CASE Crash
    BY <1>1, <1>6 DEF Crash
  <1>7. CASE UNCHANGED txs
    BY <1>7
  <1>8. \/ \E u \in TxIds : BeginSave(u) \/ AbortSave(u) \/ CommitCheck(u)
        \/ \E u \in TxIds, k \in Keys, v \in Values : PutRecord(u, k, v)
        \/ \E u \in TxIds, k \in Keys : RemoveRecord(u, k)
        \/ Crash
        \/ UNCHANGED txs
    BY DEF Next, Commit, Compact, vars, memory, Reconcile, CommitManifest,
           CommitPublish, CommitAck, CommitFails, AppendWal, Recover, ReadWal,
           CompactPlan, CompactRemove, CompactPlanSweep, CompactSweep,
           CompactEnds, MediaDamage
  <1> QED
    BY <1>2, <1>3, <1>4, <1>5, <1>6, <1>7, <1>8

\* Only a publication, an acknowledgement, a reconciliation and a damaged
\* superblock touch the superblocks or the acknowledged checkpoint.
LEMMA WhoMovesTheSlot ==
  ASSUME [Next]_vars
  PROVE  \/ CommitPublish \/ CommitAck \/ (\E t \in TxIds : Reconcile(t))
         \/ MediaDamage
         \/ UNCHANGED <<super, ackedCkpt>>
  BY ZenonT(60) DEF Next, Commit, Compact, vars, memory, disk, history, BeginSave, AbortSave,
         PutRecord, RemoveRecord, CommitCheck, CommitManifest, CommitFails,
         AppendWal, Recover, ReadWal, CompactPlan, CompactRemove,
         CompactPlanSweep, CompactSweep, CompactEnds, Crash

\* A manifest being prepared continues the newest publication, hence it is at
\* least as new as whatever was acknowledged.
LEMMA PreparedIsForward ==
  ASSUME TypeOK, RollbackInv, NEW t \in TxIds, ScanSucceeds, BaseIsCurrent(t),
         NEW g \in Unused(txs[t].base.gen)
  PROVE  AtLeastAcked([gen |-> g, prev |-> txs[t].base.gen,
                       rev |-> txs[t].rev, recs |-> txs[t].recs])
  <1>1. AtLeastAcked(Newest)
    BY PinnedMeansNoRollback DEF RollbackInv, NoSilentRollback, AtLeastAcked
  <1>2. Newest = txs[t].base /\ txs[t].rev >= txs[t].base.rev
    BY DEF BaseIsCurrent, RollbackInv, TransactionsForward
  <1>3. g \in Generation /\ g > txs[t].base.gen
    BY DEF Unused
  <1>4. txs[t] \in Transaction /\ Newest \in ManifestOrNone /\ ackedCkpt \in ManifestOrNone
    BY RecoveredType DEF TypeOK, ManifestOrNone
  <1>5. /\ txs[t].rev \in Int /\ Newest.gen \in Int /\ Newest.rev \in Int
        /\ ackedCkpt.gen \in Int /\ ackedCkpt.rev \in Int /\ g \in Int
    BY <1>3, <1>4, ManifestFields, BoundsAssumption DEF Transaction, Revision, Generation
  <1> QED
    BY <1>1, <1>2, <1>3, <1>5 DEF AtLeastAcked

LEMMA NextPublishingForward ==
  TypeOK /\ RollbackInv /\ [Next]_vars => PublishingForward'
  <1> SUFFICES ASSUME TypeOK, RollbackInv, [Next]_vars PROVE PublishingForward'
    OBVIOUS
  <1>0. call \in CallShape
    BY DEF TypeOK, CallShape
  <1>1. ASSUME NEW t \in TxIds, CommitCheck(t) PROVE PublishingForward'
    <2>1. CASE call' = call
      BY <1>1, <2>1 DEF CommitCheck, Idle, PublishingForward
    <2>2. CASE call' # call
      <3>1. PICK g \in Unused(txs[t].base.gen) :
              ScanSucceeds /\ BaseIsCurrent(t) /\ call' = Prepared(t, g)
        BY <1>1, <2>2 DEF CommitCheck
      <3>2. call'.man = [gen |-> g, prev |-> txs[t].base.gen,
                         rev |-> txs[t].rev, recs |-> txs[t].recs]
        BY <3>1 DEF Prepared, IdleCall
      <3>3. AtLeastAcked(call'.man)
        BY <3>1, <3>2, PreparedIsForward
      <3>4. ackedCkpt' = ackedCkpt
        BY <1>1 DEF CommitCheck, history
      <3> QED
        BY <3>3, <3>4 DEF PublishingForward, AtLeastAcked
    <2> QED
      BY <2>1, <2>2
  <1>2. CASE CommitManifest
    BY <1>0, <1>2 DEF CommitManifest, history, PublishingForward, AtLeastAcked,
                      RollbackInv, CallShape
  <1>3. CASE call'.pc \notin {"manifest", "publish"}
    BY <1>3 DEF PublishingForward
  <1>4. CASE UNCHANGED <<call, ackedCkpt>>
    BY <1>4 DEF RollbackInv, PublishingForward, AtLeastAcked
  <1>5. ASSUME NEW t \in TxIds, Reconcile(t) PROVE PublishingForward'
    BY <1>5 DEF Reconcile, Idle, PublishingForward
  <1>6. ASSUME CommitPublish \/ CommitAck \/ CommitFails \/ Crash \/ CompactEnds
        PROVE  call'.pc \notin {"manifest", "publish"}
    <2>1. CASE CommitPublish
      BY <1>0, <2>1 DEF CommitPublish, CallShape
    <2>2. CASE call' = IdleCall
      BY <2>2, IdleCallType
    <2> QED
      BY <1>6, <2>1, <2>2 DEF CommitAck, CommitFails, Crash, CompactEnds
  <1>7. ASSUME NEW retain \in 2..3, CompactPlan(retain)
        PROVE  call'.pc \notin {"manifest", "publish"}
    BY <1>7 DEF CompactPlan, IdleCall
  <1>8. ASSUME (\E g \in Generation : CompactRemove(g)) \/ CompactPlanSweep
                 \/ (\E v \in Values : CompactSweep(v))
        PROVE  call'.pc \notin {"manifest", "publish"}
    BY <1>0, <1>8 DEF CompactRemove, CompactPlanSweep, CompactSweep, CallShape
  <1>9. \/ \E t \in TxIds : CommitCheck(t) \/ Reconcile(t)
        \/ CommitManifest
        \/ CommitPublish \/ CommitAck \/ CommitFails \/ Crash
        \/ \E retain \in 2..3 : CompactPlan(retain)
        \/ CompactEnds
        \/ \E g \in Generation : CompactRemove(g)
        \/ CompactPlanSweep
        \/ \E v \in Values : CompactSweep(v)
        \/ UNCHANGED <<call, ackedCkpt>>
    BY ZenonT(60) DEF Next, Commit, Compact, vars, memory, history, BeginSave, AbortSave,
           PutRecord, RemoveRecord, AppendWal, Recover, ReadWal, MediaDamage
  <1> QED
    BY <1>1, <1>2, <1>3, <1>4, <1>5, <1>6, <1>7, <1>8, <1>9

LEMMA NextAckPinned ==
  TypeOK /\ RollbackInv /\ [Next]_vars => AckPinned'
  <1> SUFFICES ASSUME TypeOK, RollbackInv, [Next]_vars PROVE AckPinned'
    OBVIOUS
  <1>1. CASE CommitPublish
    <2>1. call.man \in Manifest /\ AtLeastAcked(call.man)
      BY <1>1 DEF CommitPublish, TypeOK, RollbackInv, PublishingForward
    <2>2. call.man # NoManifest /\ call.man # Damaged
      BY <2>1, NoManifestFields, SentinelAssumption
    <2>3. PointerFor(call.man.gen) \in Pointers
      BY DEF PointerFor, Pointers
    <2>4. super'[PointerFor(call.man.gen)] = call.man /\ ackedCkpt' = ackedCkpt
      BY <1>1, <2>3 DEF CommitPublish, TypeOK, history
    <2> QED
      BY <2>1, <2>2, <2>3, <2>4 DEF AckPinned, Pins, AtLeastAcked
  <1>2. CASE CommitAck
    <2>1. /\ PointerFor(call.man.gen) \in Pointers
          /\ super'[PointerFor(call.man.gen)] = call.man /\ ackedCkpt' = call.man
          /\ call.man \in Manifest
      BY <1>2 DEF CommitAck, PointerFor, Pointers, TypeOK
    <2>2. call.man # NoManifest /\ call.man.gen \in Int /\ call.man.rev \in Int
      BY <2>1, NoManifestFields, ManifestFields, BoundsAssumption
         DEF ManifestOrNone, Revision
    <2> QED
      BY <2>1, <2>2 DEF AckPinned, Pins, AtLeastAcked
  <1>3. ASSUME NEW t \in TxIds, Reconcile(t) PROVE AckPinned'
    <2>1. Newest # NoManifest /\ ackedCkpt' = Newest /\ super' = super
      BY <1>3 DEF Reconcile, disk
    <2>2. PICK s \in Pointers : super[s] = Newest
      BY <2>1, NewestIsLatest
    <2>3. Newest.gen \in Int /\ Newest.rev \in Int
      BY RecoveredType, ManifestFields, BoundsAssumption DEF Revision
    <2> QED
      BY <2>1, <2>2, <2>3 DEF AckPinned, Pins, AtLeastAcked
  <1>4. CASE MediaDamage
    <2>1. \A s \in Pointers : super'[s] = super[s] \/ super'[s] = Damaged
      BY <1>4 DEF MediaDamage, TypeOK
    <2>2. ackedCkpt' = ackedCkpt
      BY <1>4 DEF MediaDamage
    <2> QED
      BY <2>1, <2>2 DEF RollbackInv, AckPinned, Pins, AtLeastAcked
  <1>5. CASE UNCHANGED <<super, ackedCkpt>>
    BY <1>5 DEF RollbackInv, AckPinned, Pins, AtLeastAcked
  <1> QED
    BY <1>1, <1>2, <1>3, <1>4, <1>5, WhoMovesTheSlot

\* RollbackInv is inductive, given the types.
LEMMA NextRollbackInv == TypeOK /\ RollbackInv /\ [Next]_vars => RollbackInv'
  BY NextAckPinned, NextPublishingForward, NextTransactionsForward
     DEF RollbackInv

\* Whatever is damaged and wherever the process stops, a recovery that
\* succeeds never returns a checkpoint older than one reported as saved.
THEOREM NoSilentRollbackHolds == Spec => []NoSilentRollback
  <1>1. Spec => []RollbackInv
    BY TypeCorrect, InitRollbackInv, NextRollbackInv, PTL DEF Spec
  <1>2. TypeOK /\ RollbackInv => NoSilentRollback
    BY PinnedMeansNoRollback DEF RollbackInv
  <1> QED
    BY <1>1, <1>2, TypeCorrect, PTL

-----------------------------------------------------------------------------
(* The publication invariant *)

\* The superblock of the higher generation.
Top == IF super["a"].gen >= super["b"].gen THEN super["a"] ELSE super["b"]

Good(recs) == \A k \in Keys : recs[k] # None => chunks[recs[k]] = "good"

\* The superblocks are written alternately, each naming the other as its base.
Ordered ==
  /\ \A s \in Pointers : super[s] # NoManifest => PointerFor(super[s].gen) = s
  /\ \A s, p \in Pointers : super[s].gen < super[p].gen =>
        super[s].rev <= super[p].rev /\ super[p].prev = super[s].gen

\* A manifest that may be published: it continues the newest one and is written over
\* the other superblock.
ContinuesTop(m) ==
  /\ m.gen > Top.gen /\ m.prev = Top.gen /\ m.rev >= Top.rev
  /\ Top # NoManifest => PointerFor(m.gen) # PointerFor(Top.gen)

Committing ==
  /\ call.pc \in {"manifest", "publish"} => ContinuesTop(call.man) /\ Good(call.man.recs)
  /\ call.pc = "manifest" => gens[call.man.gen] = NoManifest
  /\ call.pc = "publish" => gens[call.man.gen] = call.man
  /\ call.pc = "verify" => Top = call.man

\* An open transaction's chunks are durable.
Building == \A t \in TxIds : txs[t].open => Good(txs[t].recs)

\* A compaction spares both published generations and their chunks.
Compacting ==
  /\ call.pc \in {"removing", "sweeping"} => \A t \in TxIds : ~txs[t].open
  /\ call.pc = "removing" => \A s \in Pointers : super[s].gen \notin call.doomed
  /\ call.pc = "sweeping" =>
        /\ call.doomed = {}
        /\ \A s \in Pointers, k \in Keys : super[s].recs[k] \notin call.trash

Undamaged == \A v \in Values : chunks[v] # "bad"

PubInv ==
  /\ TypeOK /\ TransactionsForward
  /\ PublishedGenerationsIntact /\ Ordered /\ Undamaged
  /\ Committing /\ Building /\ Compacting /\ CacheIsNewest

-----------------------------------------------------------------------------
(* The journal invariant *)

\* Every operation in a log starts where the ones before it have led, or later.
Sorted(w) == \A i, j \in 1..Len(w) : i < j => w[i].rev <= w[j].base

\* A revision inside the range a log covers, on the boundary of an operation.
Cuts(w, rev) ==
  w # <<>> =>
    /\ w[1].base <= rev /\ rev <= w[Len(w)].rev
    /\ \A i \in 1..Len(w) : w[i].rev <= rev \/ rev <= w[i].base

\* An acknowledged operation that left the file is in the checkpoint's past, and every
\* operation in the file comes after it.
Kept ==
  \A e \in ackedOps : \/ e \in Entries(wal)
                      \/ /\ e.rev <= Newest.rev
                         /\ \A f \in Entries(wal) : e.rev <= f.base

JournalInv ==
  /\ ChainValid(wal) /\ walTail # "rotten"
  /\ Sorted(wal)
  /\ Cuts(wal, Newest.rev)
  /\ call.pc \in {"manifest", "publish"} => Cuts(wal, call.man.rev)
  /\ Kept /\ AckedOperationsLinear

-----------------------------------------------------------------------------
(* What the publication invariant says of the superblocks *)

LEMMA PublishedFacts ==
  ASSUME TypeOK, PublishedGenerationsIntact
  PROVE  /\ \A s \in Pointers : /\ super[s] \in ManifestOrNone /\ super[s] # Damaged
                                /\ Candidate(s) = super[s]
                                /\ super[s].gen \in Nat /\ super[s].rev \in Nat
                                /\ Top.gen >= super[s].gen
         /\ Newest = Top /\ Top \in ManifestOrNone
         /\ Top.gen \in Nat /\ Top.rev \in Nat
         /\ \E s \in Pointers : super[s] = Top
         /\ \A s \in Pointers : super[s] # NoManifest =>
               super[s] \in Manifest /\ gens[super[s].gen] = super[s] /\ Good(super[s].recs)
  <1>1. \A s \in Pointers : /\ super[s] \in ManifestOrNone /\ super[s] # Damaged
                            /\ Candidate(s) = super[s]
    BY SentinelAssumption
       DEF TypeOK, PublishedGenerationsIntact, Verified, ManifestOrNone, Candidate
  <1>2. \A s \in Pointers : super[s].gen \in Nat /\ super[s].rev \in Nat
    BY <1>1, ManifestFields, BoundsAssumption DEF Revision
  <1>3. Newest = Top
    BY <1>1 DEF Newest, Top, Pointers
  <1>4. \A s \in Pointers : super[s] # NoManifest =>
          super[s] \in Manifest /\ gens[super[s].gen] = super[s] /\ Good(super[s].recs)
    BY <1>1 DEF PublishedGenerationsIntact, Verified, Good, ManifestOrNone
  <1> QED
    BY <1>1, <1>2, <1>3, <1>4 DEF Top, Pointers

\* A slot with no publication has two empty superblocks.
LEMMA NothingPublished ==
  ASSUME TypeOK, PublishedGenerationsIntact, Top = NoManifest, NEW s \in Pointers
  PROVE  super[s] = NoManifest
  <1>1. super[s].gen <= 0 /\ super[s].gen \in Nat /\ super[s] \in ManifestOrNone
    BY PublishedFacts, NoManifestFields
  <1> QED
    BY <1>1, BoundsAssumption DEF ManifestOrNone, Manifest, Generation

\* A publication replaces the superblock that is not the newest.
LEMMA AfterPublish ==
  ASSUME PubInv, CommitPublish
  PROVE  /\ call.man \in Manifest /\ PointerFor(call.man.gen) \in Pointers
         /\ super'[PointerFor(call.man.gen)] = call.man
         /\ \A s \in Pointers : s # PointerFor(call.man.gen) => super'[s] = Top
         /\ Top' = call.man
         /\ UNCHANGED <<gens, chunks, wal, txs>>
  <1> DEFINE m == call.man
             p == PointerFor(m.gen)
  <1>1. /\ m \in Manifest /\ p \in Pointers
        /\ super' = [super EXCEPT ![p] = m] /\ UNCHANGED <<gens, chunks, wal, txs>>
    BY DEF CommitPublish, PubInv, TypeOK, PointerFor, Pointers
  <1>2. ContinuesTop(m)
    BY DEF CommitPublish, PubInv, Committing
  <1>3. super'[p] = m /\ \A s \in Pointers : s # p => super'[s] = super[s]
    BY <1>1 DEF PubInv, TypeOK
  <1>4. \A s \in Pointers : s # p => super[s] = Top
    <2>1. CASE Top = NoManifest
      BY <2>1, NothingPublished DEF PubInv
    <2>2. CASE Top # NoManifest
      <3>1. PICK s \in Pointers : super[s] = Top
        BY PublishedFacts DEF PubInv
      <3>2. s = PointerFor(Top.gen) /\ p # s
        BY <1>2, <2>2, <3>1 DEF PubInv, Ordered, ContinuesTop
      <3> QED
        BY <1>1, <3>1, <3>2 DEF Pointers
    <2> QED
      BY <2>1, <2>2
  <1>5. m.gen \in Nat /\ Top.gen \in Nat /\ m.gen > Top.gen
    BY <1>1, <1>2, PublishedFacts, ManifestFields DEF PubInv, ContinuesTop, ManifestOrNone
  <1>6. Top' = m
    BY <1>1, <1>3, <1>4, <1>5 DEF Top, Pointers
  <1> QED
    BY <1>1, <1>3, <1>4, <1>6

-----------------------------------------------------------------------------
(* What a step leaves alone *)

\* Only a publication writes a superblock.
LEMMA WhoPublishes ==
  ASSUME DamageKinds = {}, [Next]_vars
  PROVE  CommitPublish \/ UNCHANGED super
  BY DEF Next, Commit, Compact, vars, memory, disk, history, BeginSave, AbortSave,
         PutRecord, RemoveRecord, CommitCheck, CommitManifest, CommitAck, CommitFails,
         Reconcile, AppendWal, Recover, ReadWal, CompactPlan, CompactRemove,
         CompactPlanSweep, CompactSweep, CompactEnds, Crash, MediaDamage

\* Only a sweep loses a chunk, and only one it has planned to.
LEMMA ChunksStay ==
  ASSUME TypeOK, DamageKinds = {}, [Next]_vars, NEW v \in Values, chunks[v] = "good",
         call.pc = "sweeping" => v \notin call.trash
  PROVE  chunks'[v] = "good"
  <1>1. ASSUME NEW u \in Values, CompactSweep(u) PROVE chunks'[v] = "good"
    BY <1>1 DEF CompactSweep, TypeOK
  <1>2. ASSUME NEW t \in TxIds, NEW k \in Keys, NEW u \in Values, PutRecord(t, k, u)
        PROVE  chunks'[v] = "good"
    BY <1>2 DEF PutRecord, TypeOK
  <1>3. \/ \E u \in Values : CompactSweep(u)
        \/ \E t \in TxIds, k \in Keys, u \in Values : PutRecord(t, k, u)
        \/ UNCHANGED chunks
    BY DEF Next, Commit, Compact, vars, memory, disk, history, BeginSave, AbortSave,
           RemoveRecord, CommitCheck, CommitManifest, CommitPublish, CommitAck,
           CommitFails, Reconcile, AppendWal, Recover, ReadWal, CompactPlan,
           CompactRemove, CompactPlanSweep, CompactEnds, Crash, MediaDamage
  <1> QED
    BY <1>1, <1>2, <1>3

\* Nothing writes the directory of a published generation.
LEMMA DirectoriesStay ==
  ASSUME PubInv, DamageKinds = {}, [Next]_vars, NEW s \in Pointers, super[s] # NoManifest
  PROVE  gens'[super[s].gen] = super[s]
  <1>0. /\ gens[super[s].gen] = super[s] /\ super[s] \in Manifest
        /\ super[s].gen \in Generation
        /\ gens \in [Generation -> Manifest \union {NoManifest, Damaged}]
    BY PublishedFacts DEF PubInv, TypeOK, Manifest
  <1>1. ASSUME call.pc = "manifest" PROVE call.man.gen # super[s].gen
    BY <1>0, <1>1 DEF PubInv, Committing
  <1>2. CASE CommitManifest
    BY <1>0, <1>1, <1>2 DEF CommitManifest
  <1>3. CASE CommitFails
    <2>1. gens' = gens \/ (call.pc = "manifest" /\
             \E x : gens' = [gens EXCEPT ![call.man.gen] = x])
      BY <1>3 DEF CommitFails
    <2> QED
      BY <1>0, <1>1, <2>1
  <1>4. ASSUME call.pc = "removing" PROVE super[s].gen \notin call.doomed
    BY <1>4 DEF PubInv, Compacting
  <1>5. ASSUME NEW g \in Generation, CompactRemove(g) PROVE gens'[super[s].gen] = super[s]
    BY <1>0, <1>4, <1>5 DEF CompactRemove
  <1>6. CASE CompactEnds
    <2>1. CASE call.pc = "removing"
      <3>1. gens' = gens \/ \E g \in call.doomed : gens' = [gens EXCEPT ![g] = Damaged]
        BY <1>6 DEF CompactEnds
      <3> QED
        BY <1>0, <1>4, <2>1, <3>1
    <2>2. CASE call.pc = "sweeping"
      <3>1. call.doomed = {}
        BY <2>2 DEF PubInv, Compacting
      <3> QED
        BY <1>0, <1>6, <3>1 DEF CompactEnds
    <2> QED
      BY <1>6, <2>1, <2>2 DEF CompactEnds
  <1>7. \/ CommitManifest \/ CommitFails \/ (\E g \in Generation : CompactRemove(g))
        \/ CompactEnds \/ UNCHANGED gens
    BY DEF Next, Commit, Compact, vars, memory, disk, history, BeginSave, AbortSave,
           PutRecord, RemoveRecord, CommitCheck, CommitPublish, CommitAck, Reconcile,
           AppendWal, Recover, ReadWal, CompactPlan, CompactPlanSweep, CompactSweep,
           Crash, MediaDamage
  <1> QED
    BY <1>0, <1>2, <1>3, <1>5, <1>6, <1>7

-----------------------------------------------------------------------------
(* The publication invariant is inductive *)

LEMMA IntactStep ==
  ASSUME PubInv, DamageKinds = {}, [Next]_vars
  PROVE  PublishedGenerationsIntact'
  <1> SUFFICES ASSUME NEW s \in Pointers, super'[s] # NoManifest
               PROVE  /\ super'[s] # Damaged /\ gens'[super'[s].gen] = super'[s]
                      /\ \A k \in Keys : super'[s].recs[k] # None =>
                            chunks'[super'[s].recs[k]] = "good"
    BY DEF PublishedGenerationsIntact, Verified
  <1>1. CASE UNCHANGED super
    <2>1. super[s] \in Manifest /\ super[s] # Damaged /\ Good(super[s].recs)
      BY <1>1, PublishedFacts DEF PubInv
    <2>2. gens'[super[s].gen] = super[s]
      BY <1>1, DirectoriesStay
    <2>3. ASSUME NEW k \in Keys, super[s].recs[k] # None
          PROVE  chunks'[super[s].recs[k]] = "good"
      <3>1. super[s].recs[k] \in Values
        BY <2>1, <2>3 DEF Manifest
      <3>2. chunks[super[s].recs[k]] = "good"
        BY <2>1, <2>3 DEF Good
      <3>3. call.pc = "sweeping" => super[s].recs[k] \notin call.trash
        BY DEF PubInv, Compacting
      <3> QED
        BY <3>1, <3>2, <3>3, ChunksStay DEF PubInv
    <2> QED
      BY <1>1, <2>1, <2>2, <2>3
  <1>2. CASE CommitPublish
    <2>1. CASE s = PointerFor(call.man.gen)
      <3>1. gens[call.man.gen] = call.man /\ Good(call.man.recs) /\ call.man \in Manifest
        BY <1>2, AfterPublish DEF CommitPublish, PubInv, Committing
      <3> QED
        BY <1>2, <2>1, <3>1, AfterPublish, SentinelAssumption DEF Good
    <2>2. CASE s # PointerFor(call.man.gen)
      <3>1. super'[s] = Top
        BY <1>2, <2>2, AfterPublish
      <3>2. PICK q \in Pointers : super[q] = Top
        BY PublishedFacts DEF PubInv
      <3>3. super[q] \in Manifest /\ super[q] # Damaged /\ gens[super[q].gen] = super[q]
            /\ Good(super[q].recs)
        BY <3>1, <3>2, PublishedFacts DEF PubInv
      <3> QED
        BY <1>2, <3>1, <3>2, <3>3, AfterPublish DEF Good
    <2> QED
      BY <2>1, <2>2
  <1> QED
    BY <1>1, <1>2, WhoPublishes

LEMMA OrderedStep ==
  ASSUME PubInv, DamageKinds = {}, [Next]_vars
  PROVE  Ordered'
  <1>1. CASE UNCHANGED super
    BY <1>1 DEF PubInv, Ordered
  <1>2. CASE CommitPublish
    <2> DEFINE m == call.man
               p == PointerFor(m.gen)
    <2>1. m \in Manifest /\ m # NoManifest /\ p \in Pointers /\ super'[p] = m
          /\ \A s \in Pointers : s # p => super'[s] = Top
      BY <1>2, AfterPublish, NoManifestFields
    <2>2. ContinuesTop(m)
      BY <1>2 DEF CommitPublish, PubInv, Committing
    <2>3. /\ m.gen \in Nat /\ m.rev \in Nat /\ Top.gen \in Nat /\ Top.rev \in Nat
          /\ m.gen > Top.gen /\ m.prev = Top.gen /\ m.rev >= Top.rev
      BY <2>1, <2>2, PublishedFacts, ManifestFields, BoundsAssumption
         DEF PubInv, ContinuesTop, ManifestOrNone, Revision
    <2>4. \A s \in Pointers : super'[s] # NoManifest => PointerFor(super'[s].gen) = s
      <3> SUFFICES ASSUME NEW s \in Pointers, s # p, Top # NoManifest
                   PROVE  PointerFor(Top.gen) = s
        BY <2>1
      <3>1. PICK q \in Pointers : super[q] = Top /\ PointerFor(Top.gen) = q
        BY PublishedFacts DEF PubInv, Ordered
      <3> QED
        BY <2>1, <2>2, <3>1 DEF ContinuesTop, Pointers
    <2>5. ASSUME NEW s \in Pointers, NEW q \in Pointers, super'[s].gen < super'[q].gen
          PROVE  super'[s].rev <= super'[q].rev /\ super'[q].prev = super'[s].gen
      <3>1. (super'[s] = m \/ super'[s] = Top) /\ (super'[q] = m \/ super'[q] = Top)
        BY <2>1
      <3>2. super'[q] = m /\ super'[s] = Top
        BY <2>3, <2>5, <3>1
      <3> QED
        BY <2>3, <3>2
    <2> QED
      BY <2>4, <2>5 DEF Ordered
  <1> QED
    BY <1>1, <1>2, WhoPublishes

LEMMA UndamagedStep ==
  ASSUME PubInv, DamageKinds = {}, [Next]_vars
  PROVE  Undamaged'
  <1>1. ASSUME NEW u \in Values, CompactSweep(u) PROVE Undamaged'
    BY <1>1 DEF CompactSweep, PubInv, TypeOK, Undamaged
  <1>2. ASSUME NEW t \in TxIds, NEW k \in Keys, NEW u \in Values, PutRecord(t, k, u)
        PROVE  Undamaged'
    BY <1>2 DEF PutRecord, PubInv, TypeOK, Undamaged
  <1>3. CASE UNCHANGED chunks
    BY <1>3 DEF PubInv, Undamaged
  <1>4. \/ \E u \in Values : CompactSweep(u)
        \/ \E t \in TxIds, k \in Keys, u \in Values : PutRecord(t, k, u)
        \/ UNCHANGED chunks
    BY DEF Next, Commit, Compact, vars, memory, disk, history, BeginSave, AbortSave,
           RemoveRecord, CommitCheck, CommitManifest, CommitPublish, CommitAck,
           CommitFails, Reconcile, AppendWal, Recover, ReadWal, CompactPlan,
           CompactRemove, CompactPlanSweep, CompactEnds, Crash, MediaDamage
  <1> QED
    BY <1>1, <1>2, <1>3, <1>4

\* The cache holds the newest publication, or nothing.
LEMMA RecoveredIsTop ==
  ASSUME PubInv
  PROVE  Newest = Top /\ Recovered = Top
  BY PublishedFacts DEF PubInv, CacheIsNewest, Recovered

LEMMA NewestIsTop == TypeOK /\ PublishedGenerationsIntact => Newest = Top
  BY PublishedFacts

LEMMA CacheStep ==
  ASSUME PubInv, DamageKinds = {}, [Next]_vars
  PROVE  CacheIsNewest'
  <1>1. TypeOK' /\ PublishedGenerationsIntact'
    BY NextTypeOK, IntactStep DEF PubInv
  <1>2. (Newest = Top)'
    BY <1>1, NewestIsTop, PTL
  <1>3. CASE CommitPublish
    BY <1>3 DEF CommitPublish, CacheIsNewest
  <1>4. CASE UNCHANGED super
    <2>1. Newest' = Newest
      BY <1>2, <1>4, RecoveredIsTop DEF Top
    <2>2. cache' = NoManifest \/ cache' = cache \/ cache' = Recovered \/ cache' = Newest
          \/ CommitAck
      BY DEF Next, Commit, Compact, vars, memory, disk, history, BeginSave, AbortSave,
             PutRecord, RemoveRecord, CommitCheck, CommitManifest, CommitPublish, CommitFails,
             Reconcile, AppendWal, Recover, ReadWal, CompactPlan, CompactRemove,
             CompactPlanSweep, CompactSweep, CompactEnds, Crash, MediaDamage
    <2>3. CASE CommitAck
      BY <2>1, <2>3, RecoveredIsTop DEF CommitAck, PubInv, Committing, CacheIsNewest
    <2> QED
      BY <2>1, <2>2, <2>3, RecoveredIsTop DEF PubInv, CacheIsNewest
  <1> QED
    BY <1>3, <1>4, WhoPublishes

\* A commit starts from the newest publication, in a directory of its own.
LEMMA CheckedContinues ==
  ASSUME PubInv, NEW t \in TxIds, txs[t].open, BaseIsCurrent(t), NEW g \in Unused(txs[t].base.gen)
  PROVE  LET m == [gen |-> g, prev |-> txs[t].base.gen, rev |-> txs[t].rev, recs |-> txs[t].recs]
         IN  ContinuesTop(m) /\ Good(m.recs) /\ gens[g] = NoManifest
  <1>1. txs[t].base = Top /\ txs[t].rev >= Top.rev
    BY RecoveredIsTop DEF BaseIsCurrent, PubInv, TransactionsForward
  <1>2. /\ g \in Generation /\ g > Top.gen /\ (\A h \in Directories : g > h)
        /\ (Top.gen # 0 => g % 2 # Top.gen % 2)
    BY <1>1 DEF Unused
  <1>3. Top # NoManifest => PointerFor(g) # PointerFor(Top.gen)
    <2> SUFFICES ASSUME Top # NoManifest PROVE PointerFor(g) # PointerFor(Top.gen)
      OBVIOUS
    <2>1. Top \in Manifest /\ Top.gen \in Generation
      BY PublishedFacts DEF PubInv, ManifestOrNone, Manifest
    <2>2. Top.gen # 0 /\ g \in Nat /\ Top.gen \in Nat
      BY <1>2, <2>1, BoundsAssumption DEF Generation
    <2>3. g % 2 # Top.gen % 2 /\ g % 2 \in 0..1 /\ Top.gen % 2 \in 0..1
      BY <1>2, <2>2
    <2> QED
      BY <2>3 DEF PointerFor
  <1>4. gens[g] = NoManifest
    <2>1. g \notin Directories
      BY <1>2, BoundsAssumption DEF Generation
    <2> QED
      BY <1>2, <2>1 DEF Directories
  <1>5. Good(txs[t].recs)
    BY DEF PubInv, Building
  <1> QED
    BY <1>1, <1>2, <1>3, <1>4, <1>5 DEF ContinuesTop

LEMMA CommittingStep ==
  ASSUME PubInv, DamageKinds = {}, [Next]_vars
  PROVE  Committing'
  <1>0. call \in CallShape /\ gens \in [Generation -> Manifest \union {NoManifest, Damaged}]
    BY DEF PubInv, TypeOK, CallShape
  <1>1. ASSUME NEW t \in TxIds, CommitCheck(t) PROVE Committing'
    <2>1. CASE call' = call
      BY <1>1, <2>1 DEF CommitCheck, Idle, Committing
    <2>2. CASE call' # call
      <3>1. PICK g \in Unused(txs[t].base.gen) : BaseIsCurrent(t) /\ call' = Prepared(t, g)
        BY <1>1, <2>2 DEF CommitCheck
      <3>2. call'.pc = "manifest" /\
            call'.man = [gen |-> g, prev |-> txs[t].base.gen,
                         rev |-> txs[t].rev, recs |-> txs[t].recs]
        BY <3>1 DEF Prepared, IdleCall
      <3>3. txs[t].open /\ UNCHANGED <<super, gens, chunks>>
        BY <1>1 DEF CommitCheck
      <3>4. ContinuesTop(call'.man) /\ Good(call'.man.recs) /\ gens[call'.man.gen] = NoManifest
        BY <3>1, <3>2, <3>3, CheckedContinues
      <3> QED
        BY <3>2, <3>3, <3>4 DEF Committing, ContinuesTop, Top, Good
    <2> QED
      BY <2>1, <2>2
  <1>2. CASE CommitManifest
    <2>1. /\ call'.pc = "publish" /\ call'.man = call.man
          /\ call.man \in Manifest /\ UNCHANGED <<super, chunks>>
          /\ gens' = [gens EXCEPT ![call.man.gen] = call.man]
      BY <1>0, <1>2 DEF CommitManifest, PubInv, TypeOK, CallShape
    <2>2. gens'[call.man.gen] = call.man
      BY <1>0, <2>1 DEF Manifest
    <2>3. ContinuesTop(call.man) /\ Good(call.man.recs)
      BY <1>2 DEF CommitManifest, PubInv, Committing
    <2> QED
      BY <2>1, <2>2, <2>3 DEF Committing, ContinuesTop, Top, Good
  <1>3. CASE CommitPublish
    <2>1. call'.pc = "verify" /\ call'.man = call.man
      BY <1>0, <1>3 DEF CommitPublish, CallShape
    <2> QED
      BY <1>3, <2>1, AfterPublish DEF Committing
  <1>4. CASE call'.pc \notin {"manifest", "publish", "verify"}
    BY <1>4 DEF Committing
  <1>5. CASE UNCHANGED <<super, gens, chunks, call>>
    BY <1>5 DEF PubInv, Committing, ContinuesTop, Top, Good
  <1>6. ASSUME CommitAck \/ CommitFails \/ Crash \/ CompactEnds
               \/ (\E retain \in 2..3 : CompactPlan(retain))
        PROVE  call'.pc \notin {"manifest", "publish", "verify"}
    <2>1. CASE call' = IdleCall
      BY <2>1, IdleCallType
    <2>2. ASSUME NEW retain \in 2..3, CompactPlan(retain)
          PROVE  call'.pc = "removing"
      BY <2>2 DEF CompactPlan, IdleCall
    <2> QED
      BY <1>6, <2>1, <2>2 DEF CommitAck, CommitFails, Crash, CompactEnds
  <1>7. ASSUME (\E g \in Generation : CompactRemove(g)) \/ CompactPlanSweep
                 \/ (\E v \in Values : CompactSweep(v))
        PROVE  call'.pc \notin {"manifest", "publish", "verify"}
    BY <1>0, <1>7 DEF CompactRemove, CompactPlanSweep, CompactSweep, CallShape
  <1>8. ASSUME NEW t \in TxIds, NEW k \in Keys, NEW v \in Values, PutRecord(t, k, v)
        PROVE  call'.pc \notin {"manifest", "publish", "verify"}
    BY <1>8 DEF PutRecord, Idle
  <1>9. \/ \E t \in TxIds : CommitCheck(t)
        \/ CommitManifest \/ CommitPublish \/ CommitAck \/ CommitFails \/ Crash
        \/ CompactEnds \/ (\E retain \in 2..3 : CompactPlan(retain))
        \/ (\E g \in Generation : CompactRemove(g)) \/ CompactPlanSweep
        \/ \E v \in Values : CompactSweep(v)
        \/ \E t \in TxIds, k \in Keys, v \in Values : PutRecord(t, k, v)
        \/ UNCHANGED <<super, gens, chunks, call>>
    BY ZenonT(60) DEF Next, Commit, Compact, vars, memory, disk, history, BeginSave, AbortSave,
           RemoveRecord, Reconcile, AppendWal, Recover, ReadWal, MediaDamage
  <1> QED
    BY <1>1, <1>2, <1>3, <1>4, <1>5, <1>6, <1>7, <1>8, <1>9

LEMMA BuildingStep ==
  ASSUME PubInv, DamageKinds = {}, [Next]_vars
  PROVE  Building'
  <1> SUFFICES ASSUME NEW t \in TxIds, txs'[t].open
               PROVE  \A k \in Keys : txs'[t].recs[k] # None => chunks'[txs'[t].recs[k]] = "good"
    BY DEF Building, Good
  <1>0. txs \in [TxIds -> Transaction] /\ chunks \in [Values -> {"absent", "good", "bad"}]
    BY DEF PubInv, TypeOK
  <1>1. ASSUME txs'[t] = txs[t] PROVE \A k \in Keys : txs[t].recs[k] # None =>
                                          chunks'[txs[t].recs[k]] = "good"
    <2> SUFFICES ASSUME NEW k \in Keys, txs[t].recs[k] # None
                 PROVE  chunks'[txs[t].recs[k]] = "good"
      OBVIOUS
    <2>1. txs[t].open /\ txs[t].recs[k] \in Values
      BY <1>0, <1>1 DEF Transaction
    <2>2. chunks[txs[t].recs[k]] = "good" /\ call.pc # "sweeping"
      BY <2>1 DEF PubInv, Building, Good, Compacting
    <2> QED
      BY <2>1, <2>2, ChunksStay DEF PubInv
  <1>2. ASSUME NEW u \in TxIds, BeginSave(u), txs'[t] # txs[t]
        PROVE  \A k \in Keys : txs'[t].recs[k] # None => chunks'[txs'[t].recs[k]] = "good"
    <2>1. txs'[t].recs = Top.recs /\ chunks' = chunks
      BY <1>0, <1>2, RecoveredIsTop DEF BeginSave, disk
    <2>2. Good(Top.recs)
      <3>1. CASE Top = NoManifest
        BY <3>1, NoManifestFields DEF Good
      <3>2. CASE Top # NoManifest
        BY <3>2, PublishedFacts DEF PubInv
      <3> QED
        BY <3>1, <3>2
    <2> QED
      BY <2>1, <2>2 DEF Good
  <1>3. ASSUME NEW u \in TxIds, NEW k \in Keys, NEW v \in Values, PutRecord(u, k, v),
               txs'[t] # txs[t]
        PROVE  \A l \in Keys : txs'[t].recs[l] # None => chunks'[txs'[t].recs[l]] = "good"
    <2>1. /\ txs[t] \in Transaction /\ txs[t].open
          /\ txs'[t] = [txs[t] EXCEPT !.recs[k] = v]
          /\ chunks' = [chunks EXCEPT ![v] = "good"]
      BY <1>0, <1>3 DEF PutRecord
    <2>2. \A l \in Keys : txs'[t].recs[l] = IF l = k THEN v ELSE txs[t].recs[l]
      BY <2>1 DEF Transaction
    <2>3. Good(txs[t].recs)
      BY <2>1 DEF PubInv, Building
    <2> QED
      BY <1>0, <2>1, <2>2, <2>3 DEF Good, Transaction
  <1>4. ASSUME NEW u \in TxIds, NEW k \in Keys, RemoveRecord(u, k), txs'[t] # txs[t]
        PROVE  \A l \in Keys : txs'[t].recs[l] # None => chunks'[txs'[t].recs[l]] = "good"
    <2>1. /\ txs[t] \in Transaction /\ txs[t].open /\ chunks' = chunks
          /\ txs'[t] = [txs[t] EXCEPT !.recs[k] = None]
      BY <1>0, <1>4 DEF RemoveRecord, disk
    <2>2. \A l \in Keys : txs'[t].recs[l] = IF l = k THEN None ELSE txs[t].recs[l]
      BY <2>1 DEF Transaction
    <2>3. Good(txs[t].recs)
      BY <2>1 DEF PubInv, Building
    <2> QED
      BY <2>1, <2>2, <2>3 DEF Good
  <1>5. ASSUME (\E u \in TxIds : AbortSave(u) \/ CommitCheck(u)) \/ Crash, txs'[t] # txs[t]
        PROVE  FALSE
    BY <1>0, <1>5 DEF AbortSave, CommitCheck, Crash, NoTransaction
  <1>6. \/ txs'[t] = txs[t]
        \/ \E u \in TxIds : BeginSave(u) \/ AbortSave(u) \/ CommitCheck(u)
        \/ \E u \in TxIds, k \in Keys, v \in Values : PutRecord(u, k, v)
        \/ \E u \in TxIds, k \in Keys : RemoveRecord(u, k)
        \/ Crash
    BY DEF Next, Commit, Compact, vars, memory, Reconcile, CommitManifest,
           CommitPublish, CommitAck, CommitFails, AppendWal, Recover, ReadWal,
           CompactPlan, CompactRemove, CompactPlanSweep, CompactSweep,
           CompactEnds, MediaDamage
  <1> QED
    BY <1>1, <1>2, <1>3, <1>4, <1>5, <1>6

LEMMA CompactingStep ==
  ASSUME PubInv, DamageKinds = {}, [Next]_vars
  PROVE  Compacting'
  <1>0. /\ call \in CallShape
        /\ \A s \in Pointers : super[s] \in ManifestOrNone
        /\ \A s \in Pointers : super[s] # NoManifest =>
              super[s] \in Manifest /\ gens[super[s].gen] = super[s] /\ Candidate(s) = super[s]
    BY PublishedFacts DEF PubInv, TypeOK, CallShape
  <1>1. ASSUME NEW retain \in 2..3, CompactPlan(retain) PROVE Compacting'
    <2>1. /\ call'.pc = "removing" /\ call'.doomed = Directories \ Protected(retain)
          /\ UNCHANGED <<super, txs>> /\ \A t \in TxIds : ~txs[t].open
      BY <1>1 DEF CompactPlan, disk, IdleCall
    <2>2. ASSUME NEW s \in Pointers PROVE super[s].gen \notin Directories \ Protected(retain)
      <3>1. CASE super[s] = NoManifest
        BY <3>1, NoManifestFields, BoundsAssumption DEF Directories, Generation
      <3>2. CASE super[s] # NoManifest
        <4>1. super[s] \in Candidates
          BY <1>0, <3>2 DEF Candidates
        <4> QED
          BY <4>1 DEF Protected
      <3> QED
        BY <3>1, <3>2
    <2> QED
      BY <2>1, <2>2 DEF Compacting
  <1>2. ASSUME NEW g \in Generation, CompactRemove(g) PROVE Compacting'
    <2>1. /\ call.pc = "removing" /\ call'.pc = "removing" /\ call'.doomed = call.doomed \ {g}
          /\ UNCHANGED <<super, txs>>
      BY <1>0, <1>2 DEF CompactRemove, CallShape
    <2> QED
      BY <2>1 DEF PubInv, Compacting
  <1>3. CASE CompactPlanSweep
    <2>1. /\ call.pc = "removing" /\ call'.pc = "sweeping" /\ call'.doomed = {}
          /\ call'.trash \subseteq Values \ Referenced /\ UNCHANGED <<super, txs>>
      BY <1>0, <1>3 DEF CompactPlanSweep, disk, CallShape
    <2>2. ASSUME NEW s \in Pointers, NEW k \in Keys
          PROVE  super[s].recs[k] \notin Values \ Referenced
      <3>1. CASE super[s] = NoManifest
        BY <3>1, NoManifestFields, SentinelAssumption
      <3>2. CASE super[s] # NoManifest
        <4>1. /\ super[s] \in Manifest /\ super[s] # Damaged /\ super[s].gen \in Generation
              /\ gens[super[s].gen] = super[s]
          BY <1>0, <3>2, SentinelAssumption DEF Manifest
        <4>2. super[s].gen \in Directories
          BY <3>2, <4>1 DEF Directories
        <4> QED
          BY <4>1, <4>2 DEF Referenced
      <3> QED
        BY <3>1, <3>2
    <2> QED
      BY <2>1, <2>2 DEF PubInv, Compacting
  <1>4. ASSUME NEW v \in Values, CompactSweep(v) PROVE Compacting'
    <2>1. /\ call.pc = "sweeping" /\ call'.pc = "sweeping" /\ call'.doomed = call.doomed
          /\ call'.trash = call.trash \ {v} /\ UNCHANGED <<super, txs>>
      BY <1>0, <1>4 DEF CompactSweep, CallShape
    <2> QED
      BY <2>1 DEF PubInv, Compacting
  <1>5. CASE call'.pc \notin {"removing", "sweeping"}
    BY <1>5 DEF Compacting
  <1>6. CASE UNCHANGED <<super, txs, call>>
    BY <1>6 DEF PubInv, Compacting
  <1>7. ASSUME NEW t \in TxIds, CommitCheck(t) PROVE call'.pc \notin {"removing", "sweeping"}
    BY <1>7 DEF CommitCheck, Idle, Prepared, IdleCall
  <1>8. ASSUME CommitManifest \/ CommitPublish PROVE call'.pc \notin {"removing", "sweeping"}
    BY <1>0, <1>8 DEF CommitManifest, CommitPublish, CallShape
  <1>9. ASSUME CommitAck \/ CommitFails \/ Crash \/ CompactEnds
        PROVE  call'.pc \notin {"removing", "sweeping"}
    BY <1>9, IdleCallType DEF CommitAck, CommitFails, Crash, CompactEnds
  <1>10. ASSUME \/ \E t \in TxIds : BeginSave(t) \/ AbortSave(t)
                \/ \E t \in TxIds, k \in Keys, v \in Values : PutRecord(t, k, v)
                \/ \E t \in TxIds, k \in Keys : RemoveRecord(t, k)
         PROVE  call'.pc \notin {"removing", "sweeping"}
    BY <1>10 DEF BeginSave, AbortSave, PutRecord, RemoveRecord, Idle
  <1>11. \/ (\E retain \in 2..3 : CompactPlan(retain))
         \/ (\E g \in Generation : CompactRemove(g)) \/ CompactPlanSweep
         \/ (\E v \in Values : CompactSweep(v))
         \/ (\E t \in TxIds : CommitCheck(t) \/ BeginSave(t) \/ AbortSave(t))
         \/ CommitManifest \/ CommitPublish \/ CommitAck \/ CommitFails \/ Crash \/ CompactEnds
         \/ (\E t \in TxIds, k \in Keys, v \in Values : PutRecord(t, k, v))
         \/ (\E t \in TxIds, k \in Keys : RemoveRecord(t, k))
         \/ UNCHANGED <<super, txs, call>>
    BY ZenonT(60) DEF Next, Commit, Compact, vars, memory, disk, history, Reconcile,
           AppendWal, Recover, ReadWal, MediaDamage
  <1> QED
    BY <1>1, <1>2, <1>3, <1>4, <1>5, <1>6, <1>7, <1>8, <1>9, <1>10, <1>11

LEMMA PubInvInit == Init => PubInv
  <1> SUFFICES ASSUME Init PROVE PubInv
    OBVIOUS
  <1>1. TypeOK /\ TransactionsForward
    BY InitTypeOK, InitRollbackInv DEF RollbackInv
  <1>2. \A s \in Pointers : super[s] = NoManifest
    BY DEF Init
  <1>3. PublishedGenerationsIntact /\ Ordered
    BY <1>2, NoManifestFields DEF PublishedGenerationsIntact, Ordered
  <1>4. Undamaged /\ CacheIsNewest
    BY DEF Init, Undamaged, CacheIsNewest
  <1>5. Building /\ Committing /\ Compacting
    BY DEF Init, Building, Committing, Compacting, NoTransaction, IdleCall
  <1> QED
    BY <1>1, <1>3, <1>4, <1>5 DEF PubInv

LEMMA PubInvStep == DamageKinds = {} /\ PubInv /\ [Next]_vars => PubInv'
  BY NextTypeOK, NextTransactionsForward, IntactStep, OrderedStep, UndamagedStep,
     CommittingStep, BuildingStep, CompactingStep, CacheStep DEF PubInv

\* The publication invariant holds in every reachable state.
THEOREM PublicationInvariant == DamageKinds = {} /\ Spec => []PubInv
  <1>1. ASSUME DamageKinds = {} PROVE Spec => []PubInv
    <2>1. PubInv /\ [Next]_vars => PubInv'
      BY <1>1, PubInvStep
    <2> QED
      BY <2>1, PubInvInit, PTL DEF Spec
  <1> QED
    BY <1>1

\* Without media damage both published generations verify down to their chunks, at every
\* step of a commit, an error, a crash, a compaction and a sweep.
THEOREM GenerationsStayIntact == DamageKinds = {} /\ Spec => []PublishedGenerationsIntact
  <1>1. PubInv => PublishedGenerationsIntact
    BY DEF PubInv
  <1>2. ASSUME DamageKinds = {} PROVE Spec => []PublishedGenerationsIntact
    <2>1. Spec => []PubInv
      BY <1>2, PublicationInvariant
    <2> QED
      BY <1>1, <2>1, PTL
  <1> QED
    BY <1>2

\* Publications form one line: each names the one before it and never moves the revision
\* back.
THEOREM PublicationsFormALine == DamageKinds = {} /\ Spec => PublicationLineage
  <1>1. DamageKinds = {} /\ PubInv /\ PubInv' /\ [Next]_vars =>
          [Newest' # Newest => Newest'.prev = Newest.gen /\ Newest'.rev >= Newest.rev]_vars
    <2> SUFFICES ASSUME DamageKinds = {}, PubInv, PubInv', [Next]_vars, Newest' # Newest
                 PROVE  Newest'.prev = Newest.gen /\ Newest'.rev >= Newest.rev
      OBVIOUS
    <2>1. (Newest = Top)'
      BY NewestIsTop, PTL DEF PubInv
    <2>2. Newest = Top
      BY RecoveredIsTop
    <2>3. CASE UNCHANGED super
      BY <2>1, <2>2, <2>3 DEF Top
    <2>4. CASE CommitPublish
      <3>1. ContinuesTop(call.man) /\ Top' = call.man
        BY <2>4, AfterPublish DEF CommitPublish, PubInv, Committing
      <3> QED
        BY <2>1, <2>2, <3>1 DEF ContinuesTop
    <2> QED
      BY <2>3, <2>4, WhoPublishes
  <1>2. ASSUME DamageKinds = {} PROVE Spec => PublicationLineage
    <2>1. PubInv /\ PubInv' /\ [Next]_vars =>
            [Newest' # Newest => Newest'.prev = Newest.gen /\ Newest'.rev >= Newest.rev]_vars
      BY <1>1, <1>2
    <2>2. Spec => []PubInv
      BY <1>2, PublicationInvariant
    <2> QED
      BY <2>1, <2>2, PTL DEF Spec, PublicationLineage
  <1> QED
    BY <1>2

-----------------------------------------------------------------------------
(* Logs *)

LEMMA EntryFields ==
  ASSUME NEW w \in Seq(WalEntry), NEW i \in 1..Len(w)
  PROVE  w[i] \in WalEntry /\ w[i].base \in Nat /\ w[i].rev \in Nat
  <1>1. w[i] \in WalEntry
    OBVIOUS
  <1> QED
    BY <1>1, BoundsAssumption DEF WalEntry, Revision

\* A revision at an operation's boundary is one active_wal_entries accepts.
LEMMA CutsContinue ==
  ASSUME NEW w \in Seq(WalEntry), NEW rev \in Nat, ChainValid(w), Cuts(w, rev)
  PROVE  ActiveContinues(w, rev)
  <1> SUFFICES ASSUME NEW i \in 1..Len(w), IsActive(w[i], rev),
                      \A j \in 1..(i - 1) : ~IsActive(w[j], rev)
               PROVE  w[i].base = rev
    BY DEF ActiveContinues
  <1>1. w # <<>> /\ w[i].rev > rev /\ rev <= w[i].base /\ w[1].base <= rev
    BY EntryFields DEF IsActive, Cuts
  <1>2. CASE i = 1
    BY <1>1, <1>2, EntryFields
  <1>3. CASE i # 1
    <2>1. i - 1 \in 1..(Len(w) - 1) /\ i - 1 \in 1..Len(w) /\ (i - 1) + 1 = i
      BY <1>3
    <2>2. w[i].base = w[i - 1].rev
      BY <2>1 DEF ChainValid
    <2>3. ~(w[i - 1].rev > rev)
      BY <2>1 DEF IsActive
    <2> QED
      BY <1>1, <2>1, <2>2, <2>3, EntryFields
  <1> QED
    BY <1>2, <1>3

\* And it is the only kind: no other revision inside the log's range is accepted.
LEMMA ContinuesCuts ==
  ASSUME NEW w \in Seq(WalEntry), NEW rev \in Nat, Sorted(w), ActiveContinues(w, rev),
         w # <<>> => w[1].base <= rev /\ rev <= w[Len(w)].rev
  PROVE  Cuts(w, rev)
  <1> SUFFICES ASSUME NEW i \in 1..Len(w), ~(w[i].rev <= rev), ~(rev <= w[i].base)
               PROVE  FALSE
    BY DEF Cuts
  <1>1. IsActive(w[i], rev) /\ w[i].base # rev
    BY EntryFields DEF IsActive
  <1>2. ASSUME NEW j \in 1..(i - 1) PROVE ~IsActive(w[j], rev)
    <2>1. j \in 1..Len(w) /\ j < i
      OBVIOUS
    <2>2. w[j].rev <= w[i].base
      BY <2>1 DEF Sorted
    <2> QED
      BY <2>1, <2>2, EntryFields DEF IsActive
  <1> QED
    BY <1>1, <1>2 DEF ActiveContinues

\* The last entry of a sorted chain ends after every other one.
LEMMA LastIsLatest ==
  ASSUME NEW w \in Seq(WalEntry), ChainValid(w), Sorted(w), w # <<>>
  PROVE  /\ Len(w) \in 1..Len(w) /\ w[Len(w)].rev \in Nat
         /\ \A f \in Entries(w) : f.rev <= w[Len(w)].rev /\ f.base < f.rev
  <1>1. Len(w) \in 1..Len(w) /\ w[Len(w)].rev \in Nat
    <2>1. Len(w) \in 1..Len(w)
      OBVIOUS
    <2> QED
      BY <2>1, EntryFields
  <1>2. ASSUME NEW i \in 1..Len(w) PROVE w[i].rev <= w[Len(w)].rev /\ w[i].base < w[i].rev
    <2>1. w[i].base < w[i].rev /\ w[Len(w)].base < w[Len(w)].rev
      BY <1>1 DEF ChainValid
    <2>2. CASE i = Len(w)
      BY <2>1, <2>2, EntryFields
    <2>3. CASE i < Len(w)
      <3>1. w[i].rev <= w[Len(w)].base
        BY <1>1, <2>3 DEF Sorted
      <3> QED
        BY <1>1, <2>1, <3>1, EntryFields
    <2> QED
      BY <2>2, <2>3
  <1> QED
    BY <1>1, <1>2 DEF Entries

LEMMA Appended ==
  ASSUME NEW w \in Seq(WalEntry), NEW e \in WalEntry
  PROVE  /\ Append(w, e) \in Seq(WalEntry) /\ Len(Append(w, e)) = Len(w) + 1
         /\ \A i \in 1..Len(w) : Append(w, e)[i] = w[i]
         /\ Append(w, e)[Len(w) + 1] = e
         /\ Entries(Append(w, e)) = Entries(w) \union {e}
  <1>1. /\ Append(w, e) \in Seq(WalEntry) /\ Len(Append(w, e)) = Len(w) + 1
        /\ \A i \in 1..Len(w) : Append(w, e)[i] = w[i]
        /\ Append(w, e)[Len(w) + 1] = e /\ Len(w) \in Nat
    OBVIOUS
  <1> QED
    BY <1>1 DEF Entries

\* An operation that continues a log keeps it one line.
LEMMA AppendKeepsLine ==
  ASSUME NEW w \in Seq(WalEntry), NEW e \in WalEntry, NEW rev \in Nat,
         ChainValid(w), Sorted(w), Cuts(w, rev),
         e.base < e.rev, \A f \in Entries(w) : f.cmd # e.cmd,
         w = <<>> => e.base = rev, w # <<>> => e.base = w[Len(w)].rev
  PROVE  ChainValid(Append(w, e)) /\ Sorted(Append(w, e)) /\ Cuts(Append(w, e), rev)
  <1> DEFINE x == Append(w, e)
             n == Len(w)
  <1>1. /\ x \in Seq(WalEntry) /\ Len(x) = n + 1 /\ n \in Nat
        /\ \A i \in 1..n : x[i] = w[i]
        /\ x[n + 1] = e
    BY Appended
  <1>2. e.base \in Int /\ e.rev \in Int
    BY BoundsAssumption DEF WalEntry, Revision
  <1>3. \A i \in 1..n : w[i].base \in Int /\ w[i].rev \in Int /\ w[i] \in Entries(w)
    BY EntryFields DEF Entries
  <1>4. \A i \in 1..n : w[i].rev <= e.base /\ w[i].cmd # e.cmd /\ w[i].base < w[i].rev
    BY <1>3, LastIsLatest
  <1> HIDE DEF x
  <1>5. ChainValid(x)
    <2>1. \A i \in 1..(n + 1) : x[i].base < x[i].rev
      BY <1>1, <1>4
    <2>2. ASSUME NEW i \in 1..n PROVE x[i + 1].base = x[i].rev
      <3>1. CASE i = n
        BY <1>1, <3>1
      <3>2. CASE i < n
        BY <1>1, <3>2 DEF ChainValid
      <3> QED
        BY <3>1, <3>2
    <2>3. \A i, j \in 1..(n + 1) : i # j => x[i].cmd # x[j].cmd
      BY <1>1, <1>4 DEF ChainValid
    <2> QED
      BY <1>1, <2>1, <2>2, <2>3 DEF ChainValid
  <1>6. Sorted(x)
    BY <1>1, <1>4 DEF Sorted
  <1>7. Cuts(x, rev)
    <2>1. CASE n = 0
      BY <1>1, <1>2, <2>1 DEF Cuts
    <2>2. CASE n # 0
      <3>1. /\ w[1].base <= rev /\ rev <= w[n].rev
            /\ \A i \in 1..n : w[i].rev <= rev \/ rev <= w[i].base
        BY <2>2 DEF Cuts
      <3>2. rev <= e.base /\ rev <= e.rev
        BY <1>2, <2>2, <3>1
      <3> QED
        BY <1>1, <2>2, <3>1, <3>2 DEF Cuts
    <2> QED
      BY <2>1, <2>2
  <1> QED
    BY <1>5, <1>6, <1>7 DEF x

-----------------------------------------------------------------------------
(* The journal invariant is inductive *)

\* Emptying a log loses only what the checkpoint covers.
LEMMA ConvergedKeeps ==
  ASSUME NEW w \in Seq(WalEntry), NEW rev \in Nat, NEW x \in Converged(w, rev)
  PROVE  x = w \/ (x = <<>> /\ \A f \in Entries(w) : f.rev <= rev)
  <1>1. CASE HasActive(w, rev) \/ w = <<>>
    BY <1>1 DEF Converged
  <1>2. CASE ~HasActive(w, rev)
    <2>1. \A f \in Entries(w) : f.rev <= rev
      BY <1>2, EntryFields DEF HasActive, IsActive, Entries
    <2> QED
      BY <2>1, ConvergedIsWalOrEmpty
  <1> QED
    BY <1>1, <1>2

\* An emptied log, beside the same checkpoint and the same acknowledgements.
LEMMA MaintainedKeeps ==
  ASSUME NEW w \in Seq(WalEntry), NEW rev \in Nat, NEW x \in Converged(w, rev),
         ChainValid(w), Sorted(w), Cuts(w, rev)
  PROVE  ChainValid(x) /\ Sorted(x) /\ Cuts(x, rev) /\ x \in Seq(WalEntry)
  <1>1. CASE x = w
    BY <1>1
  <1>2. CASE x = <<>>
    BY <1>2 DEF ChainValid, Sorted, Cuts
  <1> QED
    BY <1>1, <1>2, ConvergedIsWalOrEmpty

\* The acknowledged operations of a log: what left it lies behind all that is in it.
Covered(w, rev) ==
  \A e \in ackedOps : \/ e \in Entries(w)
                      \/ /\ e.rev <= rev
                         /\ \A f \in Entries(w) : e.rev <= f.base

LEMMA MaintainedCovers ==
  ASSUME NEW w \in Seq(WalEntry), NEW rev \in Nat, NEW x \in Converged(w, rev),
         Covered(w, rev)
  PROVE  Covered(x, rev)
  <1>1. CASE x = w
    BY <1>1
  <1>2. CASE x = <<>> /\ \A f \in Entries(w) : f.rev <= rev
    <2>1. Entries(x) = {}
      BY <1>2 DEF Entries
    <2> QED
      BY <1>2, <2>1 DEF Covered
  <1> QED
    BY <1>1, <1>2, ConvergedKeeps

\* Where the next operation has to start, when the checkpoint cuts the log.
LEMMA HeadIsLast ==
  ASSUME NEW w \in Seq(WalEntry), NEW rev \in Nat, ChainValid(w), Sorted(w), Cuts(w, rev)
  PROVE  /\ w = <<>> => HeadRevision(w, rev) = rev
         /\ w # <<>> => HeadRevision(w, rev) = w[Len(w)].rev
  <1>1. CASE w = <<>>
    BY <1>1 DEF HeadRevision, HasActive, Entries
  <1>2. CASE w # <<>>
    <2>1. Len(w) \in 1..Len(w) /\ w[Len(w)].rev \in Nat /\ rev <= w[Len(w)].rev
      BY <1>2, LastIsLatest DEF Cuts
    <2>2. w[Len(w)].rev > rev => HasActive(w, rev)
      BY <2>1 DEF HasActive, IsActive, Entries
    <2> QED
      BY <1>2, <2>1, <2>2 DEF HeadRevision
  <1> QED
    BY <1>1, <1>2

\* Two acknowledged operations, one of them in the log, do not overlap.
LEMMA LoggedIsLinear ==
  ASSUME NEW w \in Seq(WalEntry), NEW rev, Sorted(w), Covered(w, rev),
         NEW e \in Entries(w), NEW f \in ackedOps, e # f
  PROVE  e.rev <= f.base \/ f.rev <= e.base
  <1>1. CASE f \in Entries(w)
    <2>1. PICK i \in 1..Len(w), j \in 1..Len(w) : e = w[i] /\ f = w[j]
      BY <1>1 DEF Entries
    <2>2. i < j \/ j < i
      BY <2>1
    <2> QED
      BY <2>1, <2>2 DEF Sorted
  <1>2. CASE f \notin Entries(w)
    BY <1>2 DEF Covered
  <1> QED
    BY <1>1, <1>2

LEMMA AppendStep ==
  ASSUME PubInv, JournalInv, NEW c \in Commands, NEW base \in Revision,
         NEW idempotent \in BOOLEAN, NEW rev \in (base + 1)..MaxRevision,
         AppendWal(c, base, rev, idempotent)
  PROVE  /\ ChainValid(wal') /\ walTail' # "rotten" /\ Sorted(wal') /\ Cuts(wal', Newest.rev)
         /\ \A e \in ackedOps' : \/ e \in Entries(wal')
                                 \/ /\ e.rev <= Newest.rev
                                    /\ \A f \in Entries(wal') : e.rev <= f.base
         /\ AckedOperationsLinear'
  <1> DEFINE op == [base |-> base, rev |-> rev, cmd |-> c]
             ck == Newest.rev
  <1>0. /\ Recovered.rev = ck /\ ck \in Nat /\ op \in WalEntry
        /\ op.base = base /\ op.rev = rev /\ op.cmd = c /\ base \in Nat /\ rev \in Nat
        /\ base < rev /\ wal \in Seq(WalEntry) /\ ackedOps \subseteq WalEntry
        /\ walTail \in {"none", "clean", "torn", "rotten"}
    <2>1. Recovered.rev = ck /\ ck \in Nat
      BY RecoveredIsTop, PublishedFacts DEF PubInv
    <2>2. base \in 0..MaxRevision /\ rev \in 0..MaxRevision /\ base < rev
      BY BoundsAssumption DEF Revision
    <2> QED
      BY <2>1, <2>2 DEF PubInv, TypeOK, WalEntry, Revision
  <1>1. /\ ChainValid(wal) /\ Sorted(wal) /\ Cuts(wal, ck) /\ Covered(wal, ck)
        /\ AckedOperationsLinear
    BY DEF JournalInv, Kept, Covered
  <1>2. walTail' # "rotten"
    BY DEF AppendWal
  <1> HIDE DEF op, ck
  <1>3. \/ wal' = wal /\ (ackedOps' = ackedOps
                            \/ (ackedOps' = ackedOps \union {op} /\ op \in Entries(wal)))
        \/ \E w \in Converged(wal, ck) : wal' = w /\ ackedOps' = ackedOps
        \/ \E w \in Converged(wal, ck) :
             /\ base = HeadRevision(w, ck) /\ wal' = Append(w, op)
             /\ (\A f \in Entries(wal) : f.cmd # c)
             /\ ackedOps' \in {ackedOps, ackedOps \union {op}}
    BY <1>0 DEF AppendWal, Maintained, op
  <1>4. ASSUME NEW w \in Seq(WalEntry), ChainValid(w), Sorted(w), Cuts(w, ck),
               Covered(w, ck), wal' = w,
               \/ ackedOps' = ackedOps
               \/ ackedOps' = ackedOps \union {op} /\ op \in Entries(w)
        PROVE  /\ ChainValid(wal') /\ Sorted(wal') /\ Cuts(wal', ck)
               /\ \A e \in ackedOps' : \/ e \in Entries(wal')
                                       \/ /\ e.rev <= ck
                                          /\ \A f \in Entries(wal') : e.rev <= f.base
               /\ AckedOperationsLinear'
    <2>1. \A e \in ackedOps' : \/ e \in Entries(w)
                               \/ /\ e.rev <= ck
                                  /\ \A f \in Entries(w) : e.rev <= f.base
      BY <1>4 DEF Covered
    <2>2. ASSUME NEW f \in ackedOps, op \in Entries(w), op # f
          PROVE  op.rev <= f.base \/ f.rev <= op.base
      BY <1>4, <2>2, LoggedIsLinear
    <2>3. AckedOperationsLinear'
      BY <1>1, <1>4, <2>2 DEF AckedOperationsLinear
    <2> QED
      BY <1>4, <2>1, <2>3
  <1>5. ASSUME NEW w \in Converged(wal, ck) 
        PROVE  /\ w \in Seq(WalEntry) /\ ChainValid(w) /\ Sorted(w) /\ Cuts(w, ck)
               /\ Covered(w, ck) /\ Entries(w) \subseteq Entries(wal)
    <2>1. Entries(w) \subseteq Entries(wal)
      BY <1>0, ConvergedIsWalOrEmpty DEF Entries
    <2> QED
      BY <1>0, <1>1, <2>1, MaintainedKeeps, MaintainedCovers
  <1>6. ASSUME NEW w \in Converged(wal, ck), base = HeadRevision(w, ck),
               \A f \in Entries(wal) : f.cmd # c
        PROVE  LET x == Append(w, op) IN
               /\ x \in Seq(WalEntry) /\ ChainValid(x) /\ Sorted(x) /\ Cuts(x, ck)
               /\ Covered(x, ck) /\ op \in Entries(x)
    <2>1. /\ w \in Seq(WalEntry) /\ ChainValid(w) /\ Sorted(w) /\ Cuts(w, ck)
          /\ Covered(w, ck) /\ \A f \in Entries(w) : f.cmd # op.cmd
      BY <1>0, <1>5, <1>6
    <2>2. (w = <<>> => op.base = ck) /\ (w # <<>> => op.base = w[Len(w)].rev)
      BY <1>0, <1>6, <2>1, HeadIsLast
    <2>3. /\ Append(w, op) \in Seq(WalEntry)
          /\ Entries(Append(w, op)) = Entries(w) \union {op}
      BY <1>0, <2>1, Appended
    <2>4. /\ ChainValid(Append(w, op)) /\ Sorted(Append(w, op)) /\ Cuts(Append(w, op), ck)
      BY <1>0, <2>1, <2>2, AppendKeepsLine
    <2>5. ASSUME NEW e \in ackedOps, e \notin Entries(w) PROVE e.rev <= op.base
      <3>1. e.rev <= ck /\ (\A f \in Entries(w) : e.rev <= f.base) /\ e.rev \in Nat
        BY <1>0, <2>1, <2>5, BoundsAssumption DEF Covered, WalEntry, Revision
      <3>2. CASE w = <<>>
        BY <2>2, <3>1, <3>2
      <3>3. CASE w # <<>>
        <4>1. w[Len(w)] \in Entries(w) /\ w[Len(w)].base < w[Len(w)].rev
              /\ w[Len(w)].base \in Nat /\ w[Len(w)].rev \in Nat
          BY <2>1, <3>3, LastIsLatest, EntryFields DEF Entries
        <4> QED
          BY <2>2, <3>1, <3>3, <4>1
      <3> QED
        BY <3>2, <3>3
    <2>6. Covered(Append(w, op), ck)
      BY <2>1, <2>3, <2>5 DEF Covered
    <2> QED
      BY <2>3, <2>4, <2>6
  <1>7. /\ ChainValid(wal') /\ Sorted(wal') /\ Cuts(wal', ck)
        /\ \A e \in ackedOps' : \/ e \in Entries(wal')
                                \/ /\ e.rev <= ck
                                   /\ \A f \in Entries(wal') : e.rev <= f.base
        /\ AckedOperationsLinear'
    <2>1. CASE wal' = wal /\ (ackedOps' = ackedOps
                                \/ (ackedOps' = ackedOps \union {op} /\ op \in Entries(wal)))
      BY <1>0, <1>1, <1>4, <2>1
    <2>2. CASE \E w \in Converged(wal, ck) : wal' = w /\ ackedOps' = ackedOps
      BY <1>4, <1>5, <2>2
    <2>3. ASSUME NEW w \in Converged(wal, ck), base = HeadRevision(w, ck),
                 wal' = Append(w, op), \A f \in Entries(wal) : f.cmd # c,
                 ackedOps' \in {ackedOps, ackedOps \union {op}}
          PROVE  /\ ChainValid(wal') /\ Sorted(wal') /\ Cuts(wal', ck)
                 /\ \A e \in ackedOps' : \/ e \in Entries(wal')
                                         \/ /\ e.rev <= ck
                                            /\ \A f \in Entries(wal') : e.rev <= f.base
                 /\ AckedOperationsLinear'
      BY <1>4, <1>6, <2>3
    <2> QED
      BY <1>3, <2>1, <2>2, <2>3
  <1> QED
    BY <1>2, <1>7 DEF ck

\* What a step that is not an append does to the log and the acknowledgements.
LEMMA WhoWritesTheLog ==
  ASSUME DamageKinds = {}, [Next]_vars
  PROVE  \/ \E c \in Commands, base \in Revision, idempotent \in BOOLEAN :
              \E rev \in (base + 1)..MaxRevision : AppendWal(c, base, rev, idempotent)
         \/ Recover \/ CommitAck
         \/ (\E t \in TxIds : CommitCheck(t)) \/ ReadWal
         \/ UNCHANGED <<wal, walTail, ackedOps>>
  BY DEF Next, Commit, Compact, vars, memory, disk, history, BeginSave, AbortSave,
         PutRecord, RemoveRecord, CommitManifest, CommitPublish, CommitFails, Reconcile,
         CompactPlan, CompactRemove, CompactPlanSweep, CompactSweep, CompactEnds, Crash,
         MediaDamage

LEMMA LineStep ==
  ASSUME PubInv, JournalInv, DamageKinds = {}, [Next]_vars
  PROVE  /\ ChainValid(wal') /\ walTail' # "rotten" /\ Sorted(wal')
         /\ Cuts(wal', Newest.rev)
         /\ \A e \in ackedOps' : \/ e \in Entries(wal')
                                 \/ /\ e.rev <= Newest.rev
                                    /\ \A f \in Entries(wal') : e.rev <= f.base
         /\ AckedOperationsLinear'
  <1>0. /\ wal \in Seq(WalEntry) /\ Newest.rev \in Nat /\ Recovered = Newest /\ Newest = Top
        /\ ChainValid(wal) /\ walTail # "rotten" /\ Sorted(wal) /\ Cuts(wal, Newest.rev)
        /\ Covered(wal, Newest.rev) /\ AckedOperationsLinear
    BY RecoveredIsTop, PublishedFacts DEF PubInv, TypeOK, JournalInv, Kept, Covered
  <1>1. ASSUME NEW c \in Commands, NEW base \in Revision, NEW idempotent \in BOOLEAN,
               NEW rev \in (base + 1)..MaxRevision, AppendWal(c, base, rev, idempotent)
        PROVE  /\ ChainValid(wal') /\ walTail' # "rotten" /\ Sorted(wal')
               /\ Cuts(wal', Newest.rev)
               /\ \A e \in ackedOps' : \/ e \in Entries(wal')
                                       \/ /\ e.rev <= Newest.rev
                                          /\ \A f \in Entries(wal') : e.rev <= f.base
               /\ AckedOperationsLinear'
    BY <1>1, AppendStep
  <1>2. CASE Recover \/ CommitAck
    <2>1. /\ wal' \in Converged(wal, Newest.rev) /\ ackedOps' = ackedOps
          /\ walTail' \in {walTail, Repaired(walTail)}
      <3>1. CASE Recover
        BY <1>0, <3>1 DEF Recover, history
      <3>2. CASE CommitAck
        <4>1. call.man = Newest
          BY <1>0, <3>2 DEF CommitAck, PubInv, Committing
        <4> QED
          BY <3>2, <4>1 DEF CommitAck
      <3> QED
        BY <1>2, <3>1, <3>2
    <2>2. walTail' # "rotten"
      BY <1>0, <2>1 DEF Repaired
    <2>3. ChainValid(wal') /\ Sorted(wal') /\ Cuts(wal', Newest.rev) /\ Covered(wal', Newest.rev)
      BY <1>0, <2>1, MaintainedKeeps, MaintainedCovers
    <2>4. AckedOperationsLinear'
      BY <1>0, <2>1 DEF AckedOperationsLinear
    <2> QED
      BY <2>1, <2>2, <2>3, <2>4 DEF Covered
  <1>3. CASE \/ (\E t \in TxIds : CommitCheck(t)) \/ ReadWal
             \/ UNCHANGED <<wal, walTail, ackedOps>>
    <2>1. wal' = wal /\ ackedOps' = ackedOps /\ walTail' \in {walTail, Repaired(walTail)}
      BY <1>3 DEF CommitCheck, ReadWal, history
    <2>2. walTail' # "rotten"
      BY <1>0, <2>1 DEF Repaired
    <2>3. AckedOperationsLinear'
      BY <1>0, <2>1 DEF AckedOperationsLinear
    <2> QED
      BY <1>0, <2>1, <2>2, <2>3 DEF Covered
  <1> QED
    BY <1>1, <1>2, <1>3, WhoWritesTheLog

\* Only a publication moves the checkpoint, and then not the log.
LEMMA NewestStep ==
  ASSUME PubInv, DamageKinds = {}, [Next]_vars
  PROVE  \/ Newest' = Newest
         \/ /\ CommitPublish /\ Newest' = call.man /\ UNCHANGED <<wal, walTail, ackedOps>>
            /\ call.man.rev \in Nat /\ Newest.rev \in Nat /\ Newest.rev <= call.man.rev
  <1>1. (Newest = Top)'
    <2>1. TypeOK' /\ PublishedGenerationsIntact'
      BY NextTypeOK, IntactStep DEF PubInv
    <2> QED
      BY <2>1, NewestIsTop, PTL
  <1>2. Newest = Top /\ Top.rev \in Nat
    BY RecoveredIsTop, PublishedFacts DEF PubInv
  <1>3. CASE UNCHANGED super
    BY <1>1, <1>2, <1>3 DEF Top
  <1>4. CASE CommitPublish
    <2>1. ContinuesTop(call.man) /\ Top' = call.man /\ call.man \in Manifest
      BY <1>4, AfterPublish DEF CommitPublish, PubInv, Committing
    <2>2. call.man.rev \in Nat
      BY <2>1, ManifestFields, BoundsAssumption DEF ManifestOrNone, Revision
    <2> QED
      BY <1>1, <1>2, <1>4, <2>1, <2>2 DEF ContinuesTop, CommitPublish, history
  <1> QED
    BY <1>3, <1>4, WhoPublishes

\* The boundary a commit checked is still one when it publishes.
LEMMA PendingStep ==
  ASSUME PubInv, JournalInv, DamageKinds = {}, ~CheckpointAhead, [Next]_vars,
         call'.pc \in {"manifest", "publish"}
  PROVE  Cuts(wal', call'.man.rev)
  <1>0. call \in CallShape /\ wal \in Seq(WalEntry)
    BY DEF PubInv, TypeOK, CallShape
  <1>1. ASSUME NEW t \in TxIds, CommitCheck(t) PROVE Cuts(wal', call'.man.rev)
    <2>1. PICK g \in Unused(txs[t].base.gen) : call' = Prepared(t, g)
      BY <1>1 DEF CommitCheck, Idle
    <2>2. /\ call'.man.rev = txs[t].rev /\ wal' = wal /\ Journaled(txs[t].rev)
          /\ BoundaryRespected(txs[t].rev) /\ txs[t].base = Newest
      BY <1>1, <2>1 DEF CommitCheck, Idle, Prepared, IdleCall, BaseIsCurrent
    <2>3. txs[t].rev \in Nat /\ Newest.rev \in Nat /\ Newest.rev <= txs[t].rev
      BY <2>2, RecoveredIsTop, PublishedFacts, BoundsAssumption
         DEF PubInv, TypeOK, Transaction, Revision, TransactionsForward
    <2>4. wal # <<>> => wal[1].base <= txs[t].rev /\ txs[t].rev <= wal[Len(wal)].rev
      <3>1. wal # <<>> => wal[1].base <= Newest.rev /\ wal[1].base \in Nat
        BY <1>0, EntryFields DEF JournalInv, Cuts
      <3> QED
        BY <2>2, <2>3, <3>1 DEF Journaled
    <2> QED
      BY <1>0, <2>2, <2>3, <2>4, ContinuesCuts DEF JournalInv, BoundaryRespected
  <1>2. CASE CommitManifest
    BY <1>0, <1>2 DEF CommitManifest, CallShape, JournalInv
  <1>3. CASE CommitPublish \/ CommitAck \/ CommitFails \/ Crash \/ Compact
    BY <1>0, <1>3, IdleCallType
       DEF CommitPublish, CommitAck, CommitFails, Crash, Compact, CompactPlan, CompactRemove,
           CompactPlanSweep, CompactSweep, CompactEnds, CallShape, IdleCall
  <1>4. CASE UNCHANGED call
    <2>1. call.pc # "idle" /\ Cuts(wal, call.man.rev)
      BY <1>4 DEF JournalInv
    <2>2. wal' = wal
      BY <1>4, <2>1
         DEF Next, Commit, Compact, vars, memory, disk, history, BeginSave, AbortSave, Idle,
             PutRecord, RemoveRecord, CommitCheck, CommitManifest, CommitPublish, CommitFails,
             CommitAck, AppendWal, Recover, ReadWal, Reconcile, CompactPlan, CompactRemove,
             CompactPlanSweep, CompactSweep, CompactEnds, Crash, MediaDamage, IdleCall
    <2> QED
      BY <1>4, <2>1, <2>2
  <1>5. \/ (\E t \in TxIds : CommitCheck(t)) \/ CommitManifest
        \/ CommitPublish \/ CommitAck \/ CommitFails \/ Crash \/ Compact
        \/ UNCHANGED call
    BY DEF Next, Commit, vars, memory, BeginSave, AbortSave, PutRecord, RemoveRecord,
           AppendWal, Recover, ReadWal, Reconcile, MediaDamage, history
  <1> QED
    BY <1>1, <1>2, <1>3, <1>4, <1>5

LEMMA JournalInvStep ==
  DamageKinds = {} /\ ~CheckpointAhead /\ PubInv /\ JournalInv /\ [Next]_vars => JournalInv'
  <1> SUFFICES ASSUME DamageKinds = {}, ~CheckpointAhead, PubInv, JournalInv, [Next]_vars
               PROVE  JournalInv'
    OBVIOUS
  <1>1. /\ ChainValid(wal') /\ walTail' # "rotten" /\ Sorted(wal') /\ AckedOperationsLinear'
        /\ Cuts(wal', Newest.rev)
        /\ \A e \in ackedOps' : \/ e \in Entries(wal')
                                \/ /\ e.rev <= Newest.rev
                                   /\ \A f \in Entries(wal') : e.rev <= f.base
    BY LineStep
  <1>2. call'.pc \in {"manifest", "publish"} => Cuts(wal', call'.man.rev)
    BY PendingStep
  <1>3. Cuts(wal', Newest'.rev) /\ Kept'
    <2>1. CASE Newest' = Newest
      BY <1>1, <2>1 DEF Kept
    <2>2. CASE /\ CommitPublish /\ Newest' = call.man /\ UNCHANGED <<wal, walTail, ackedOps>>
               /\ call.man.rev \in Nat /\ Newest.rev \in Nat /\ Newest.rev <= call.man.rev
      <3>1. Cuts(wal', Newest'.rev)
        BY <2>2 DEF CommitPublish, JournalInv
      <3>2. ackedOps \subseteq WalEntry /\ \A e \in WalEntry : e.rev \in Nat
        BY BoundsAssumption DEF PubInv, TypeOK, WalEntry, Revision
      <3> QED
        BY <2>2, <3>1, <3>2 DEF JournalInv, Kept
    <2> QED
      BY <2>1, <2>2, NewestStep
  <1> QED
    BY <1>1, <1>2, <1>3 DEF JournalInv

LEMMA JournalInvInit == Init => JournalInv
  <1> SUFFICES ASSUME Init PROVE JournalInv
    OBVIOUS
  <1>1. wal = <<>> /\ walTail = "none" /\ ackedOps = {} /\ call.pc = "idle"
    BY DEF Init, IdleCall
  <1> QED
    BY <1>1 DEF JournalInv, ChainValid, Sorted, Cuts, Kept, AckedOperationsLinear

\* The journal invariant holds in every reachable state of a slot whose client journals
\* every operation.
THEOREM JournalInvariant == DamageKinds = {} /\ ~CheckpointAhead /\ Spec => []JournalInv
  <1>1. ASSUME DamageKinds = {}, ~CheckpointAhead PROVE Spec => []JournalInv
    <2>1. PubInv /\ JournalInv /\ [Next]_vars => JournalInv'
      BY <1>1, JournalInvStep
    <2>2. Spec => []PubInv
      BY <1>1, PublicationInvariant
    <2> QED
      BY <2>1, <2>2, JournalInvInit, PTL DEF Spec
  <1> QED
    BY <1>1

\* What recovery finds: authenticated pointers in order, a whole log, and a log that
\* continues the checkpoint.
LEMMA InvariantsRecover == PubInv /\ JournalInv => AlwaysRecoverable
  <1> SUFFICES ASSUME PubInv, JournalInv PROVE AlwaysRecoverable
    OBVIOUS
  <1>1. \A s \in Pointers : /\ super[s] # Damaged /\ Candidate(s) = super[s]
    BY PublishedFacts DEF PubInv
  <1>2. OrderConsistent
    BY <1>1 DEF OrderConsistent, Candidates, PubInv, Ordered
  <1>3. \A s \in Pointers : InvalidIsOlder(s)
    BY DEF InvalidIsOlder, PubInv, PublishedGenerationsIntact
  <1>4. WalRepairable
    BY DEF WalRepairable, JournalInv
  <1>5. ActiveContinues(wal, Newest.rev)
    BY CutsContinue, RecoveredIsTop, PublishedFacts DEF JournalInv, PubInv, TypeOK
  <1> QED
    BY <1>1, <1>2, <1>3, <1>4, <1>5 DEF AlwaysRecoverable, ScanSucceeds

\* Without media damage the slot recovers from every state: after any error and any crash
\* inside a commit, a compaction or an append.
THEOREM SlotAlwaysRecovers ==
  DamageKinds = {} /\ ~CheckpointAhead /\ Spec => []AlwaysRecoverable
  <1>1. ASSUME DamageKinds = {}, ~CheckpointAhead PROVE Spec => []AlwaysRecoverable
    <2>1. Spec => []PubInv /\ []JournalInv
      BY <1>1, PublicationInvariant, JournalInvariant
    <2> QED
      BY <2>1, InvariantsRecover, PTL
  <1> QED
    BY <1>1

\* Without media damage no operation reported as journaled is lost: it is in the
\* checkpoint's past or in the log to be replayed.
THEOREM JournaledOperationsSurvive ==
  DamageKinds = {} /\ ~CheckpointAhead /\ Spec => []AckedOperationsRecoverable
  <1>1. JournalInv => AckedOperationsRecoverable
    BY DEF JournalInv, Kept, AckedOperationsRecoverable
  <1>2. ASSUME DamageKinds = {}, ~CheckpointAhead PROVE Spec => []AckedOperationsRecoverable
    <2>1. Spec => []JournalInv
      BY <1>2, JournalInvariant
    <2> QED
      BY <1>1, <2>1, PTL
  <1> QED
    BY <1>2

\* The operations a client was told about form one line of history, across retries,
\* crashes, checkpoints and reused command ids.
THEOREM JournaledOperationsFormALine ==
  DamageKinds = {} /\ ~CheckpointAhead /\ Spec => []AckedOperationsLinear
  <1>1. JournalInv => AckedOperationsLinear
    BY DEF JournalInv
  <1>2. ASSUME DamageKinds = {}, ~CheckpointAhead PROVE Spec => []AckedOperationsLinear
    <2>1. Spec => []JournalInv
      BY <1>2, JournalInvariant
    <2> QED
      BY <1>1, <2>1, PTL
  <1> QED
    BY <1>2

-----------------------------------------------------------------------------
(***************************************************************************)
(* Refinement.  Without media damage the store implements DurableSlot: what *)
(* is interrupted, retried or compacted, a client sees one checkpoint that  *)
(* is replaced atomically and one log that continues it.  The invariants    *)
(* above place the checkpoint on an operation's boundary (Cuts); what is    *)
(* left is to follow the part of the log behind that boundary through an    *)
(* append, a truncation and a publication.                                  *)
(***************************************************************************)

-----------------------------------------------------------------------------
(* Numbers and sequences *)

\* A set of natural numbers has a smallest element.
LEMMA SmallestOf ==
  ASSUME NEW T, T \subseteq Nat, T # {}
  PROVE  \E m \in T : \A n \in T : m <= n
  <1> DEFINE R == OpToRel(<, Nat)
  <1>1. IsWellFoundedOn(R, Nat)
    BY NatLessThanWellFounded
  <1>2. ASSUME NEW m \in Nat, NEW n \in Nat, n < m PROVE <<n, m>> \in R
    <2>1. <<n, m>> \in Nat \X Nat /\ <<n, m>>[1] < <<n, m>>[2]
      BY <1>2
    <2> QED
      BY <2>1 DEF OpToRel
  <1> HIDE DEF R
  <1>3. PICK m \in T : \A n \in T : ~(<<n, m>> \in R)
    BY <1>1, WFMin
  <1>4. ASSUME NEW n \in T PROVE m <= n
    <2>1. m \in Nat /\ n \in Nat
      OBVIOUS
    <2>2. ~(<<n, m>> \in R)
      BY <1>3
    <2>3. ~(n < m)
      BY <1>2, <2>1, <2>2
    <2> QED
      BY <2>1, <2>3
  <1> QED
    BY <1>4

LEMMA SuffixFields ==
  ASSUME NEW S, NEW w \in Seq(S), NEW n \in 0..Len(w)
  PROVE  LET x == SubSeq(w, n + 1, Len(w)) IN
         /\ x \in Seq(S) /\ Len(x) = Len(w) - n
         /\ \A i \in 1..(Len(w) - n) : x[i] = w[n + i]
  OBVIOUS

LEMMA AppendFields ==
  ASSUME NEW S, NEW x \in Seq(S), NEW e \in S
  PROVE  /\ Append(x, e) \in Seq(S) /\ Len(Append(x, e)) = Len(x) + 1
         /\ \A i \in 1..(Len(x) + 1) :
               Append(x, e)[i] = IF i = Len(x) + 1 THEN e ELSE x[i]
  OBVIOUS

\* The rest of an extended log is the extended rest.
LEMMA SuffixOfAppend ==
  ASSUME NEW S, NEW w \in Seq(S), NEW n \in 0..Len(w), NEW e \in S
  PROVE  SubSeq(Append(w, e), n + 1, Len(w) + 1) = Append(SubSeq(w, n + 1, Len(w)), e)
  <1> DEFINE x == SubSeq(w, n + 1, Len(w))
             v == Append(w, e)
             y == SubSeq(v, n + 1, Len(w) + 1)
             z == Append(x, e)
             l == Len(w) - n
  <1>1. /\ x \in Seq(S) /\ Len(x) = l /\ l \in Nat /\ Len(w) \in Nat
        /\ \A i \in 1..l : x[i] = w[n + i]
    BY SuffixFields
  <1>2. v \in Seq(S) /\ Len(v) = Len(w) + 1
    OBVIOUS
  <1>3. /\ y \in Seq(S) /\ Len(y) = l + 1
        /\ \A i \in 1..(l + 1) : y[i] = v[n + i]
    BY <1>2
  <1>4. \A i \in 1..(l + 1) : v[n + i] = IF i = l + 1 THEN e ELSE w[n + i]
    BY <1>2
  <1> HIDE DEF x, y, l, v
  <1>5. /\ z \in Seq(S) /\ Len(z) = l + 1
        /\ \A i \in 1..(l + 1) : z[i] = IF i = l + 1 THEN e ELSE x[i]
    <2>1. /\ Append(x, e) \in Seq(S) /\ Len(Append(x, e)) = Len(x) + 1
          /\ \A i \in 1..(Len(x) + 1) :
                Append(x, e)[i] = IF i = Len(x) + 1 THEN e ELSE x[i]
      BY <1>1, AppendFields
    <2> QED
      BY <1>1, <2>1
  <1> HIDE DEF z
  <1>6. ASSUME NEW i \in 1..(l + 1) PROVE z[i] = y[i]
    <2>1. CASE i = l + 1
      BY <1>1, <1>3, <1>4, <1>5, <2>1
    <2>2. CASE i # l + 1
      <3>1. i \in 1..l
        BY <1>1, <2>2
      <3> QED
        BY <1>1, <1>3, <1>4, <1>5, <2>2, <3>1
    <2> QED
      BY <2>1, <2>2
  <1>7. z = y
    BY <1>3, <1>5, <1>6, SeqEqual
  <1> QED
    BY <1>7 DEF x, y, z, v

\* The rest of the rest.
LEMMA SuffixOfSuffix ==
  ASSUME NEW S, NEW w \in Seq(S), NEW n \in 0..Len(w), NEW k \in 0..(Len(w) - n)
  PROVE  LET x == SubSeq(w, n + 1, Len(w))
         IN  SubSeq(x, k + 1, Len(x)) = SubSeq(w, n + k + 1, Len(w))
  <1> DEFINE x == SubSeq(w, n + 1, Len(w))
             y == SubSeq(x, k + 1, Len(x))
             z == SubSeq(w, n + k + 1, Len(w))
             l == Len(w) - n
  <1>1. /\ x \in Seq(S) /\ Len(x) = l /\ l \in Nat /\ Len(w) \in Nat
        /\ \A i \in 1..l : x[i] = w[n + i]
    BY SuffixFields
  <1>2. n + k \in 0..Len(w) /\ Len(w) - (n + k) = l - k
    BY <1>1
  <1>3. /\ z \in Seq(S) /\ Len(z) = l - k
        /\ \A i \in 1..(l - k) : z[i] = w[(n + k) + i]
    BY <1>2, SuffixFields
  <1> HIDE DEF x, l, z
  <1>4. k \in 0..Len(x)
    BY <1>1 DEF l
  <1>5. /\ y \in Seq(S) /\ Len(y) = l - k
        /\ \A i \in 1..(l - k) : y[i] = x[k + i]
    BY <1>1, <1>4, SuffixFields
  <1> HIDE DEF y
  <1>6. ASSUME NEW i \in 1..(l - k) PROVE y[i] = z[i]
    <2>1. k + i \in 1..l /\ n + (k + i) = (n + k) + i
      BY <1>1, <1>4
    <2> QED
      BY <1>1, <1>3, <1>5, <2>1
  <1>7. y = z
    BY <1>3, <1>5, <1>6, SeqEqual
  <1> QED
    BY <1>7 DEF x, y, z

-----------------------------------------------------------------------------
(* The part of the log a checkpoint leaves to replay *)

\* What CoveredCount counts.
Covers(w, rev, n) ==
  /\ n \in 0..Len(w)
  /\ \A i \in 1..n : ~IsActive(w[i], rev)
  /\ n < Len(w) => IsActive(w[n + 1], rev)

LEMMA CoveredCountCovers ==
  ASSUME NEW w \in Seq(WalEntry), NEW rev
  PROVE  Covers(w, rev, CoveredCount(w, rev))
  <1>1. \E n \in 0..Len(w) : /\ \A i \in 1..n : ~IsActive(w[i], rev)
                             /\ n < Len(w) => IsActive(w[n + 1], rev)
    <2> DEFINE T == {n \in 0..Len(w) : n = Len(w) \/ IsActive(w[n + 1], rev)}
    <2>1. T \subseteq Nat /\ Len(w) \in T /\ Len(w) \in Nat
      OBVIOUS
    <2>2. PICK m \in T : \A n \in T : m <= n
      BY <2>1, SmallestOf
    <2>3. ASSUME NEW i \in 1..m PROVE ~IsActive(w[i], rev)
      <3>1. i - 1 \in 0..Len(w) /\ (i - 1) + 1 = i /\ ~(m <= i - 1)
        BY <2>1
      <3>2. i - 1 \notin T
        BY <2>2, <3>1
      <3> QED
        BY <3>1, <3>2
    <2> QED
      BY <2>1, <2>3
  <1> QED
    BY <1>1 DEF Covers, CoveredCount

\* On a sorted log there is one such count.
LEMMA CoversOnce ==
  ASSUME NEW w \in Seq(WalEntry), NEW rev \in Nat, ChainValid(w), Sorted(w),
         NEW n, NEW m, Covers(w, rev, n), Covers(w, rev, m)
  PROVE  ~(n < m)
  <1> SUFFICES ASSUME n < m PROVE FALSE
    OBVIOUS
  <1>1. n \in Nat /\ m \in Nat /\ n + 1 \in 1..m /\ n < Len(w)
    BY DEF Covers
  <1> QED
    BY <1>1 DEF Covers

LEMMA CountIs ==
  ASSUME NEW w \in Seq(WalEntry), NEW rev \in Nat, ChainValid(w), Sorted(w),
         NEW n, Covers(w, rev, n)
  PROVE  CoveredCount(w, rev) = n /\ ToReplay(w, rev) = SubSeq(w, n + 1, Len(w))
  <1>1. Covers(w, rev, CoveredCount(w, rev))
    BY CoveredCountCovers
  <1>2. ~(n < CoveredCount(w, rev)) /\ ~(CoveredCount(w, rev) < n)
    BY <1>1, CoversOnce
  <1>3. n \in Nat /\ CoveredCount(w, rev) \in Nat
    BY <1>1 DEF Covers
  <1>4. CoveredCount(w, rev) = n
    BY <1>2, <1>3
  <1> QED
    BY <1>4 DEF ToReplay

\* A log the checkpoint covers leaves nothing to replay.
LEMMA NothingToReplay ==
  ASSUME NEW w \in Seq(WalEntry), NEW rev \in Nat, ChainValid(w), Sorted(w),
         \A f \in Entries(w) : f.rev <= rev
  PROVE  Covers(w, rev, Len(w)) /\ ToReplay(w, rev) = <<>>
  <1>1. \A i \in 1..Len(w) : ~IsActive(w[i], rev)
    BY EntryFields DEF Entries, IsActive
  <1>2. Covers(w, rev, Len(w))
    BY <1>1 DEF Covers
  <1>3. ToReplay(w, rev) = SubSeq(w, Len(w) + 1, Len(w))
    BY <1>2, CountIs
  <1>4. Len(w) \in Nat
    OBVIOUS
  <1> QED
    BY <1>2, <1>3, <1>4, SubSeqEmpty

\* Truncation changes nothing a client can see.
LEMMA ConvergedReplays ==
  ASSUME NEW w \in Seq(WalEntry), NEW rev \in Nat, ChainValid(w), Sorted(w),
         Cuts(w, rev), NEW x \in Converged(w, rev)
  PROVE  ToReplay(x, rev) = ToReplay(w, rev)
  <1>1. CASE x = w
    BY <1>1
  <1>2. CASE x = <<>> /\ \A f \in Entries(w) : f.rev <= rev
    <2>1. ChainValid(x) /\ Sorted(x) /\ x \in Seq(WalEntry) /\ Entries(x) = {}
      BY <1>2, MaintainedKeeps DEF Entries
    <2> QED
      BY <1>2, <2>1, NothingToReplay
  <1> QED
    BY <1>1, <1>2, ConvergedKeeps

\* The revision a client reaches is the one the next operation has to start from.
LEMMA ReachedIsHead ==
  ASSUME NEW w \in Seq(WalEntry), NEW rev \in Nat, ChainValid(w), Sorted(w), Cuts(w, rev)
  PROVE  LET r == ToReplay(w, rev)
         IN  HeadRevision(w, rev) = IF r = <<>> THEN rev ELSE r[Len(r)].rev
  <1> DEFINE n == CoveredCount(w, rev)
             r == ToReplay(w, rev)
  <1>1. Covers(w, rev, n)
    BY CoveredCountCovers
  <1>2. n \in 0..Len(w) /\ n \in Nat /\ Len(w) \in Nat
    BY <1>1 DEF Covers
  <1>3. /\ r \in Seq(WalEntry) /\ Len(r) = Len(w) - n
        /\ \A i \in 1..(Len(w) - n) : r[i] = w[n + i]
    BY <1>2, SuffixFields DEF ToReplay
  <1> HIDE DEF r
  <1>4. CASE n = Len(w)
    <2>1. ~HasActive(w, rev)
      BY <1>1, <1>4 DEF Covers, HasActive, Entries
    <2>2. r = <<>>
      BY <1>2, <1>3, <1>4
    <2> QED
      BY <2>1, <2>2 DEF HeadRevision, r
  <1>5. CASE n < Len(w)
    <2>1. HasActive(w, rev)
      <3>1. n + 1 \in 1..Len(w) /\ IsActive(w[n + 1], rev)
        BY <1>1, <1>2, <1>5 DEF Covers
      <3> QED
        BY <3>1 DEF HasActive, Entries
    <2>2. r # <<>> /\ Len(r) \in 1..(Len(w) - n) /\ n + Len(r) = Len(w)
      BY <1>2, <1>3, <1>5
    <2>3. r[Len(r)] = w[Len(w)]
      BY <1>3, <2>2
    <2> QED
      BY <2>1, <2>2, <2>3 DEF HeadRevision, r
  <1> QED
    BY <1>2, <1>4, <1>5

\* An appended operation is appended to what is left to replay.
LEMMA AppendReplays ==
  ASSUME NEW w \in Seq(WalEntry), NEW rev \in Nat, NEW e \in WalEntry,
         ChainValid(w), Sorted(w), Cuts(w, rev),
         ChainValid(Append(w, e)), Sorted(Append(w, e)), e.rev > rev
  PROVE  ToReplay(Append(w, e), rev) = Append(ToReplay(w, rev), e)
  <1> DEFINE x == Append(w, e)
             n == CoveredCount(w, rev)
  <1>1. Covers(w, rev, n)
    BY CoveredCountCovers
  <1>2. n \in 0..Len(w) /\ Len(w) \in Nat
    BY <1>1 DEF Covers
  <1>3. /\ x \in Seq(WalEntry) /\ Len(x) = Len(w) + 1
        /\ \A i \in 1..Len(w) : x[i] = w[i]
        /\ x[Len(w) + 1] = e
    BY Appended
  <1>4. ToReplay(w, rev) = SubSeq(w, n + 1, Len(w))
    BY DEF ToReplay
  <1> HIDE DEF x, n
  <1>5. Covers(x, rev, n)
    BY <1>1, <1>2, <1>3 DEF Covers, IsActive
  <1>6. ToReplay(x, rev) = SubSeq(x, n + 1, Len(x))
    BY <1>3, <1>5, CountIs DEF x
  <1>7. SubSeq(x, n + 1, Len(w) + 1) = Append(SubSeq(w, n + 1, Len(w)), e)
    BY <1>2, SuffixOfAppend DEF x
  <1> QED
    BY <1>3, <1>4, <1>6, <1>7 DEF x

-----------------------------------------------------------------------------
(* The refinement *)

LEMMA AppendOperates ==
  ASSUME PubInv, JournalInv, NEW c \in Commands, NEW base \in Revision,
         NEW idempotent \in BOOLEAN, NEW rev \in (base + 1)..MaxRevision,
         AppendWal(c, base, rev, idempotent), Newest' = Newest
  PROVE  [Slot!Next]_(Slot!vars)
  <1> DEFINE op == [base |-> base, rev |-> rev, cmd |-> c]
             ck == Newest.rev
  <1>0. /\ Recovered.rev = ck /\ ck \in Nat /\ op \in WalEntry /\ wal \in Seq(WalEntry)
        /\ op.base = base /\ op.rev = rev /\ op.cmd = c
        /\ base \in Nat /\ rev \in Nat /\ base < rev
    <2>1. Recovered.rev = ck /\ ck \in Nat
      BY RecoveredIsTop, PublishedFacts DEF PubInv
    <2>2. base \in 0..MaxRevision /\ rev \in 0..MaxRevision /\ base < rev
      BY BoundsAssumption DEF Revision
    <2> QED
      BY <2>1, <2>2 DEF PubInv, TypeOK, WalEntry, Revision
  <1>1. ChainValid(wal) /\ Sorted(wal) /\ Cuts(wal, ck)
    BY DEF JournalInv
  <1>2. ChainValid(wal') /\ Sorted(wal')
    BY AppendStep
  <1> HIDE DEF op, ck
  <1>3. \/ \E w \in Converged(wal, ck) \union {wal} : wal' = w
        \/ \E w \in Converged(wal, ck) : base = HeadRevision(w, ck) /\ wal' = Append(w, op)
    BY <1>0 DEF AppendWal, Maintained, op
  <1>4. Newest'.rev = ck /\ Newest'.recs = Newest.recs
    BY DEF ck
  <1>5. CASE \E w \in Converged(wal, ck) \union {wal} : wal' = w
    <2>1. ToReplay(wal', ck) = ToReplay(wal, ck)
      BY <1>0, <1>1, <1>5, ConvergedReplays
    <2>2. UNCHANGED Slot!vars
      BY <1>4, <2>1 DEF Slot!vars, ck
    <2> QED
      BY <2>2
  <1>6. ASSUME NEW w \in Converged(wal, ck), base = HeadRevision(w, ck), wal' = Append(w, op)
        PROVE  Slot!Operate
    <2>1. w \in Seq(WalEntry) /\ ChainValid(w) /\ Sorted(w) /\ Cuts(w, ck)
      BY <1>0, <1>1, MaintainedKeeps
    <2>2. ToReplay(w, ck) = ToReplay(wal, ck)
      BY <1>0, <1>1, ConvergedReplays
    <2>3. op.base = Slot!Reached
      BY <1>0, <1>6, <2>1, <2>2, ReachedIsHead DEF Slot!Reached, ck
    <2>4. op.base >= ck
      <3>1. /\ w = <<>> => HeadRevision(w, ck) = ck
            /\ w # <<>> => HeadRevision(w, ck) = w[Len(w)].rev
        BY <1>0, <2>1, HeadIsLast
      <3>2. w # <<>> => ck <= w[Len(w)].rev
        BY <2>1 DEF Cuts
      <3> QED
        BY <1>0, <1>6, <3>1, <3>2
    <2>5. ToReplay(wal', ck) = Append(ToReplay(wal, ck), op)
      BY <1>0, <1>2, <1>6, <2>1, <2>2, <2>4, AppendReplays
    <2> QED
      BY <1>0, <1>4, <2>3, <2>5 DEF Slot!Operate, ck
  <1> QED
    BY <1>3, <1>5, <1>6 DEF Slot!Next

\* A publication is one checkpoint that absorbs the operations it covers.
LEMMA PublishCheckpoints ==
  ASSUME PubInv, JournalInv, CommitPublish, Newest' = call.man,
         UNCHANGED wal, Newest.rev <= call.man.rev
  PROVE  Slot!Checkpoint
  <1> DEFINE m == call.man
             n == CoveredCount(wal, Newest.rev)
             q == CoveredCount(wal, m.rev)
             log == ToReplay(wal, Newest.rev)
  <1>0. /\ m \in Manifest /\ m.rev \in 0..MaxRevision /\ m.rev \in Nat /\ Newest.rev \in Nat
        /\ m.recs \in [Keys -> Values \union {None}] /\ wal \in Seq(WalEntry)
        /\ MaxRevision \in Nat
    BY AfterPublish, RecoveredIsTop, PublishedFacts, BoundsAssumption, SMTT(30)
       DEF Manifest, Revision, PubInv, TypeOK
  <1>1. ChainValid(wal) /\ Sorted(wal) /\ Cuts(wal, m.rev)
    BY DEF JournalInv, CommitPublish
  <1>2. Covers(wal, Newest.rev, n) /\ Covers(wal, m.rev, q)
    BY <1>0, CoveredCountCovers
  <1>3. n \in 0..Len(wal) /\ q \in 0..Len(wal) /\ Len(wal) \in Nat
    BY <1>0, <1>2 DEF Covers
  <1>4. Newest'.rev = m.rev /\ Newest'.recs = m.recs /\ wal' = wal
    OBVIOUS
  <1>5. log = SubSeq(wal, n + 1, Len(wal)) /\ ToReplay(wal, m.rev) = SubSeq(wal, q + 1, Len(wal))
    BY DEF ToReplay
  <1>6. /\ Len(log) = Len(wal) - n
        /\ \A i \in 1..(Len(wal) - n) : log[i] = wal[n + i]
    BY <1>0, <1>3, <1>5, SuffixFields
  <1> HIDE DEF n, q
  <1>7. n <= q
    <2> SUFFICES ASSUME q < n PROVE FALSE
      BY <1>3
    <2>1. q + 1 \in 1..n /\ q + 1 \in 1..Len(wal) /\ q < Len(wal)
      BY <1>3
    <2>2. wal[q + 1].rev \in Nat /\ IsActive(wal[q + 1], m.rev) /\ ~IsActive(wal[q + 1], Newest.rev)
      BY <1>0, <1>2, <2>1, EntryFields DEF Covers
    <2> QED
      BY <1>0, <2>2 DEF IsActive
  <1>8. q - n \in 0..Len(log) /\ n + (q - n) = q
    BY <1>3, <1>6, <1>7
  <1>9. ASSUME NEW i \in 1..(q - n) PROVE log[i].rev <= m.rev
    <2>1. n + i \in 1..q /\ n + i \in 1..Len(wal) /\ i \in 1..(Len(wal) - n)
      BY <1>3, <1>7
    <2>2. wal[n + i].rev \in Nat /\ ~IsActive(wal[n + i], m.rev)
      BY <1>0, <1>2, <2>1, EntryFields DEF Covers
    <2> QED
      BY <1>0, <1>6, <2>1, <2>2 DEF IsActive
  <1>10. ASSUME q - n < Len(log) PROVE log[(q - n) + 1].base = m.rev
    <2>1. q < Len(wal) /\ q + 1 \in 1..Len(wal) /\ (q - n) + 1 \in 1..(Len(wal) - n)
          /\ n + ((q - n) + 1) = q + 1 /\ (q + 1) - 1 = q
      BY <1>3, <1>6, <1>7, <1>10
    <2>2. IsActive(wal[q + 1], m.rev) /\ \A j \in 1..q : ~IsActive(wal[j], m.rev)
      BY <1>2, <2>1 DEF Covers
    <2>3. ActiveContinues(wal, m.rev)
      BY <1>0, <1>1, CutsContinue
    <2>4. wal[q + 1].base = m.rev
      BY <2>1, <2>2, <2>3 DEF ActiveContinues
    <2> QED
      BY <1>6, <2>1, <2>4
  <1>11. ToReplay(wal, m.rev) = SubSeq(log, (q - n) + 1, Len(log))
    <2>1. q - n \in 0..(Len(wal) - n)
      BY <1>6, <1>8
    <2>2. SubSeq(log, (q - n) + 1, Len(log)) = SubSeq(wal, n + (q - n) + 1, Len(wal))
      BY <1>0, <1>3, <1>5, <2>1, SuffixOfSuffix
    <2> QED
      BY <1>5, <1>8, <2>2
  <1> HIDE DEF log, m
  <1>12. /\ m.rev \in Newest.rev..MaxRevision /\ q - n \in 0..Len(log)
         /\ \A i \in 1..(q - n) : log[i].rev <= m.rev
         /\ q - n < Len(log) => log[(q - n) + 1].base = m.rev
         /\ Newest'.rev = m.rev /\ Newest'.recs \in [Keys -> Values \union {None}]
         /\ ToReplay(wal', Newest'.rev) = SubSeq(log, (q - n) + 1, Len(log))
    BY <1>0, <1>4, <1>8, <1>9, <1>10, <1>11 DEF m
  <1> QED
    BY <1>12 DEF Slot!Checkpoint, log

LEMMA SlotStep ==
  DamageKinds = {} /\ PubInv /\ JournalInv /\ [Next]_vars => [Slot!Next]_(Slot!vars)
  <1> SUFFICES ASSUME DamageKinds = {}, PubInv, JournalInv, [Next]_vars
               PROVE  [Slot!Next]_(Slot!vars)
    OBVIOUS
  <1>0. /\ wal \in Seq(WalEntry) /\ Newest.rev \in Nat /\ Recovered = Newest /\ Newest = Top
        /\ ChainValid(wal) /\ Sorted(wal) /\ Cuts(wal, Newest.rev)
    BY RecoveredIsTop, PublishedFacts DEF PubInv, TypeOK, JournalInv
  <1>1. ASSUME Newest' = Newest, NEW c \in Commands, NEW base \in Revision,
               NEW idempotent \in BOOLEAN, NEW rev \in (base + 1)..MaxRevision,
               AppendWal(c, base, rev, idempotent)
        PROVE  [Slot!Next]_(Slot!vars)
    BY <1>1, AppendOperates
  <1>2. CASE Newest' = Newest /\ (Recover \/ CommitAck)
    <2>1. wal' \in Converged(wal, Newest.rev)
      <3>1. CASE Recover
        BY <1>0, <3>1 DEF Recover
      <3>2. CASE CommitAck
        <4>1. call.man = Newest
          BY <1>0, <3>2 DEF CommitAck, PubInv, Committing
        <4> QED
          BY <3>2, <4>1 DEF CommitAck
      <3> QED
        BY <1>2, <3>1, <3>2
    <2>2. ToReplay(wal', Newest.rev) = ToReplay(wal, Newest.rev)
      BY <1>0, <2>1, ConvergedReplays
    <2>3. UNCHANGED Slot!vars
      BY <1>2, <2>2 DEF Slot!vars
    <2> QED
      BY <2>3
  <1>3. CASE /\ Newest' = Newest
             /\ \/ (\E t \in TxIds : CommitCheck(t)) \/ ReadWal
                \/ UNCHANGED <<wal, walTail, ackedOps>>
    <2>1. wal' = wal
      BY <1>3 DEF CommitCheck, ReadWal
    <2>2. UNCHANGED Slot!vars
      BY <1>3, <2>1 DEF Slot!vars
    <2> QED
      BY <2>2
  <1>4. CASE /\ CommitPublish /\ Newest' = call.man /\ UNCHANGED <<wal, walTail, ackedOps>>
             /\ call.man.rev \in Nat /\ Newest.rev \in Nat /\ Newest.rev <= call.man.rev
    BY <1>4, PublishCheckpoints DEF Slot!Next
  <1> QED
    BY <1>1, <1>2, <1>3, <1>4, WhoWritesTheLog, NewestStep

LEMMA SlotInit == Init => Slot!Init
  <1> SUFFICES ASSUME Init PROVE Slot!Init
    OBVIOUS
  <1>1. super["a"] = NoManifest /\ super["b"] = NoManifest /\ wal = <<>>
    BY DEF Init, Pointers
  <1>2. Newest = NoManifest
    BY <1>1 DEF Newest, Candidate
  <1>3. ChainValid(wal) /\ Sorted(wal) /\ wal \in Seq(WalEntry) /\ Entries(wal) = {}
    BY <1>1 DEF ChainValid, Sorted, Entries
  <1>4. ToReplay(wal, Newest.rev) = <<>>
    BY <1>2, <1>3, NothingToReplay, NoManifestFields
  <1> QED
    BY <1>2, <1>4, NoManifestFields DEF Slot!Init

\* Without media damage the store implements the slot it promises: publication is one
\* atomic checkpoint, an append one operation, and everything else, truncations, errors,
\* crashes, retries and compactions included, is invisible.
THEOREM StoreImplementsSlot ==
  DamageKinds = {} /\ ~CheckpointAhead /\ Spec => ImplementsDurableSlot
  <1>1. ASSUME DamageKinds = {}, ~CheckpointAhead PROVE Spec => ImplementsDurableSlot
    <2>1. Spec => []PubInv /\ []JournalInv
      BY <1>1, PublicationInvariant, JournalInvariant
    <2>2. PubInv /\ JournalInv /\ [Next]_vars => [Slot!Next]_(Slot!vars)
      BY <1>1, SlotStep
    <2> QED
      BY <2>1, <2>2, SlotInit, PTL DEF Spec, ImplementsDurableSlot, Slot!Spec
  <1> QED
    BY <1>1

=============================================================================
