----------------------------- MODULE CloudSaves -----------------------------
(***************************************************************************)
(* The cloud API's store of one account's save slot (server/index.mjs,      *)
(* cloud-payload-store.mjs).  Uploads, deletions and restorations of a      *)
(* revision are mutations: runAtomic queues them one behind the other, each *)
(* works on a clone of the published state, and commitMutation writes the   *)
(* state, the payload rows and the shared payload blobs in one SQLite       *)
(* transaction before it publishes the clone.  A blob is shared by all rows *)
(* of one checksum and is collected by reference counts that live in memory *)
(* and are rebuilt at every start.                                          *)
(*                                                                          *)
(* An upload carries a request id: delivered twice, it must land once.      *)
(* Clients are arbitrary here; CloudSync adds the game's own.               *)
(*                                                                          *)
(* A set of at most one element stands for a value that may be absent.      *)
(***************************************************************************)
EXTENDS CloudSlot

CONSTANTS
    MaxTries,       \* bound: deliveries of one operation
    MaxRetried,     \* bound: operations that are delivered more than once
    MaxFaults       \* bound: failed transactions and deaths of the server

ASSUME CloudAssumption == /\ MaxTries \in Nat \ {0}
                          /\ MaxRetried \in Nat /\ MaxFaults \in Nat

VARIABLES
    tries,      \* how often it has been delivered
    sent,       \* deliveries on their way to the mutation queue; a lost one stays here
    queued,     \* deliveries in mutationQueue
    reply,      \* the answer to the newest delivery
    server,     \* "up", "closing" (server.close was called) or "down"
    mutation,   \* the mutation that runs: its call, its draft, baseGeneration
    generation, \* commitGeneration
    rows,       \* cloud_save_payloads: revision -> checksum
    blobs,      \* cloud_save_payload_blobs
    refs,       \* cloudPayloadReferenceIndex and cloudPayloadReferenceCounts
    faults,
    landed      \* history variable: how often each operation was committed

callVars  == <<asked, tries, sent, queued, reply>>
tableVars == <<saves, rows, blobs>>
cloudVars == <<asked, tries, sent, queued, reply, server, mutation, generation,
               saves, rows, blobs, refs, faults, landed>>

Calls   == [op : Ops, try : 1..MaxTries]
Replies == [result : {"saved", "deleted", "conflict", "refused", "failed"},
            save : [revision : Nat, content : Contents \union {None}]]

\* One memory index entry per row, one count per checksum (buildCloudPayloadReferenceIndex).
Count(table, c) == Cardinality({r \in DOMAIN table : table[r] = c})
Indexed(table)  == [index |-> table, counts |-> [c \in Contents |-> Count(table, c)]]

CloudTypeOK ==
    /\ asked \in [Ops -> Requests \union {Unasked}]
    /\ tries \in [Ops -> 0..MaxTries]
    /\ sent \subseteq Calls /\ queued \subseteq Calls
    /\ reply \in [Ops -> Replies \union {None}]
    /\ server \in {"up", "closing", "down"}
    /\ \A m \in mutation : m.call \in Calls /\ m.base \in Nat
    /\ Cardinality(mutation) <= 1
    /\ generation \in Nat
    /\ saves.current \in Nat
    /\ \A r \in DOMAIN saves.history : r \in Nat \ {0} /\ saves.history[r] \in Contents
    /\ DOMAIN saves.receipts \subseteq Ops
    /\ blobs \subseteq Contents
    /\ faults \in 0..MaxFaults
    /\ landed \in [Ops -> Nat]

CloudInit ==
    /\ SlotInit
    /\ tries = [o \in Ops |-> 0]
    /\ sent = {} /\ queued = {}
    /\ reply = [o \in Ops |-> None]
    /\ server = "up"
    /\ mutation = {}
    /\ generation = 0
    /\ rows = Nothing
    /\ blobs = {}
    /\ refs = Indexed(Nothing)
    /\ faults = 0
    /\ landed = [o \in Ops |-> 0]

-----------------------------------------------------------------------------
(* Between a client and the mutation queue *)

\* A client asks for an operation.
Ask(o, q) ==
    /\ SlotAsk(o, q)
    /\ tries' = [tries EXCEPT ![o] = 1]
    /\ sent' = sent \union {[op |-> o, try |-> 1]}
    /\ UNCHANGED <<queued, reply, server, mutation, generation, rows, blobs, refs, faults, landed>>

\* An upload is delivered again under its request id: by the client, uncompressed, when
\* the first delivery was turned away, or by the transport when its connection broke.
AskAgain(o) ==
    /\ asked[o].kind = "put" /\ tries[o] < MaxTries
    /\ Cardinality({p \in Ops \ {o} : tries[p] > 1}) < MaxRetried
    /\ reply[o] # None => reply[o].result = "refused"
    /\ tries' = [tries EXCEPT ![o] = @ + 1]
    /\ sent' = sent \union {[op |-> o, try |-> tries[o] + 1]}
    /\ reply' = [reply EXCEPT ![o] = None]
    /\ UNCHANGED <<asked, queued, server, mutation, generation, tableVars, refs, faults, landed>>

\* Nobody listens any more for the answer to this delivery.
Abandoned(call) == call.try < tries[call.op]

\* An answer reaches the client, or is lost on its way.
Answer(call, result, save) ==
    \/ /\ ~Abandoned(call)
       /\ reply' = [reply EXCEPT ![call.op] = [result |-> result, save |-> save]]
    \/ UNCHANGED reply

\* The server turns a delivery away before it is a mutation: shutting down, inspection
\* queue full, disk almost full, encoding or payload invalid.
Refuse(call) ==
    /\ server # "down"
    /\ sent' = sent \ {call}
    /\ Answer(call, "refused", NoEntry)
    /\ UNCHANGED <<asked, tries, queued, server, mutation, generation, tableVars, refs, faults, landed>>

\* runAtomic while acceptingMutations.
Enqueue(call) ==
    /\ server = "up"
    /\ sent' = sent \ {call}
    /\ queued' = queued \union {call}
    /\ UNCHANGED <<asked, tries, reply, server, mutation, generation, tableVars, refs, faults, landed>>

-----------------------------------------------------------------------------
(* The mutation queue *)

\* Mutant: the next mutation starts while one is waiting for its write.
StartsUnqueued == TRUE

\* Mutant: the queue stands still once the server shuts down.
StartsWhileUp == mutation = {} /\ server = "up"

\* mutationQueue.then(execute): one mutation at a time.
StartsNext == mutation = {}

Start(call) ==
    /\ call \in queued
    /\ StartsNext
    /\ ~(asked[call.op].kind = "put" /\ server = "closing")
    /\ queued' = queued \ {call}
    /\ mutation' = mutation \union {[call |-> call, draft |-> saves, base |-> generation]}
    /\ UNCHANGED <<asked, tries, sent, reply, server, generation, tableVars, refs, faults, landed>>

\* An upload is cancelled before it starts: the server shuts down (uploadInspections.close
\* aborts every upload), or its connection was seen to close and no answer can reach it.
Cancel(call) ==
    /\ call \in queued
    /\ StartsNext
    /\ asked[call.op].kind = "put"
    /\ IF server = "closing" THEN Answer(call, "refused", NoEntry) ELSE UNCHANGED reply
    /\ queued' = queued \ {call}
    /\ UNCHANGED <<asked, tries, sent, server, mutation, generation, tableVars, refs, faults, landed>>

\* The mutation ends with an answer and without a commit.
Decline(m, result, save) ==
    /\ mutation' = mutation \ {m}
    /\ Answer(m.call, result, save)
    /\ UNCHANGED <<asked, tries, sent, queued, server, generation, tableVars, refs, landed>>

\* Mutant: receipts are not looked up.
NeverReplayed(m) == FALSE

\* A request id with a receipt: the operation has already been committed.
Replayed(m) == asked[m.call.op].kind = "put" /\ m.call.op \in DOMAIN m.draft.receipts

\* Mutant: a replay is answered with the save that is current by now.
ReceiptNow(m) == Current(m.draft)

\* previousReceipt.result
Receipt(m) == m.draft.receipts[m.call.op]

Replay(m) ==
    /\ Replayed(m)
    /\ Decline(m, "saved", Receipt(m))
    /\ UNCHANGED faults

\* Mutant: the expected revision is not compared with the draft's.
NeverMoved(m) == FALSE

\* The slot is not the one the client based its request on.
Moved(m) == Outdated(m.draft, asked[m.call.op])

Conflict(m) ==
    /\ ~Replayed(m)
    /\ Moved(m)
    /\ Decline(m, "conflict", Current(m.draft))
    /\ UNCHANGED faults

\* The revision to restore is not in the history, or a byte quota does not allow the save.
TurnDown(m) ==
    /\ ~Replayed(m) /\ ~Moved(m)
    /\ asked[m.call.op].kind # "delete"
    /\ Decline(m, "refused", NoEntry)
    /\ UNCHANGED faults

\* The database refuses the transaction, or commitMutation finds that another commit
\* overtook this one: nothing of the draft is kept.
CommitFails(m) ==
    /\ ~Replayed(m) /\ ~Moved(m)
    /\ m.base = generation => faults < MaxFaults
    /\ faults' = IF m.base = generation THEN faults + 1 ELSE faults
    /\ Decline(m, "failed", NoEntry)

-----------------------------------------------------------------------------
(* A commit *)

\* Mutant: an overwritten or deleted row keeps its count.
ProjectedUpwards(removed, write) ==
    [c \in Contents |-> refs.counts[c] + Cardinality({r \in DOMAIN write : write[r] = c})]

\* The counts after a commit that removes rows and writes others.
Projected(removed, write) ==
    [c \in Contents |-> (refs.counts[c] + Cardinality({r \in DOMAIN write : write[r] = c}))
                        - Cardinality({r \in removed : refs.index[r] = c})]

\* Mutant: a blob goes with any of its rows.
UncountedBlobs(candidates, counts) == candidates

\* Mutant: nothing is collected.
KeptBlobs(candidates, counts) == {}

\* Candidates for collection that no row refers to any more.
Unreferenced(candidates, counts) == {c \in candidates : counts[c] = 0}

\* commitCandidate: rows deleted and written, then the blobs of replaced rows collected by
\* the counts the memory index projects (prepareCloudPayloadReferenceCommit).
Write(deletes, write) ==
    LET written == DOMAIN write
        removed == (deletes \union written) \intersect DOMAIN refs.index
        counts  == Projected(removed, write)
    IN  /\ rows' = [r \in (DOMAIN rows \ deletes) \union written |->
                        IF r \in written THEN write[r] ELSE rows[r]]
        /\ blobs' = (blobs \union {write[r] : r \in written})
                    \ Unreferenced({refs.index[r] : r \in removed}, counts)
        /\ refs' = [index  |-> [r \in (DOMAIN refs.index \ deletes) \union written |->
                                    IF r \in written THEN write[r] ELSE refs.index[r]],
                    counts |-> counts]

Commit(m, draft, deletes, write) ==
    /\ m.base = generation
    /\ Write(deletes, write)
    /\ saves' = draft
    /\ generation' = generation + 1
    /\ mutation' = mutation \ {m}
    /\ landed' = [landed EXCEPT ![m.call.op] = @ + 1]
    /\ UNCHANGED <<asked, tries, sent, queued, server, faults>>

\* A new revision with its row.
CommitSave(m, draft, d, content) ==
    /\ Commit(m, draft, d, [r \in {draft.current} |-> content])
    /\ Answer(m.call, "saved", Current(draft))

Put(m) ==
    LET q == asked[m.call.op] IN
    /\ q.kind = "put" /\ ~Replayed(m) /\ ~Moved(m)
    /\ \E d \in Prunes(m.draft) :
          CommitSave(m, Receipted(Appended(m.draft, d, q.content), m.call.op), d, q.content)

Restore(m) ==
    LET q == asked[m.call.op] IN
    /\ q.kind = "restore" /\ ~Moved(m)
    /\ q.source \in DOMAIN m.draft.history
    /\ \E d \in Prunes(m.draft) :
          LET content == m.draft.history[q.source] IN
          CommitSave(m, Appended(m.draft, d, content), d, content)

Delete(m) ==
    /\ asked[m.call.op].kind = "delete" /\ ~Moved(m)
    /\ Commit(m, Emptied(m.draft), DOMAIN m.draft.history, Nothing)
    /\ Answer(m.call, "deleted", Current(m.draft))

Finish(m) ==
    \/ Replay(m) \/ Conflict(m) \/ TurnDown(m) \/ CommitFails(m)
    \/ Put(m) \/ Restore(m) \/ Delete(m)

-----------------------------------------------------------------------------
(* The process *)

\* server.close: no more mutations are accepted, the queued ones run to their end.
Close ==
    /\ server = "up"
    /\ server' = "closing"
    /\ UNCHANGED <<callVars, mutation, generation, tableVars, refs, faults, landed>>

\* finalizeClose: the queue has drained.
Stop ==
    /\ server = "closing"
    /\ queued = {} /\ mutation = {}
    /\ server' = "down"
    /\ UNCHANGED <<callVars, mutation, generation, tableVars, refs, faults, landed>>

\* The process dies; SQLite keeps the committed transactions.
Crash ==
    /\ server # "down" /\ faults < MaxFaults
    /\ server' = "down"
    /\ queued' = {} /\ mutation' = {}
    /\ faults' = faults + 1
    /\ UNCHANGED <<asked, tries, sent, reply, generation, tableVars, refs, landed>>

\* load: the state from SQLite, the memory index from the rows.
Boot ==
    /\ server = "down"
    /\ server' = "up"
    /\ generation' = 0
    /\ refs' = Indexed(rows)
    /\ UNCHANGED <<callVars, mutation, tableVars, faults, landed>>

ServerStep ==
    \/ \E call \in sent : Enqueue(call)
    \/ \E call \in queued : Start(call) \/ Cancel(call)
    \/ \E m \in mutation : Finish(m)
    \/ Stop \/ Boot

\* What may happen to a delivery or to the process at any time.
Mishap ==
    \/ \E call \in sent : Refuse(call)
    \/ Close \/ Crash

\* Arbitrary clients.
AnyClient ==
    \E o \in Ops :
        \/ \E q \in Requests : Ask(o, q)
        \/ AskAgain(o)

CloudNext == ServerStep \/ Mishap \/ AnyClient

CloudSpec == CloudInit /\ [][CloudNext]_cloudVars

\* Mutations that are queued or running come to their end; nothing is assumed of clients,
\* of the network or of operators.
CloudFairness ==
    /\ WF_cloudVars(\E call \in queued : Start(call) \/ Cancel(call))
    /\ WF_cloudVars(\E m \in mutation : Finish(m))
    /\ WF_cloudVars(Stop)

FairCloudSpec == CloudSpec /\ CloudFairness

-----------------------------------------------------------------------------
(* Properties *)

\* Every revision the state lists has its payload, a row and the row's blob
\* (materializeCloudSave would otherwise answer CLOUD_SAVE_PAYLOAD_MISSING), and no
\* payload outlives its revisions: no other row, and no blob without a row.
PayloadsResolve ==
    /\ rows = saves.history
    /\ blobs = {rows[r] : r \in DOMAIN rows}

\* The memory index of a running server is the one its next start would build.
IndexExact == server # "down" => refs = Indexed(rows)

\* An upload lands at most once, however often it is delivered and whatever happens to
\* the save in between.
OnceOnly == \A o \in Ops : asked[o].kind = "put" => landed[o] <= 1

\* What a client is told of its upload is so: "saved" names the very revision its
\* payload became, and an upload that was delivered once and answered otherwise never
\* lands.
TruthfulReplies ==
    \A o \in Ops : asked[o].kind = "put" /\ reply[o] # None =>
        IF reply[o].result = "saved"
        THEN /\ landed[o] > 0
             /\ reply[o].save = [revision |-> asked[o].expected + 1, content |-> asked[o].content]
        ELSE tries[o] = 1 => landed[o] = 0

\* No mutation fails because another one overtook it (STATE_WRITE_CONFLICT).
NoneOvertaken == \A m \in mutation : m.base = generation /\ m.draft = saves

\* Each operation takes effect at once, whole, and over the revision it names, whatever
\* was queued before it: the server implements CloudSlot.
ImplementsSlot == SlotSpec

\* A server that is told to close does, after the mutations it has accepted.
ShutdownEnds == server = "closing" ~> server = "down"
=============================================================================
