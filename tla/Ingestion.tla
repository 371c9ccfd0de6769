------------------------------ MODULE Ingestion ------------------------------
(***************************************************************************)
(* Document ingestion of one tenant: the upload handler of the API, the    *)
(* Celery broker, the pool slots that run process_ingestion_job, and the   *)
(* reclaim pass of a worker node that boots.  They share three stores: the *)
(* tenant's Postgres schema (ingestion_jobs, documents, document_chunks),  *)
(* the Pinecone namespace and the broker's queue.                          *)
(*                                                                         *)
(* A step of a process ends where it last touches a shared store, so every *)
(* value read in one step and used in a later one may be stale.            *)
(*                                                                         *)
(* A job and its document are created together, one job per document: one  *)
(* element of Jobs stands for both.                                        *)
(***************************************************************************)
EXTENDS Integers, FiniteSets

CONSTANTS
    Jobs,         \* uploads, each with its document row and its job row
    Workers,      \* pool slots (prefork children), one task at a time each
    Nodes,        \* Celery worker processes
    NodeOf,       \* the node each slot belongs to
    ChunkIds,     \* chunk indexes of a document: the same for every attempt
    MaxAttempts,  \* settings.ingestion_max_attempts
    MaxFaults,    \* bound on how often each kind of fault happens
    None          \* no slot / no job

(***************************************************************************)
(* Kinds of faults.  "slot" and "node" are crashes the broker answers with *)
(* a redelivery; "visibility" is a redelivery of a message that is still   *)
(* being worked on; the others can lose track of a job: "lost" a message   *)
(* the broker drops, "api" an upload handler that stops half-way, "escape" *)
(* an exception that leaves the task, "reclaim" a reclaim pass cut short.  *)
(***************************************************************************)
LosingFaults == {"lost", "api", "escape", "reclaim"}
FaultKinds == {"slot", "node", "visibility"} \cup LosingFaults

JobStatus == {"absent", "pending", "processing", "done", "failed"}
DocStatus == {"absent", "pending", "ready", "failed"}
UploadStage == {"new", "rejected", "saved", "inserted", "dispatched", "dead"}
NodeStage == {"down", "select", "update", "dispatch", "ready"}
Tables == {"documents", "ingestion_jobs", "document_chunks"}
TaskStage == {"idle", "load", "mark", "refresh", "getdoc", "clear", "blocked",
              "work", "commit", "rollback", "reload", "handle", "retry", "ack"}

ASSUME ConstantsAssumption ==
    /\ MaxAttempts \in Nat \ {0}
    /\ IsFiniteSet(Workers)
    /\ NodeOf \in [Workers -> Nodes]
    /\ MaxFaults \in [FaultKinds -> Nat]
    /\ None \notin Workers \cup Jobs

VARIABLES
    upload,     \* how far the upload handler of each document got
    job,        \* ingestion_jobs: status and attempts
    doc,        \* documents.status
    chunkRows,  \* committed copies of the document's document_chunks rows
    rowLock,    \* slot whose open transaction has deleted (locked) those rows
    flushed,    \* each slot: the tables its commit has written so far
    vectors,    \* chunk ids present in the Pinecone namespace
    queue,      \* messages of the job at the broker (identical, so a count)
    node,       \* each node: down, in its reclaim pass, or consuming
    reclaim,    \* stuck_job_ids of a node in its reclaim pass
    pc,         \* each slot: the step of the task it takes next
    task,       \* each slot: the job of its message
    seen,       \* each slot: the column values its ORM session has loaded
    faults      \* faults so far, by kind

rows == <<job, doc, chunkRows>>
locks == <<rowLock, flushed>>
slots == <<pc, task, seen>>
nodes == <<node, reclaim>>
vars == <<upload, job, doc, chunkRows, locks, vectors, queue, nodes, slots, faults>>

Unread == [status |-> "absent", attempts |-> 0, doc |-> "absent"]

Init ==
    /\ upload = [j \in Jobs |-> "new"]
    /\ job = [j \in Jobs |-> [status |-> "absent", attempts |-> 0]]
    /\ doc = [j \in Jobs |-> "absent"]
    /\ chunkRows = [j \in Jobs |-> 0]
    /\ rowLock = [j \in Jobs |-> None]
    /\ flushed = [w \in Workers |-> {}]
    /\ vectors = [j \in Jobs |-> {}]
    /\ queue = [j \in Jobs |-> 0]
    /\ node = [n \in Nodes |-> "down"]
    /\ reclaim = [n \in Nodes |-> {}]
    /\ pc = [w \in Workers |-> "idle"]
    /\ task = [w \in Workers |-> None]
    /\ seen = [w \in Workers |-> Unread]
    /\ faults = [k \in FaultKinds |-> 0]

-----------------------------------------------------------------------------
(* Helpers *)

Settled(status) == status \in {"done", "failed"}

Fault(kind) ==
    /\ faults[kind] < MaxFaults[kind]
    /\ faults' = [faults EXCEPT ![kind] = @ + 1]

Go(w, next) == pc' = [pc EXCEPT ![w] = next]

Enqueue(j) == queue' = [queue EXCEPT ![j] = @ + 1]

\* Slots waiting for the row locks that the slots of S hold.
Waiters(S) == {x \in Workers : pc[x] = "blocked" /\ rowLock[task[x]] \in S}

\* A commit that is under way in another slot than w has written what a table has of job j.
Held(j, table, w) == \E x \in Workers \ {w} : task[x] = j /\ table \in flushed[x]

\* Slot w's transaction ends: its row locks go, and whoever waited for them
\* continues at wake.
EndTransaction(w, next, wake) ==
    /\ rowLock' = [j \in Jobs |-> IF rowLock[j] = w THEN None ELSE rowLock[j]]
    /\ flushed' = [flushed EXCEPT ![w] = {}]
    /\ pc' = [x \in Workers |-> IF x = w THEN next
                                ELSE IF x \in Waiters({w}) THEN wake
                                ELSE pc[x]]

-----------------------------------------------------------------------------
(* upload_document *)

\* Too large, or neither a PDF nor a DOCX: nothing is written.
RejectUpload(j) ==
    /\ upload[j] = "new"
    /\ upload' = [upload EXCEPT ![j] = "rejected"]
    /\ UNCHANGED <<rows, locks, vectors, queue, nodes, slots, faults>>

SaveFile(j) ==
    /\ upload[j] = "new"
    /\ upload' = [upload EXCEPT ![j] = "saved"]
    /\ UNCHANGED <<rows, locks, vectors, queue, nodes, slots, faults>>

InsertRows(j) ==
    /\ upload[j] = "saved"
    /\ upload' = [upload EXCEPT ![j] = "inserted"]
    /\ job' = [job EXCEPT ![j] = [status |-> "pending", attempts |-> 0]]
    /\ doc' = [doc EXCEPT ![j] = "pending"]
    /\ UNCHANGED <<chunkRows, locks, vectors, queue, nodes, slots, faults>>

Dispatch(j) ==
    /\ upload[j] = "inserted"
    /\ upload' = [upload EXCEPT ![j] = "dispatched"]
    /\ Enqueue(j)
    /\ UNCHANGED <<rows, locks, vectors, nodes, slots, faults>>

\* The API process stops, or delay() raises because the broker is away.
UploadDies(j) ==
    /\ upload[j] \in {"saved", "inserted"}
    /\ Fault("api")
    /\ upload' = [upload EXCEPT ![j] = "dead"]
    /\ UNCHANGED <<rows, locks, vectors, queue, nodes, slots>>

-----------------------------------------------------------------------------
(* A worker node boots: reclaim_stuck_jobs runs before the first delivery *)

Boot(n) ==
    /\ node[n] = "down"
    /\ node' = [node EXCEPT ![n] = "select"]
    /\ UNCHANGED <<upload, rows, locks, vectors, queue, reclaim, slots, faults>>

Stuck == {j \in Jobs : job[j].status = "processing"}

ReclaimSelect(n) ==
    /\ node[n] = "select"
    /\ reclaim' = [reclaim EXCEPT ![n] = Stuck]
    /\ node' = [node EXCEPT ![n] = IF Stuck = {} THEN "ready" ELSE "update"]
    /\ UNCHANGED <<upload, rows, locks, vectors, queue, slots, faults>>

\* Mutant: the reset jobs are not dispatched.
ReclaimResetOnly(n) ==
    /\ node[n] = "update"
    /\ job' = [j \in Jobs |-> IF j \in reclaim[n]
                              THEN [job[j] EXCEPT !.status = "pending"]
                              ELSE job[j]]
    /\ reclaim' = [reclaim EXCEPT ![n] = {}]
    /\ node' = [node EXCEPT ![n] = "ready"]
    /\ UNCHANGED <<upload, doc, chunkRows, locks, vectors, queue, slots, faults>>

\* Mutant: a reclaimed job starts over with its attempts.
ReclaimResetAttempts(n) ==
    /\ node[n] = "update"
    /\ job' = [j \in Jobs |-> IF j \in reclaim[n]
                              THEN [status |-> "pending", attempts |-> 0]
                              ELSE job[j]]
    /\ node' = [node EXCEPT ![n] = "dispatch"]
    /\ UNCHANGED <<upload, doc, chunkRows, locks, vectors, queue, reclaim, slots, faults>>

\* The UPDATE filters by id alone: whatever became of the job since the SELECT.
ReclaimReset(n) ==
    /\ node[n] = "update"
    /\ \A j \in reclaim[n] : ~Held(j, "ingestion_jobs", None)
    /\ job' = [j \in Jobs |-> IF j \in reclaim[n]
                              THEN [job[j] EXCEPT !.status = "pending"]
                              ELSE job[j]]
    /\ node' = [node EXCEPT ![n] = "dispatch"]
    /\ UNCHANGED <<upload, doc, chunkRows, locks, vectors, queue, reclaim, slots, faults>>

ReclaimDispatch(n, j) ==
    /\ node[n] = "dispatch"
    /\ j \in reclaim[n]
    /\ Enqueue(j)
    /\ reclaim' = [reclaim EXCEPT ![n] = @ \ {j}]
    /\ node' = [node EXCEPT ![n] = IF reclaim[n] = {j} THEN "ready" ELSE @]
    /\ UNCHANGED <<upload, rows, locks, vectors, slots, faults>>

\* An exception in the pass is logged and swallowed, and the node consumes all
\* the same; or the process dies and the pass with it.
ReclaimStops(n) ==
    /\ node[n] \in {"select", "update", "dispatch"}
    /\ Fault("reclaim")
    /\ \E next \in {"ready", "down"} : node' = [node EXCEPT ![n] = next]
    /\ reclaim' = [reclaim EXCEPT ![n] = {}]
    /\ UNCHANGED <<upload, rows, locks, vectors, queue, slots>>

-----------------------------------------------------------------------------
(* process_ingestion_job *)

\* The broker hands a message to an idle slot.  It stays unacknowledged until
\* the task returns (task_acks_late).
Deliver(w, j) ==
    /\ node[NodeOf[w]] = "ready"
    /\ pc[w] = "idle"
    /\ queue[j] > 0
    /\ queue' = [queue EXCEPT ![j] = @ - 1]
    /\ task' = [task EXCEPT ![w] = j]
    /\ Go(w, "load")
    /\ UNCHANGED <<upload, rows, locks, vectors, nodes, seen, faults>>

\* Mutant: a settled job is worked on again.
LoadJobUnguarded(w) ==
    LET j == task[w]
    IN  /\ pc[w] = "load"
        /\ seen' = [seen EXCEPT ![w] = [status |-> job[j].status,
                                        attempts |-> job[j].attempts,
                                        doc |-> "absent"]]
        /\ Go(w, IF job[j].status = "pending" THEN "mark" ELSE "getdoc")
        /\ UNCHANGED <<upload, rows, locks, vectors, queue, nodes, task, faults>>

\* Mutant: only a pending job is worked on.
LoadJobPendingOnly(w) ==
    LET j == task[w]
    IN  /\ pc[w] = "load"
        /\ seen' = [seen EXCEPT ![w] = [status |-> job[j].status,
                                        attempts |-> job[j].attempts,
                                        doc |-> "absent"]]
        /\ Go(w, IF job[j].status = "pending" THEN "mark" ELSE "ack")
        /\ UNCHANGED <<upload, rows, locks, vectors, queue, nodes, task, faults>>

\* A job that is settled (or absent) makes the delivery a no-op; one already at
\* processing is worked on without counting an attempt.
LoadJob(w) ==
    LET j == task[w]
        status == job[j].status
    IN  /\ pc[w] = "load"
        /\ seen' = [seen EXCEPT ![w] = [status |-> status,
                                        attempts |-> job[j].attempts,
                                        doc |-> "absent"]]
        /\ Go(w, CASE status \in {"absent", "done", "failed"} -> "ack"
                   [] status = "pending" -> "mark"
                   [] OTHER -> "getdoc")
        /\ UNCHANGED <<upload, rows, locks, vectors, queue, nodes, task, faults>>

\* Writes the attempt count this session computed from what it had loaded.
MarkProcessing(w) ==
    /\ pc[w] = "mark"
    /\ ~Held(task[w], "ingestion_jobs", w)
    /\ job' = [job EXCEPT ![task[w]] = [status |-> "processing",
                                        attempts |-> seen[w].attempts + 1]]
    /\ Go(w, "refresh")
    /\ UNCHANGED <<upload, doc, chunkRows, locks, vectors, queue, nodes, task, seen, faults>>

\* The refresh after the commit: it loads, and does not look at, the status.
RefreshJob(w) ==
    /\ pc[w] = "refresh"
    /\ seen' = [seen EXCEPT ![w] = [status |-> job[task[w]].status,
                                    attempts |-> job[task[w]].attempts,
                                    doc |-> "absent"]]
    /\ Go(w, "getdoc")
    /\ UNCHANGED <<upload, rows, locks, vectors, queue, nodes, task, faults>>

GetDocument(w) ==
    /\ pc[w] = "getdoc"
    /\ seen' = [seen EXCEPT ![w].doc = doc[task[w]]]
    /\ Go(w, IF doc[task[w]] = "absent" THEN "rollback" ELSE "clear")
    /\ UNCHANGED <<upload, rows, locks, vectors, queue, nodes, task, faults>>

\* Mutant: the DELETE is committed at once.
ClearChunksAtOnce(w) ==
    /\ pc[w] = "clear"
    /\ chunkRows' = [chunkRows EXCEPT ![task[w]] = 0]
    /\ Go(w, "work")
    /\ UNCHANGED <<upload, job, doc, locks, vectors, queue, nodes, task, seen, faults>>

\* DELETE of the document's chunk rows, left uncommitted until the results are:
\* nothing to lock when there are none, else wait for whoever holds them.
ClearChunks(w) ==
    LET j == task[w]
        locked == rowLock[j] # None
        clears == chunkRows[j] > 0 /\ ~locked
    IN  /\ pc[w] = "clear"
        /\ rowLock' = [rowLock EXCEPT ![j] = IF clears THEN w ELSE @]
        /\ Go(w, IF locked THEN "blocked" ELSE "work")
        /\ UNCHANGED <<upload, rows, flushed, vectors, queue, nodes, task, seen, faults>>

\* Mutant: the job is recorded as done before its rows are written.
UpsertMarksDone(w) ==
    /\ pc[w] = "work"
    /\ vectors' = [vectors EXCEPT ![task[w]] = ChunkIds]
    /\ job' = [job EXCEPT ![task[w]].status = "done"]
    /\ Go(w, "commit")
    /\ UNCHANGED <<upload, doc, chunkRows, locks, queue, nodes, task, seen, faults>>

\* Extraction, chunking and embedding succeed, and the upsert stores every
\* vector.  The ids are derived from the document, so a rerun overwrites.
Upsert(w) ==
    /\ pc[w] = "work"
    /\ vectors' = [vectors EXCEPT ![task[w]] = ChunkIds]
    /\ Go(w, "commit")
    /\ UNCHANGED <<upload, rows, locks, queue, nodes, task, seen, faults>>

\* Mutant: an upsert that fails is not noticed.
WorkFailsUnnoticed(w) ==
    /\ pc[w] = "work"
    /\ \E stored \in SUBSET ChunkIds :
           vectors' = [vectors EXCEPT ![task[w]] = @ \cup stored]
    /\ Go(w, "commit")
    /\ UNCHANGED <<upload, rows, locks, queue, nodes, task, seen, faults>>

\* An unreadable or empty file, or an external service that fails; the upsert
\* may have stored any of the vectors by then.
WorkFails(w) ==
    /\ pc[w] = "work"
    /\ \E stored \in SUBSET ChunkIds :
           vectors' = [vectors EXCEPT ![task[w]] = @ \cup stored]
    /\ Go(w, "rollback")
    /\ UNCHANGED <<upload, rows, locks, queue, nodes, task, seen, faults>>

\* Mutant: no unique constraint.
InsertableAlways(w) == pc[w] = "commit"

\* Chunk rows are unique by pinecone_vector_id: other copies must be absent, or
\* deleted by this very transaction.
Insertable(w) == rowLock[task[w]] = w \/ chunkRows[task[w]] = 0

\* What the commit of slot w has yet to write.  A column whose new value equals the loaded
\* one is not written.
Unwritten(w) ==
    {table \in Tables : /\ table = "documents" => seen[w].doc # "ready"
                        /\ table = "ingestion_jobs" => seen[w].status # "done"} \ flushed[w]

\* The commit writes its tables one by one, in any order, and holds what it has written:
\* a step of its own only where another slot may come to wait for that.
Flush(w) ==
    /\ pc[w] = "commit"
    /\ \E x \in Workers \ {w} : task[x] = task[w] /\ pc[x] \in {"mark", "handle", "commit"}
    /\ \E table \in Unwritten(w) :
           /\ ~Held(task[w], table, w)
           /\ table = "document_chunks" => Insertable(w)
           /\ flushed' = [flushed EXCEPT ![w] = @ \cup {table}]
    /\ UNCHANGED <<upload, rows, rowLock, vectors, queue, nodes, slots, faults>>

\* One transaction: rows inserted, document ready, job done.  A waiting DELETE goes on
\* and, by its snapshot, deletes none of the rows inserted here.
CommitResults(w) ==
    LET j == task[w]
    IN  /\ pc[w] = "commit"
        /\ Insertable(w)
        /\ \A table \in Unwritten(w) : ~Held(j, table, w)
        /\ chunkRows' = [chunkRows EXCEPT ![j] = (IF rowLock[j] = w THEN 0 ELSE @) + 1]
        /\ doc' = [doc EXCEPT ![j] = IF seen[w].doc = "ready" THEN @ ELSE "ready"]
        /\ job' = [job EXCEPT ![j].status = IF seen[w].status = "done" THEN @ ELSE "done"]
        /\ EndTransaction(w, "ack", "work")
        /\ UNCHANGED <<upload, vectors, queue, nodes, task, seen, faults>>

\* The unique constraint refuses the rows, once any transaction that might still
\* remove the others has ended.
CommitRefused(w) ==
    /\ pc[w] = "commit"
    /\ ~Insertable(w)
    /\ rowLock[task[w]] = None
    /\ Go(w, "rollback")
    /\ UNCHANGED <<upload, rows, locks, vectors, queue, nodes, task, seen, faults>>

\* The commit of slot w waits for slot x, which has written what w is to write, or has
\* deleted the rows whose unique ids w is to insert.
Blocks(x, w) ==
    /\ pc[w] = "commit" /\ x # w /\ task[x] = task[w]
    /\ \/ flushed[x] \cap Unwritten(w) # {}
       \/ rowLock[task[w]] = x /\ "document_chunks" \in Unwritten(w)

Circle(S) == S # {} /\ \A w \in S : \E x \in S : Blocks(x, w)

\* Postgres ends a circle of waits by failing one of its transactions.
DeadlockDetected(w) ==
    /\ pc[w] = "commit"
    /\ \E S \in SUBSET Workers : /\ w \in S /\ Circle(S)
                                 /\ \A T \in SUBSET S : Circle(T) => T = S
    /\ EndTransaction(w, "rollback", "clear")
    /\ UNCHANGED <<upload, rows, vectors, queue, nodes, task, seen, faults>>

-----------------------------------------------------------------------------
(* _handle_job_failure and the retry *)

\* Mutant: the transaction of the failed attempt is left open.
RollbackLeftOut(w) ==
    /\ pc[w] = "rollback"
    /\ Go(w, "reload")
    /\ UNCHANGED <<upload, rows, locks, vectors, queue, nodes, task, seen, faults>>

\* A waiting DELETE finds the rows again.
Rollback(w) ==
    /\ pc[w] = "rollback"
    /\ EndTransaction(w, "reload", "clear")
    /\ UNCHANGED <<upload, rows, vectors, queue, nodes, task, seen, faults>>

ReloadJob(w) ==
    LET j == task[w]
    IN  /\ pc[w] = "reload"
        /\ seen' = [seen EXCEPT ![w] = [status |-> job[j].status,
                                        attempts |-> job[j].attempts,
                                        doc |-> doc[j]]]
        /\ Go(w, "handle")
        /\ UNCHANGED <<upload, rows, locks, vectors, queue, nodes, task, faults>>

\* Mutant: one attempt too many.
HandleFailureLate(w) ==
    LET j == task[w]
        exhausted == seen[w].attempts > MaxAttempts
        outcome == IF exhausted THEN "failed" ELSE "pending"
    IN  /\ pc[w] = "handle"
        /\ job' = [job EXCEPT ![j].status = outcome]
        /\ doc' = [doc EXCEPT ![j] = IF exhausted THEN "failed" ELSE @]
        /\ Go(w, IF exhausted THEN "ack" ELSE "retry")
        /\ UNCHANGED <<upload, chunkRows, locks, vectors, queue, nodes, task, seen, faults>>

\* Mutant: the document is forgotten when its job fails.
HandleFailureJobOnly(w) ==
    LET exhausted == seen[w].attempts >= MaxAttempts
    IN  /\ pc[w] = "handle"
        /\ job' = [job EXCEPT ![task[w]].status = IF exhausted THEN "failed" ELSE "pending"]
        /\ Go(w, IF exhausted THEN "ack" ELSE "retry")
        /\ UNCHANGED <<upload, doc, chunkRows, locks, vectors, queue, nodes, task, seen, faults>>

\* The attempt count decides alone, whatever the status has become.
HandleFailure(w) ==
    LET j == task[w]
        exhausted == seen[w].attempts >= MaxAttempts
        outcome == IF exhausted THEN "failed" ELSE "pending"
    IN  /\ pc[w] = "handle"
        /\ ~Held(j, "ingestion_jobs", w)
        /\ exhausted /\ seen[w].doc # "failed" => ~Held(j, "documents", w)
        /\ job' = [job EXCEPT ![j].status = IF seen[w].status = outcome THEN @ ELSE outcome]
        /\ doc' = [doc EXCEPT ![j] = IF exhausted /\ seen[w].doc # "failed" THEN "failed" ELSE @]
        /\ Go(w, IF exhausted THEN "ack" ELSE "retry")
        /\ UNCHANGED <<upload, chunkRows, locks, vectors, queue, nodes, task, seen, faults>>

\* self.retry: a new message (with a countdown), then the old one is done with.
Retry(w) ==
    /\ pc[w] = "retry"
    /\ Enqueue(task[w])
    /\ Go(w, "ack")
    /\ UNCHANGED <<upload, rows, locks, vectors, nodes, task, seen, faults>>

\* Mutant: the slot keeps the message it is done with.
AckKeepsTask(w) ==
    /\ pc[w] = "ack"
    /\ Go(w, "idle")
    /\ UNCHANGED <<upload, rows, locks, vectors, queue, nodes, task, seen, faults>>

Ack(w) ==
    /\ pc[w] = "ack"
    /\ Go(w, "idle")
    /\ task' = [task EXCEPT ![w] = None]
    /\ seen' = [seen EXCEPT ![w] = Unread]
    /\ UNCHANGED <<upload, rows, locks, vectors, queue, nodes, faults>>

-----------------------------------------------------------------------------
(* Crashes, redeliveries, losses *)

\* Mutant: messages are acknowledged on delivery.
KillAckedEarly(S) ==
    /\ rowLock' = [j \in Jobs |-> IF rowLock[j] \in S THEN None ELSE rowLock[j]]
    /\ flushed' = [w \in Workers |-> IF w \in S THEN {} ELSE flushed[w]]
    /\ pc' = [w \in Workers |-> IF w \in S THEN "idle"
                                ELSE IF w \in Waiters(S) THEN "clear"
                                ELSE pc[w]]
    /\ task' = [w \in Workers |-> IF w \in S THEN None ELSE task[w]]
    /\ seen' = [w \in Workers |-> IF w \in S THEN Unread ELSE seen[w]]
    /\ UNCHANGED queue

\* The slots of S die: their transactions roll back, and their unacknowledged
\* messages return to the queue (acks_late, reject_on_worker_lost).
Kill(S) ==
    /\ queue' = [j \in Jobs |-> queue[j] + Cardinality({w \in S : task[w] = j})]
    /\ rowLock' = [j \in Jobs |-> IF rowLock[j] \in S THEN None ELSE rowLock[j]]
    /\ flushed' = [w \in Workers |-> IF w \in S THEN {} ELSE flushed[w]]
    /\ pc' = [w \in Workers |-> IF w \in S THEN "idle"
                                ELSE IF w \in Waiters(S) THEN "clear"
                                ELSE pc[w]]
    /\ task' = [w \in Workers |-> IF w \in S THEN None ELSE task[w]]
    /\ seen' = [w \in Workers |-> IF w \in S THEN Unread ELSE seen[w]]

SlotCrash(w) ==
    /\ pc[w] # "idle"
    /\ Fault("slot")
    /\ Kill({w})
    /\ UNCHANGED <<upload, rows, vectors, nodes>>

NodeCrash(n) ==
    /\ node[n] = "ready"
    /\ Fault("node")
    /\ Kill({w \in Workers : NodeOf[w] = n})
    /\ node' = [node EXCEPT ![n] = "down"]
    /\ UNCHANGED <<upload, rows, vectors, reclaim>>

\* The visibility timeout of the broker runs out under a task still running.
Redeliver(w) ==
    /\ pc[w] # "idle"
    /\ Fault("visibility")
    /\ Enqueue(task[w])
    /\ UNCHANGED <<upload, rows, locks, vectors, nodes, slots>>

Lose(j) ==
    /\ queue[j] > 0
    /\ Fault("lost")
    /\ queue' = [queue EXCEPT ![j] = @ - 1]
    /\ UNCHANGED <<upload, rows, locks, vectors, nodes, slots>>

\* An exception outside the try, or inside its handler: the message of a task
\* that raised is acknowledged all the same.
TaskEscapes(w) ==
    /\ pc[w] \in {"load", "mark", "refresh", "rollback", "reload", "handle", "retry"}
    /\ Fault("escape")
    /\ EndTransaction(w, "ack", "clear")
    /\ UNCHANGED <<upload, rows, vectors, queue, nodes, task, seen>>

-----------------------------------------------------------------------------
(* The specification *)

UploadStep(j) == RejectUpload(j) \/ SaveFile(j) \/ InsertRows(j) \/ Dispatch(j)

ReclaimStep(n) ==
    ReclaimSelect(n) \/ ReclaimReset(n) \/ \E j \in Jobs : ReclaimDispatch(n, j)

TaskStep(w) ==
    \/ LoadJob(w) \/ MarkProcessing(w) \/ RefreshJob(w) \/ GetDocument(w)
    \/ ClearChunks(w) \/ Upsert(w) \/ WorkFails(w)
    \/ Flush(w) \/ CommitResults(w) \/ CommitRefused(w) \/ DeadlockDetected(w)
    \/ Rollback(w) \/ ReloadJob(w) \/ HandleFailure(w) \/ Retry(w) \/ Ack(w)

FaultStep ==
    \/ \E j \in Jobs : UploadDies(j) \/ Lose(j)
    \/ \E n \in Nodes : ReclaimStops(n) \/ NodeCrash(n)
    \/ \E w \in Workers : SlotCrash(w) \/ Redeliver(w) \/ TaskEscapes(w)

\* Nothing left to do: every upload is over, every node waits for messages.
Quiet ==
    /\ \A j \in Jobs : upload[j] \in {"rejected", "dispatched", "dead"} /\ queue[j] = 0
    /\ \A n \in Nodes : node[n] = "ready"
    /\ \A w \in Workers : pc[w] = "idle"
    /\ UNCHANGED vars

Next ==
    \/ \E j \in Jobs : UploadStep(j)
    \/ \E n \in Nodes : Boot(n) \/ ReclaimStep(n)
    \/ \E w \in Workers, j \in Jobs : Deliver(w, j)
    \/ \E w \in Workers : TaskStep(w)
    \/ FaultStep
    \/ Quiet

Spec == Init /\ [][Next]_vars

(***************************************************************************)
(* A node that is down is started again, a running process takes its next  *)
(* step, and an idle slot of a consuming node is given a message.  Nothing *)
(* is assumed of faults, nor of whether an attempt succeeds.               *)
(***************************************************************************)
Fairness ==
    /\ \A n \in Nodes : WF_vars(Boot(n)) /\ WF_vars(ReclaimStep(n))
    /\ \A w \in Workers : WF_vars(\E j \in Jobs : Deliver(w, j)) /\ WF_vars(TaskStep(w))

FairSpec == Spec /\ Fairness

-----------------------------------------------------------------------------
(* Properties *)

TypeOK ==
    /\ upload \in [Jobs -> UploadStage]
    /\ job \in [Jobs -> [status : JobStatus, attempts : Nat]]
    /\ doc \in [Jobs -> DocStatus]
    /\ chunkRows \in [Jobs -> Nat]
    /\ rowLock \in [Jobs -> Workers \cup {None}]
    /\ flushed \in [Workers -> SUBSET Tables]
    /\ vectors \in [Jobs -> SUBSET ChunkIds]
    /\ queue \in [Jobs -> Nat]
    /\ node \in [Nodes -> NodeStage]
    /\ reclaim \in [Nodes -> SUBSET Jobs]
    /\ pc \in [Workers -> TaskStage]
    /\ task \in [Workers -> Jobs \cup {None}]
    /\ seen \in [Workers -> [status : JobStatus, attempts : Nat, doc : DocStatus]]
    /\ faults \in [FaultKinds -> Nat]
    /\ \A w \in Workers : pc[w] = "idle" <=> task[w] = None

\* No two copies of a document's chunk rows are ever committed, however
\* many slots process the document at once: each transaction deletes what it
\* finds, and the unique constraint refuses the rest.
NoDuplicateChunks == \A j \in Jobs : chunkRows[j] <= 1

\* A chunk row never points at a vector that was not written (_process_job
\* writes Pinecone before Postgres), not even while a rerun of the job is under
\* way or fails half-way.
ChunksBackedByVectors == \A j \in Jobs : chunkRows[j] > 0 => vectors[j] = ChunkIds

\* A document shown as ready, or a job recorded as done, has its chunk rows:
\* what the user is told is ready can be cited.
ReadyIsCitable ==
    \A j \in Jobs : (doc[j] = "ready" \/ job[j].status = "done") => chunkRows[j] > 0

\* No step takes away the rows of a document that had them: a rerun replaces
\* them in the transaction that deletes them.
CitableStaysCitable == [][\A j \in Jobs : chunkRows[j] > 0 => chunkRows'[j] > 0]_vars

\* Slot w waits for the transaction of another one on its document: its DELETE for the
\* chunk rows, its INSERT for the unique ids, its UPDATEs for the rows of job and document.
Waiting(w) ==
    \/ pc[w] = "blocked"
    \/ pc[w] = "commit" /\ \E table \in Unwritten(w) :
           \/ Held(task[w], table, w)
           \/ table = "document_chunks" /\ ~Insertable(w) /\ rowLock[task[w]] # None
    \/ pc[w] \in {"mark", "handle"} /\ Held(task[w], "ingestion_jobs", w)

\* Whoever waits, waits for a task on the same document that holds what it holds inside
\* its transaction, and that waits itself at most in its commit: no lock is left behind by
\* a task that failed, died or went on, and slots that wait for each other are commits, a
\* circle that Postgres detects.
WaitsEnd ==
    \A w \in Workers : Waiting(w) =>
        \E x \in Workers \ {w} :
            /\ task[x] = task[w]
            /\ x = rowLock[task[w]] \/ flushed[x] # {}
            /\ pc[x] \in {"work", "commit", "rollback"}

\* Something will still look at job j: its upload handler, a message, a task
\* that has not finished, or a reclaim pass about to dispatch it.
InHand(j) ==
    \/ upload[j] = "inserted"
    \/ queue[j] > 0
    \/ \E w \in Workers : task[w] = j /\ pc[w] # "ack"
    \/ \E n \in Nodes : j \in reclaim[n] /\ node[n] \in {"update", "dispatch"}

\* A job left at pending or processing that nothing will ever look at again
\* takes a fault that loses track of it; crashes and redeliveries alone, in
\* whatever order, never strand a job.
StrandedOnlyByLoss ==
    (\E j \in Jobs : job[j].status \in {"pending", "processing"} /\ ~InHand(j))
        => \E k \in LosingFaults : faults[k] > 0

\* The status of the job, the status of the document and the chunk rows, written
\* by one transaction, tell the same story.
StatusesAgree ==
    \A j \in Jobs :
        /\ job[j].status = "done" <=> doc[j] = "ready"
        /\ job[j].status = "failed" <=> doc[j] = "failed"
        /\ doc[j] = "ready" <=> chunkRows[j] > 0

\* The count of attempts is never rewound: an attempt made is an attempt counted
\* towards the limit.
AttemptsNeverRewound == [][\A j \in Jobs : job'[j].attempts >= job[j].attempts]_vars

\* On one node, a job is given its configured attempts, and one more per crash of the
\* node: only the reclaim pass reopens a job whose attempts are used up.
AttemptsWithinReclaims ==
    \A j \in Jobs : job[j].attempts <= MaxAttempts + faults["node"]

\* Users see the promised life of a document: pending, then ready or failed for
\* good, citable from the moment it is ready.
Lifecycle == INSTANCE DocumentLifecycle
                 WITH Documents <- Jobs,
                      status <- doc,
                      citable <- [j \in Jobs |-> chunkRows[j] > 0]

ImplementsLifecycle == Lifecycle!Spec

\* A settled job stays as it is: a spurious repeat delivery changes nothing.
SettledIsFinal ==
    [][\A j \in Jobs : Settled(job[j].status) => job'[j].status = job[j].status]_vars

\* A job that was dispatched ends up done or failed, for good.
EveryUploadSettles ==
    \A j \in Jobs : upload[j] = "dispatched" ~> [](Settled(job[j].status))

=============================================================================
