--------------------------- MODULE IngestionProofs ---------------------------
(***************************************************************************)
(* Theorems about Ingestion, for any number of jobs, slots and nodes and   *)
(* any number of faults of every kind.                                     *)
(***************************************************************************)
EXTENDS Ingestion, FiniteSetTheorems, TLAPS

-----------------------------------------------------------------------------
(* Type correctness *)

\* The end of a transaction leaves lock table and program counters well typed.
LEMMA EndTransactionType ==
    ASSUME TypeOK, NEW w \in Workers, NEW next \in TaskStage, NEW wake \in TaskStage,
           EndTransaction(w, next, wake)
    PROVE  /\ rowLock' \in [Jobs -> Workers \cup {None}]
           /\ flushed' \in [Workers -> SUBSET Tables]
           /\ pc' \in [Workers -> TaskStage]
    BY DEF TypeOK, EndTransaction

\* The death of any set of slots leaves the queue, the locks and the slots well
\* typed: what returns to the queue is a finite number of messages.
LEMMA KillType ==
    ASSUME TypeOK, NEW S \in SUBSET Workers, Kill(S)
    PROVE  /\ queue' \in [Jobs -> Nat]
           /\ rowLock' \in [Jobs -> Workers \cup {None}]
           /\ flushed' \in [Workers -> SUBSET Tables]
           /\ pc' \in [Workers -> TaskStage]
           /\ task' \in [Workers -> Jobs \cup {None}]
           /\ seen' \in [Workers -> [status : JobStatus, attempts : Nat, doc : DocStatus]]
           /\ \A w \in Workers : pc'[w] = "idle" <=> task'[w] = None
<1>1. \A j \in Jobs : Cardinality({w \in S : task[w] = j}) \in Nat
    BY ConstantsAssumption, FS_Subset, FS_CardinalityType
<1>2. queue' \in [Jobs -> Nat]
    BY <1>1, SMTT(30) DEF Kill, TypeOK
<1>3. /\ rowLock' \in [Jobs -> Workers \cup {None}] /\ pc' \in [Workers -> TaskStage]
      /\ flushed' \in [Workers -> SUBSET Tables]
    BY DEF Kill, TypeOK, TaskStage
<1>4. task' \in [Workers -> Jobs \cup {None}]
    BY DEF Kill, TypeOK
<1>5. seen' \in [Workers -> [status : JobStatus, attempts : Nat, doc : DocStatus]]
    BY DEF Kill, TypeOK, Unread, JobStatus, DocStatus
<1>6. \A w \in Workers : pc'[w] = "idle" <=> task'[w] = None
    BY DEF Kill, TypeOK, Waiters
<1>. QED
    BY <1>2, <1>3, <1>4, <1>5, <1>6

\* A fault is counted among its kind.
LEMMA FaultType ==
    ASSUME TypeOK, NEW kind \in FaultKinds, Fault(kind)
    PROVE  faults' \in [FaultKinds -> Nat]
    BY DEF TypeOK, Fault

\* The kinds of the faults the actions below count.
LEMMA Kinds == {"slot", "node", "visibility", "lost", "api", "escape", "reclaim"} = FaultKinds
    BY DEF FaultKinds, LosingFaults

\* The types hold at the start.
LEMMA InitType == Init => TypeOK
    BY ConstantsAssumption
    DEF Init, TypeOK, Unread, UploadStage, JobStatus, DocStatus, NodeStage, TaskStage

\* The upload handler keeps them.
LEMMA UploadType ==
    ASSUME TypeOK, NEW j \in Jobs, UploadStep(j) \/ UploadDies(j) \/ Lose(j)
    PROVE  TypeOK'
<1>. USE DEF TypeOK, UploadStage, rows, locks, nodes, slots
<1>1. CASE RejectUpload(j)  BY <1>1 DEF RejectUpload
<1>2. CASE SaveFile(j)      BY <1>2 DEF SaveFile
<1>3. CASE InsertRows(j)    BY <1>3 DEF InsertRows, JobStatus, DocStatus
<1>4. CASE Dispatch(j)      BY <1>4 DEF Dispatch, Enqueue
<1>5. CASE UploadDies(j)    BY <1>5, FaultType, Kinds DEF UploadDies, UploadStage
<1>6. CASE Lose(j)          BY <1>6, FaultType, Kinds DEF Lose
<1>. QED
    BY <1>1, <1>2, <1>3, <1>4, <1>5, <1>6 DEF UploadStep

\* A node that boots keeps them.
LEMMA NodeType ==
    ASSUME TypeOK, NEW n \in Nodes, Boot(n) \/ ReclaimStep(n) \/ ReclaimStops(n)
    PROVE  TypeOK'
<1>. USE DEF TypeOK, NodeStage, rows, locks, nodes, slots
<1>1. CASE Boot(n)           BY <1>1 DEF Boot
<1>2. CASE ReclaimSelect(n)  BY <1>2 DEF ReclaimSelect, Stuck
<1>3. CASE ReclaimReset(n)
    <2>1. \A j \in Jobs : [job[j] EXCEPT !.status = "pending"] \in [status : JobStatus, attempts : Nat]
        BY DEF JobStatus
    <2>2. job' \in [Jobs -> [status : JobStatus, attempts : Nat]]
        BY <1>3, <2>1 DEF ReclaimReset
    <2>. QED
        BY <1>3, <2>2 DEF ReclaimReset
<1>4. CASE \E j \in Jobs : ReclaimDispatch(n, j)
    BY <1>4 DEF ReclaimDispatch, Enqueue
<1>5. CASE ReclaimStops(n)   BY <1>5, FaultType, Kinds DEF ReclaimStops
<1>. QED
    BY <1>1, <1>2, <1>3, <1>4, <1>5 DEF ReclaimStep

\* A task keeps them.
LEMMA TaskType ==
    ASSUME TypeOK, NEW w \in Workers, TaskStep(w)
    PROVE  TypeOK'
<1>. USE DEF TypeOK, rows, locks, nodes, slots, Go
<1>. DEFINE j == task[w]
<1>0. pc[w] # "idle" => j \in Jobs
    OBVIOUS
<1>1. CASE LoadJob(w)
    BY <1>0, <1>1 DEF LoadJob, TaskStage, JobStatus, DocStatus
<1>2. CASE MarkProcessing(w)
    BY <1>0, <1>2 DEF MarkProcessing, TaskStage, JobStatus
<1>3. CASE RefreshJob(w)
    BY <1>0, <1>3 DEF RefreshJob, TaskStage, JobStatus, DocStatus
<1>4. CASE GetDocument(w)
    BY <1>0, <1>4 DEF GetDocument, TaskStage
<1>5. CASE ClearChunks(w)
    BY <1>0, <1>5 DEF ClearChunks, TaskStage
<1>6. CASE Upsert(w)
    BY <1>0, <1>6 DEF Upsert, TaskStage
<1>7. CASE WorkFails(w)
    BY <1>0, <1>7 DEF WorkFails, TaskStage
<1>8. CASE CommitResults(w)
    <2>1. /\ rowLock' \in [Jobs -> Workers \cup {None}] /\ pc' \in [Workers -> TaskStage]
          /\ flushed' \in [Workers -> SUBSET Tables]
        BY <1>8, EndTransactionType DEF CommitResults, TaskStage
    <2>2. \A x \in Workers : pc'[x] = "idle" <=> task'[x] = None
        BY <1>0, <1>8 DEF CommitResults, EndTransaction, Waiters
    <2>3. chunkRows' \in [Jobs -> Nat]
        BY <1>0, <1>8 DEF CommitResults
    <2>4. job' \in [Jobs -> [status : JobStatus, attempts : Nat]]
        BY <1>0, <1>8, SMTT(30) DEF CommitResults, JobStatus
    <2>5. doc' \in [Jobs -> DocStatus]
        BY <1>0, <1>8 DEF CommitResults, DocStatus
    <2>. QED
        BY <1>8, <2>1, <2>2, <2>3, <2>4, <2>5, SMTT(30) DEF CommitResults
<1>9. CASE CommitRefused(w)
    BY <1>0, <1>9 DEF CommitRefused, TaskStage
<1>10. CASE Rollback(w)
    <2>1. /\ rowLock' \in [Jobs -> Workers \cup {None}] /\ pc' \in [Workers -> TaskStage]
          /\ flushed' \in [Workers -> SUBSET Tables]
        BY <1>10, EndTransactionType DEF Rollback, TaskStage
    <2>2. \A x \in Workers : pc'[x] = "idle" <=> task'[x] = None
        BY <1>0, <1>10 DEF Rollback, EndTransaction, Waiters
    <2>. QED
        BY <1>10, <2>1, <2>2 DEF Rollback
<1>11. CASE ReloadJob(w)
    BY <1>0, <1>11 DEF ReloadJob, TaskStage
<1>12. CASE HandleFailure(w)
    <2>1. job' \in [Jobs -> [status : JobStatus, attempts : Nat]]
        <3>1. j \in Jobs /\ job[j].status \in JobStatus
            BY <1>0, <1>12 DEF HandleFailure
        <3>2. PICK s \in JobStatus : job' = [job EXCEPT ![j].status = s]
            BY ONLY <3>1, <1>12 DEF HandleFailure, JobStatus
        <3>3. job \in [Jobs -> [status : JobStatus, attempts : Nat]]
            OBVIOUS
        <3>. HIDE DEF j
        <3>. QED
            BY ONLY <3>1, <3>2, <3>3
    <2>2. doc' \in [Jobs -> DocStatus]
        BY <1>0, <1>12 DEF HandleFailure, DocStatus
    <2>3. /\ pc' \in [Workers -> TaskStage]
          /\ \A x \in Workers : pc'[x] = "idle" <=> task'[x] = None
        BY <1>0, <1>12 DEF HandleFailure, TaskStage
    <2>. QED
        BY <1>12, <2>1, <2>2, <2>3 DEF HandleFailure
<1>13. CASE Retry(w)
    BY <1>0, <1>13 DEF Retry, Enqueue, TaskStage
<1>14. CASE Ack(w)
    BY <1>0, <1>14 DEF Ack, Unread, TaskStage, JobStatus, DocStatus
<1>15. CASE Flush(w)
    BY <1>15 DEF Flush, Unwritten
<1>16. CASE DeadlockDetected(w)
    <2>1. /\ rowLock' \in [Jobs -> Workers \cup {None}] /\ pc' \in [Workers -> TaskStage]
          /\ flushed' \in [Workers -> SUBSET Tables]
        BY <1>16, EndTransactionType DEF DeadlockDetected, TaskStage
    <2>2. \A x \in Workers : pc'[x] = "idle" <=> task'[x] = None
        BY <1>0, <1>16 DEF DeadlockDetected, EndTransaction, Waiters
    <2>. QED
        BY <1>16, <2>1, <2>2 DEF DeadlockDetected
<1>. QED
    BY <1>1, <1>2, <1>3, <1>4, <1>5, <1>6, <1>7, <1>8, <1>9, <1>10, <1>11, <1>12, <1>13, <1>14,
       <1>15, <1>16
    DEF TaskStep

\* So does what happens to a slot from outside.
LEMMA SlotType ==
    ASSUME TypeOK, NEW w \in Workers,
           (\E j \in Jobs : Deliver(w, j)) \/ SlotCrash(w) \/ Redeliver(w) \/ TaskEscapes(w)
    PROVE  TypeOK'
<1>. USE DEF TypeOK, rows, locks, nodes, slots
<1>0. pc[w] # "idle" => task[w] \in Jobs
    OBVIOUS
<1>1. CASE \E j \in Jobs : Deliver(w, j)
    BY <1>1, ConstantsAssumption DEF Deliver, Go, TaskStage
<1>2. CASE SlotCrash(w)
    BY <1>2, KillType, FaultType, Kinds DEF SlotCrash
<1>3. CASE Redeliver(w)
    BY <1>0, <1>3, FaultType, Kinds DEF Redeliver, Enqueue
<1>4. CASE TaskEscapes(w)
    <2>1. /\ rowLock' \in [Jobs -> Workers \cup {None}] /\ pc' \in [Workers -> TaskStage]
          /\ flushed' \in [Workers -> SUBSET Tables]
        BY <1>4, EndTransactionType DEF TaskEscapes, TaskStage
    <2>2. \A x \in Workers : pc'[x] = "idle" <=> task'[x] = None
        BY <1>0, <1>4 DEF TaskEscapes, EndTransaction, Waiters
    <2>. QED
        BY <1>4, <2>1, <2>2, FaultType, Kinds DEF TaskEscapes
<1>. QED
    BY <1>1, <1>2, <1>3, <1>4

\* And the crash of a node.
LEMMA NodeCrashType ==
    ASSUME TypeOK, NEW n \in Nodes, NodeCrash(n)
    PROVE  TypeOK'
<1>1. Kill({w \in Workers : NodeOf[w] = n})
    BY DEF NodeCrash
<1>2. node' \in [Nodes -> NodeStage] /\ faults' \in [FaultKinds -> Nat]
    BY FaultType, Kinds DEF NodeCrash, TypeOK, NodeStage
<1>. QED
    BY <1>1, <1>2, KillType DEF NodeCrash, TypeOK, rows

\* Every step keeps the types.
LEMMA TypeStep == TypeOK /\ [Next]_vars => TypeOK'
<1>. SUFFICES ASSUME TypeOK, [Next]_vars
              PROVE  TypeOK'
    OBVIOUS
<1>1. CASE Next
    BY <1>1, UploadType, NodeType, TaskType, SlotType, NodeCrashType
    DEF Next, FaultStep, Quiet, vars, rows, locks, slots, nodes, TypeOK
<1>2. CASE UNCHANGED vars
    BY <1>2 DEF vars, rows, locks, slots, nodes, TypeOK
<1>. QED
    BY <1>1, <1>2

\* Every variable keeps its type, and a slot has a message exactly while it is
\* not idle, at every step of every process and under every fault.
THEOREM TypeCorrect == Spec => []TypeOK
    BY InitType, TypeStep, PTL DEF Spec

-----------------------------------------------------------------------------
(* Chunk rows, vectors and statuses *)

\* A slot about to commit has stored every vector of its document: the link
\* between the upsert and the rows, which are two steps apart.
UpsertedBeforeCommit == \A w \in Workers : pc[w] = "commit" => vectors[task[w]] = ChunkIds

CitableInv ==
    /\ NoDuplicateChunks
    /\ ChunksBackedByVectors
    /\ ReadyIsCitable
    /\ UpsertedBeforeCommit

\* A step that leaves rows and vectors alone keeps the invariant when it makes no
\* job done, no document ready, and takes no slot to its commit.
LEMMA RowsUntouched ==
    ASSUME TypeOK, CitableInv, UNCHANGED <<chunkRows, vectors>>,
           \A j \in Jobs : job'[j].status = "done" => job[j].status = "done",
           \A j \in Jobs : doc'[j] = "ready" => doc[j] = "ready",
           \A w \in Workers : pc'[w] = "commit" => pc[w] = "commit" /\ task'[w] = task[w]
    PROVE  CitableInv'
    BY DEF CitableInv, NoDuplicateChunks, ChunksBackedByVectors, ReadyIsCitable,
           UpsertedBeforeCommit

\* The upload handler touches neither rows nor vectors.
LEMMA UploadKeepsRows ==
    ASSUME TypeOK, CitableInv, NEW j \in Jobs, UploadStep(j) \/ UploadDies(j) \/ Lose(j)
    PROVE  CitableInv'
<1>. USE DEF UploadStep, rows, locks, nodes, slots
<1>1. CASE RejectUpload(j)  BY <1>1, RowsUntouched DEF RejectUpload
<1>2. CASE SaveFile(j)      BY <1>2, RowsUntouched DEF SaveFile
<1>3. CASE InsertRows(j)    BY <1>3, RowsUntouched DEF InsertRows, TypeOK
<1>4. CASE Dispatch(j)      BY <1>4, RowsUntouched DEF Dispatch
<1>5. CASE UploadDies(j)    BY <1>5, RowsUntouched DEF UploadDies
<1>6. CASE Lose(j)          BY <1>6, RowsUntouched DEF Lose
<1>. QED
    BY <1>1, <1>2, <1>3, <1>4, <1>5, <1>6 DEF UploadStep

\* Nor does a node that boots, which changes statuses alone.
LEMMA NodeKeepsRows ==
    ASSUME TypeOK, CitableInv, NEW n \in Nodes,
           Boot(n) \/ ReclaimStep(n) \/ ReclaimStops(n) \/ NodeCrash(n)
    PROVE  CitableInv'
<1>. USE DEF rows, locks, nodes, slots
<1>1. CASE Boot(n)           BY <1>1, RowsUntouched DEF Boot
<1>2. CASE ReclaimSelect(n)  BY <1>2, RowsUntouched DEF ReclaimSelect
<1>3. CASE ReclaimReset(n)   BY <1>3, RowsUntouched DEF ReclaimReset, TypeOK
<1>4. CASE \E j \in Jobs : ReclaimDispatch(n, j)
    BY <1>4, RowsUntouched DEF ReclaimDispatch
<1>5. CASE ReclaimStops(n)   BY <1>5, RowsUntouched DEF ReclaimStops
<1>6. CASE NodeCrash(n)      BY <1>6, RowsUntouched DEF NodeCrash, Kill
<1>. QED
    BY <1>1, <1>2, <1>3, <1>4, <1>5, <1>6 DEF ReclaimStep

\* A task may replace the rows it has locked, insert the first, or add vectors.
LEMMA TaskKeepsRows ==
    ASSUME TypeOK, CitableInv, NEW w \in Workers, TaskStep(w)
    PROVE  CitableInv'
<1>. USE DEF rows, locks, nodes, slots, Go
<1>0. pc[w] # "idle" => task[w] \in Jobs
    BY DEF TypeOK
<1>1. CASE LoadJob(w)
    BY <1>1, RowsUntouched DEF LoadJob, TypeOK
<1>2. CASE MarkProcessing(w)
    BY <1>0, <1>2, RowsUntouched DEF MarkProcessing, TypeOK
<1>3. CASE RefreshJob(w)
    BY <1>3, RowsUntouched DEF RefreshJob, TypeOK
<1>4. CASE GetDocument(w)
    BY <1>4, RowsUntouched DEF GetDocument, TypeOK
<1>5. CASE ClearChunks(w)
    BY <1>5, RowsUntouched DEF ClearChunks, TypeOK
<1>6. CASE Upsert(w)
    BY <1>0, <1>6 DEF Upsert, TypeOK, CitableInv, NoDuplicateChunks, ChunksBackedByVectors,
                      ReadyIsCitable, UpsertedBeforeCommit
<1>7. CASE WorkFails(w)
    BY <1>0, <1>7 DEF WorkFails, TypeOK, CitableInv, NoDuplicateChunks, ChunksBackedByVectors,
                      ReadyIsCitable, UpsertedBeforeCommit
<1>8. CASE CommitResults(w)
    <2>. DEFINE d == task[w]
    <2>1. d \in Jobs /\ vectors[d] = ChunkIds
        BY <1>0, <1>8 DEF CommitResults, CitableInv, UpsertedBeforeCommit
    <2>2. chunkRows' = [chunkRows EXCEPT ![d] = 1]
        <3>1. chunkRows' = [chunkRows EXCEPT ![d] = (IF rowLock[d] = w THEN 0 ELSE chunkRows[d]) + 1]
            BY <1>8 DEF CommitResults
        <3>2. rowLock[d] = w \/ chunkRows[d] = 0
            BY <1>8 DEF CommitResults, Insertable
        <3>3. (IF rowLock[d] = w THEN 0 ELSE chunkRows[d]) + 1 = 1
            BY <3>2
        <3>. QED
            BY <3>1, <3>3, Zenon
    <2>3. NoDuplicateChunks' /\ ChunksBackedByVectors'
        BY <1>8, <2>1, <2>2 DEF CommitResults, TypeOK, CitableInv, NoDuplicateChunks,
                                ChunksBackedByVectors
    <2>4. ReadyIsCitable'
        BY <1>8, <2>1, <2>2 DEF CommitResults, TypeOK, CitableInv, ReadyIsCitable
    <2>5. UpsertedBeforeCommit'
        BY <1>8 DEF CommitResults, EndTransaction, TypeOK, CitableInv, UpsertedBeforeCommit
    <2>. QED
        BY <2>3, <2>4, <2>5 DEF CitableInv
<1>9. CASE CommitRefused(w)
    BY <1>9, RowsUntouched DEF CommitRefused, TypeOK
<1>10. CASE Rollback(w)
    BY <1>10, RowsUntouched DEF Rollback, EndTransaction, TypeOK
<1>11. CASE ReloadJob(w)
    BY <1>11, RowsUntouched DEF ReloadJob, TypeOK
<1>12. CASE HandleFailure(w)
    BY <1>0, <1>12, RowsUntouched DEF HandleFailure, TypeOK
<1>13. CASE Retry(w)
    BY <1>13, RowsUntouched DEF Retry, TypeOK
<1>14. CASE Ack(w)
    BY <1>14, RowsUntouched DEF Ack, TypeOK
<1>15. CASE Flush(w)
    BY <1>15, RowsUntouched DEF Flush, TypeOK
<1>16. CASE DeadlockDetected(w)
    BY <1>16, RowsUntouched DEF DeadlockDetected, EndTransaction, TypeOK
<1>. QED
    BY <1>1, <1>2, <1>3, <1>4, <1>5, <1>6, <1>7, <1>8, <1>9, <1>10, <1>11, <1>12, <1>13, <1>14,
       <1>15, <1>16
    DEF TaskStep

\* What happens to a slot from outside can only take its locks away.
LEMMA SlotKeepsRows ==
    ASSUME TypeOK, CitableInv, NEW w \in Workers,
           (\E j \in Jobs : Deliver(w, j)) \/ SlotCrash(w) \/ Redeliver(w) \/ TaskEscapes(w)
    PROVE  CitableInv'
<1>. USE DEF rows, locks, nodes, slots
<1>1. CASE \E j \in Jobs : Deliver(w, j)
    BY <1>1, RowsUntouched DEF Deliver, Go, TypeOK
<1>2. CASE SlotCrash(w)    BY <1>2, RowsUntouched DEF SlotCrash, Kill
<1>3. CASE Redeliver(w)    BY <1>3, RowsUntouched DEF Redeliver
<1>4. CASE TaskEscapes(w)  BY <1>4, RowsUntouched DEF TaskEscapes, EndTransaction, TypeOK
<1>. QED
    BY <1>1, <1>2, <1>3, <1>4

\* Whatever the interleaving of slots, crashes, redeliveries and reclaim passes:
\* chunk rows are never duplicated, never point at a vector that is not there,
\* and are there for every document shown as ready.
THEOREM CitableCorrect == Spec => []CitableInv
<1>1. Init => CitableInv
    BY DEF Init, CitableInv, NoDuplicateChunks, ChunksBackedByVectors, ReadyIsCitable,
           UpsertedBeforeCommit
<1>2. TypeOK /\ CitableInv /\ [Next]_vars => CitableInv'
    <2>. SUFFICES ASSUME TypeOK, CitableInv, [Next]_vars
                  PROVE  CitableInv'
        OBVIOUS
    <2>1. CASE Next
        BY <2>1, UploadKeepsRows, NodeKeepsRows, TaskKeepsRows, SlotKeepsRows, RowsUntouched
        DEF Next, FaultStep, Quiet, vars, rows, locks, slots, nodes
    <2>2. CASE UNCHANGED vars
        BY <2>2, RowsUntouched DEF vars, rows, locks, slots, nodes
    <2>. QED
        BY <2>1, <2>2
<1>. QED
    BY <1>1, <1>2, TypeCorrect, PTL DEF Spec

\* At most one copy of a document's chunk rows.
THEOREM NeverDuplicated == Spec => []NoDuplicateChunks
<1>1. CitableInv => NoDuplicateChunks
    BY DEF CitableInv
<1>. QED
    BY <1>1, CitableCorrect, PTL

\* Every chunk row has its vector.
THEOREM AlwaysBacked == Spec => []ChunksBackedByVectors
<1>1. CitableInv => ChunksBackedByVectors
    BY DEF CitableInv
<1>. QED
    BY <1>1, CitableCorrect, PTL

\* Once a document has chunk rows it has some in every later state.
THEOREM CitableForGood == Spec => CitableStaysCitable
<1>. USE DEF rows, locks, nodes, slots
<1>1. TypeOK /\ [Next]_vars => [\A j \in Jobs : chunkRows[j] > 0 => chunkRows'[j] > 0]_vars
    <2>. SUFFICES ASSUME TypeOK, Next
                  PROVE  \A j \in Jobs : chunkRows[j] > 0 => chunkRows'[j] > 0
        BY DEF vars
    <2>1. CASE \E w \in Workers : CommitResults(w)
        <3>. PICK w \in Workers : CommitResults(w)
            BY <2>1
        <3>1. task[w] \in Jobs /\ chunkRows \in [Jobs -> Nat]
            BY DEF CommitResults, TypeOK
        <3>2. chunkRows' = [chunkRows EXCEPT ![task[w]] =
                                (IF rowLock[task[w]] = w THEN 0 ELSE chunkRows[task[w]]) + 1]
            BY DEF CommitResults
        <3>. QED
            BY <3>1, <3>2
    <2>2. CASE ~\E w \in Workers : CommitResults(w)
        <3>1. chunkRows' = chunkRows
            BY <2>2, ZenonT(40)
            DEF Next, UploadStep, ReclaimStep, TaskStep, FaultStep, Quiet, vars,
                RejectUpload, SaveFile, InsertRows, Dispatch, UploadDies, Lose,
                Boot, ReclaimSelect, ReclaimReset, ReclaimDispatch, ReclaimStops,
                Deliver, LoadJob, MarkProcessing, RefreshJob, GetDocument, ClearChunks, Upsert,
                WorkFails, Flush, CommitRefused, DeadlockDetected, Rollback, ReloadJob,
                HandleFailure, Retry, Ack, SlotCrash, NodeCrash, Redeliver, TaskEscapes
        <3>. QED
            BY <3>1, SMTT(30)
    <2>. QED
        BY <2>1, <2>2
<1>. QED
    BY <1>1, TypeCorrect, PTL DEF Spec, CitableStaysCitable

\* Every document shown as ready has its chunk rows.
THEOREM ReadyCorrect == Spec => []ReadyIsCitable
<1>1. CitableInv => ReadyIsCitable
    BY DEF CitableInv
<1>. QED
    BY <1>1, CitableCorrect, PTL

-----------------------------------------------------------------------------
(* No job is stranded without a loss *)

\* A slot whose session loaded a settled status: it may finish without writing the
\* status, so it cannot be counted on to settle the job.
Stale(w) ==
    /\ Settled(seen[w].status)
    /\ pc[w] \in {"getdoc", "clear", "blocked", "work", "commit", "rollback", "reload", "handle"}

\* A slot that is bound to settle its job, or to see that somebody does.
Carries(w, j) == task[w] = j /\ pc[w] # "ack" /\ ~Stale(w)

Reclaiming(n, j) == j \in reclaim[n] /\ node[n] \in {"update", "dispatch"}

\* InHand, without the slots that cannot be counted on.
Handed(j) ==
    \/ upload[j] = "inserted"
    \/ queue[j] > 0
    \/ \E w \in Workers : Carries(w, j)
    \/ \E n \in Nodes : Reclaiming(n, j)

Open(j) == job[j].status \in {"pending", "processing"}

NoLoss == \A k \in LosingFaults : faults[k] = 0

HandedInv == NoLoss => \A j \in Jobs : Open(j) => Handed(j)

\* A fault of a losing kind leaves its mark in the count.
LEMMA FaultCounted ==
    ASSUME TypeOK, NEW kind \in FaultKinds, Fault(kind)
    PROVE  /\ NoLoss' => NoLoss
           /\ kind \in LosingFaults => ~NoLoss'
    BY DEF TypeOK, Fault, NoLoss, FaultKinds

\* The upload handler hands each job it creates to the queue.
LEMMA UploadHolds ==
    ASSUME TypeOK, HandedInv, NEW j \in Jobs, UploadStep(j) \/ UploadDies(j) \/ Lose(j)
    PROVE  HandedInv'
<1>. USE DEF TypeOK, UploadStep, rows, locks, nodes, slots, HandedInv, Open, Handed, Carries, Stale, Reclaiming
<1>1. CASE RejectUpload(j)  BY <1>1 DEF RejectUpload, NoLoss
<1>2. CASE SaveFile(j)      BY <1>2 DEF SaveFile, NoLoss
<1>3. CASE InsertRows(j)    BY <1>3 DEF InsertRows, NoLoss
<1>4. CASE Dispatch(j)      BY <1>4 DEF Dispatch, Enqueue, NoLoss
<1>5. CASE UploadDies(j)    BY <1>5, FaultCounted DEF UploadDies, FaultKinds, LosingFaults
<1>6. CASE Lose(j)          BY <1>6, FaultCounted DEF Lose, FaultKinds, LosingFaults
<1>. QED
    BY <1>1, <1>2, <1>3, <1>4, <1>5, <1>6 DEF UploadStep

\* A reclaim pass keeps the jobs it has reset until it has dispatched them.
LEMMA NodeHolds ==
    ASSUME TypeOK, HandedInv, NEW n \in Nodes, Boot(n) \/ ReclaimStep(n) \/ ReclaimStops(n)
    PROVE  HandedInv'
<1>. USE DEF TypeOK, rows, locks, nodes, slots, HandedInv, Open, Handed, Carries, Stale, Reclaiming
<1>1. CASE Boot(n)           BY <1>1 DEF Boot, NoLoss
<1>2. CASE ReclaimSelect(n)  BY <1>2 DEF ReclaimSelect, NoLoss
<1>3. CASE ReclaimReset(n)   BY <1>3 DEF ReclaimReset, NoLoss
<1>4. CASE \E j \in Jobs : ReclaimDispatch(n, j)
    BY <1>4 DEF ReclaimDispatch, Enqueue, NoLoss
<1>5. CASE ReclaimStops(n)   BY <1>5, FaultCounted DEF ReclaimStops, FaultKinds, LosingFaults
<1>. QED
    BY <1>1, <1>2, <1>3, <1>4, <1>5 DEF ReclaimStep

\* A step that writes no job keeps every open one in a hand when each slot that carries it
\* goes on to, or there is a message.
LEMMA StillHanded ==
    ASSUME TypeOK, HandedInv, UNCHANGED <<upload, job, node, reclaim, faults>>,
           \A d \in Jobs : queue[d] > 0 => queue'[d] > 0,
           \A x \in Workers, d \in Jobs :
               Open(d) /\ Carries(x, d) => Carries(x, d)' \/ queue'[d] > 0
    PROVE  HandedInv'
<1>. SUFFICES ASSUME NoLoss', NEW d \in Jobs, Open(d)'
              PROVE  Handed(d)'
    BY DEF HandedInv
<1>1. Open(d) /\ Handed(d)
    BY DEF HandedInv, NoLoss, Open
<1>2. ASSUME NEW x \in Workers, Carries(x, d)
      PROVE  Handed(d)'
    <2>1. Carries(x, d)' \/ queue'[d] > 0
        BY <1>1, <1>2
    <2>. QED
        BY <2>1 DEF Handed
<1>. QED
    BY <1>1, <1>2 DEF Handed, Reclaiming

\* A task finishes with its job settled, or sends the message of a retry first.
LEMMA TaskHolds ==
    ASSUME TypeOK, HandedInv, NEW w \in Workers, TaskStep(w)
    PROVE  HandedInv'
<1>. DEFINE j == task[w]
<1>1. /\ pc[w] # "idle" => j \in Jobs
      /\ pc \in [Workers -> TaskStage] /\ DOMAIN seen = Workers /\ queue \in [Jobs -> Nat]
    BY DEF TypeOK
<1>2. CASE \/ LoadJob(w) \/ RefreshJob(w) \/ GetDocument(w) \/ ReloadJob(w)
    <2>1. UNCHANGED <<upload, job, queue, node, reclaim, faults, task>>
        BY <1>2 DEF LoadJob, RefreshJob, GetDocument, ReloadJob, rows, nodes
    <2>2. ASSUME NEW x \in Workers, NEW d \in Jobs, Open(d), Carries(x, d)
          PROVE  Carries(x, d)'
        <3>1. CASE x # w
            BY <1>1, <1>2, <2>2, <3>1
            DEF LoadJob, RefreshJob, GetDocument, ReloadJob, Go, Carries, Stale
        <3>2. CASE x = w /\ ~GetDocument(w)
            <4>1. d = j /\ job[j].status \in {"pending", "processing"}
                BY <2>2, <3>2 DEF Carries, Open
            <4>2. seen'[w].status = job[j].status /\ pc'[w] # "ack"
                BY <1>1, <1>2, <3>2, <4>1 DEF LoadJob, RefreshJob, ReloadJob, Go
            <4>. QED
                BY <2>1, <3>2, <4>1, <4>2 DEF Carries, Stale, Settled
        <3>3. CASE x = w /\ GetDocument(w)
            <4>1. pc[w] = "getdoc" /\ pc'[w] # "ack" /\ seen'[w].status = seen[w].status
                BY <1>1, <3>3 DEF GetDocument, Go, TypeOK
            <4>. QED
                BY <2>1, <2>2, <3>3, <4>1 DEF Carries, Stale
        <3>. QED
            BY <3>1, <3>2, <3>3
    <2>. QED
        BY <2>1, <2>2, StillHanded
<1>3. CASE \/ ClearChunks(w) \/ Upsert(w) \/ WorkFails(w) \/ Flush(w) \/ CommitRefused(w)
           \/ Retry(w) \/ Ack(w)
    <2>0. UNCHANGED <<upload, job, node, reclaim, faults>> /\ (UNCHANGED queue \/ Retry(w))
        BY <1>3, Zenon
        DEF ClearChunks, Upsert, WorkFails, Flush, CommitRefused, Retry, Ack, rows, nodes
    <2>1. \A d \in Jobs : queue[d] > 0 => queue'[d] > 0
        BY <1>1, <2>0 DEF Retry, Enqueue
    <2>2. ASSUME NEW x \in Workers, NEW d \in Jobs, Carries(x, d)
          PROVE  Carries(x, d)' \/ queue'[d] > 0
        <3>1. CASE Retry(w) /\ d = j
            BY <1>1, <3>1 DEF Retry, Enqueue, TypeOK
        <3>2. CASE x # w
            BY <1>1, <1>3, <2>2, <3>2
            DEF ClearChunks, Upsert, WorkFails, Flush, CommitRefused, Retry, Ack, Go, slots,
                Carries, Stale, TypeOK
        <3>3. CASE x = w /\ ~Retry(w)
            BY <1>1, <1>3, <2>2, <3>3
            DEF ClearChunks, Upsert, WorkFails, Flush, CommitRefused, Ack, Go, slots,
                Carries, Stale
        <3>. QED
            BY <2>2, <3>1, <3>2, <3>3 DEF Carries
    <2>. QED
        BY <2>0, <2>1, <2>2, StillHanded
<1>4. CASE Rollback(w) \/ DeadlockDetected(w)
    <2>1. UNCHANGED <<upload, job, queue, node, reclaim, faults>>
        BY <1>4 DEF Rollback, DeadlockDetected, rows, nodes
    <2>2. \A x \in Workers, d \in Jobs : Carries(x, d) => Carries(x, d)'
        BY <1>4 DEF Rollback, DeadlockDetected, EndTransaction, Waiters, Carries, Stale
    <2>. QED
        BY <2>1, <2>2, StillHanded
<1>5. CASE CommitResults(w)
    <2>1. /\ UNCHANGED <<upload, queue, node, reclaim, faults, task>>
          /\ pc[w] = "commit" /\ j \in Jobs
          /\ job' = [job EXCEPT ![j].status = IF seen[w].status = "done" THEN @ ELSE "done"]
        BY <1>1, <1>5 DEF CommitResults, nodes
    <2>2. \A x \in Workers \ {w}, d \in Jobs : Carries(x, d) => Carries(x, d)'
        BY <1>1, <1>5 DEF CommitResults, EndTransaction, Waiters, Carries, Stale
    <2>3. ASSUME NEW d \in Jobs, Open(d)'
          PROVE  Open(d) /\ (d = j => Stale(w))
        BY <2>1, <2>3 DEF Open, Stale, Settled, TypeOK
    <2>4. ASSUME NEW d \in Jobs, Open(d)', Handed(d)
          PROVE  Handed(d)'
        <3>1. ~Carries(w, d)
            BY <2>3, <2>4 DEF Carries
        <3>. QED
            BY <2>1, <2>2, <2>4, <3>1 DEF Handed, Reclaiming
    <2>. QED
        BY <2>1, <2>3, <2>4 DEF HandedInv, NoLoss
<1>6. CASE HandleFailure(w)
    <2>1. /\ UNCHANGED <<upload, queue, node, reclaim, faults, task, seen>>
          /\ pc[w] = "handle" /\ j \in Jobs
          /\ \A x \in Workers \ {w} : pc'[x] = pc[x]
          /\ \A d \in Jobs \ {j} : job'[d] = job[d]
        BY <1>1, <1>6 DEF HandleFailure, Go, nodes, TypeOK
    <2>2. Open(j)' => pc'[w] = "retry" \/ (Open(j) /\ Stale(w))
        BY <1>1, <1>6, <2>1 DEF HandleFailure, Go, Open, Stale, Settled, TypeOK
    <2>3. ASSUME NEW d \in Jobs, Open(d)', Open(d) => Handed(d)
          PROVE  Handed(d)'
        <3>1. CASE d = j /\ pc'[w] = "retry"
            BY <2>1, <3>1 DEF Handed, Carries, Stale
        <3>2. CASE ~(d = j /\ pc'[w] = "retry")
            <4>1. Handed(d) /\ ~Carries(w, d)
                BY <2>1, <2>2, <2>3, <3>2 DEF Carries, Open
            <4>. QED
                BY <2>1, <4>1 DEF Handed, Carries, Stale, Reclaiming
        <3>. QED
            BY <3>1, <3>2
    <2>. QED
        BY <2>1, <2>3 DEF HandedInv, NoLoss
<1>7. CASE MarkProcessing(w)
    BY <1>1, <1>7, SMTT(30)
    DEF MarkProcessing, TypeOK, rows, nodes, Go, HandedInv, Open, Handed, Carries, Stale, Reclaiming,
        NoLoss, Settled
<1>. QED
    BY <1>2, <1>3, <1>4, <1>5, <1>6, <1>7 DEF TaskStep

\* Killed slots hand their jobs back to the queue.
LEMMA KillHolds ==
    ASSUME TypeOK, NEW S \in SUBSET Workers, Kill(S), UNCHANGED <<upload, job, reclaim>>,
           \A n \in Nodes : node[n] \in {"update", "dispatch"} => node'[n] = node[n],
           NEW j \in Jobs, Handed(j)
    PROVE  Handed(j)'
<1>. DEFINE killed == {w \in S : task[w] = j}
<1>1. IsFiniteSet(killed) /\ Cardinality(killed) \in Nat
    BY ConstantsAssumption, FS_Subset, FS_CardinalityType
<1>2. queue'[j] = queue[j] + Cardinality(killed)
    BY DEF Kill
<1>3. killed # {} => Cardinality(killed) > 0
    BY <1>1, FS_EmptySet
<1>4. CASE killed # {}
    BY <1>1, <1>2, <1>3, <1>4 DEF TypeOK, Handed
<1>5. CASE killed = {}
    <2>1. queue[j] > 0 => queue'[j] > 0
        BY <1>1, <1>2 DEF TypeOK
    <2>2. \A w \in Workers : Carries(w, j) => Carries(w, j)'
        BY <1>5 DEF Kill, TypeOK, Carries, Stale, Waiters
    <2>3. \A n \in Nodes : Reclaiming(n, j) => Reclaiming(n, j)'
        BY DEF Reclaiming
    <2>4. CASE queue[j] > 0
        BY <2>1, <2>4 DEF Handed
    <2>5. CASE ~(queue[j] > 0)
        BY <2>2, <2>3, <2>5 DEF Handed
    <2>. QED
        BY <2>4, <2>5
<1>. QED
    BY <1>4, <1>5

\* A slot that dies gives its message back; other events can only lose it as counted faults.
LEMMA SlotHolds ==
    ASSUME TypeOK, HandedInv, NEW w \in Workers,
           (\E j \in Jobs : Deliver(w, j)) \/ SlotCrash(w) \/ Redeliver(w) \/ TaskEscapes(w)
    PROVE  HandedInv'
<1>. USE DEF rows, locks, nodes, slots, HandedInv, Open
<1>1. CASE \E j \in Jobs : Deliver(w, j)
    <2>. PICK j \in Jobs : Deliver(w, j)
        BY <1>1
    <2>1. UNCHANGED <<upload, job, node, reclaim, faults>>
        BY DEF Deliver
    <2>2. Carries(w, j)'
        BY DEF Deliver, Go, TypeOK, Carries, Stale
    <2>3. \A d \in Jobs : d # j => queue'[d] = queue[d]
        BY DEF Deliver, TypeOK
    <2>4. \A x \in Workers, d \in Jobs : Carries(x, d) => Carries(x, d)'
        BY ConstantsAssumption DEF Deliver, Go, TypeOK, Carries, Stale
    <2>. QED
        BY <2>1, <2>2, <2>3, <2>4 DEF Handed, Reclaiming, NoLoss
<1>2. CASE SlotCrash(w)
    BY <1>2, KillHolds, FaultCounted, Kinds DEF SlotCrash
<1>3. CASE Redeliver(w)
    BY <1>3, FaultCounted, Kinds DEF Redeliver, Enqueue, TypeOK, Handed, Carries, Stale, Reclaiming
<1>4. CASE TaskEscapes(w)
    BY <1>4, FaultCounted DEF TaskEscapes, FaultKinds, LosingFaults
<1>. QED
    BY <1>1, <1>2, <1>3, <1>4

\* A node that dies gives back the messages of all its slots.
LEMMA NodeCrashHolds ==
    ASSUME TypeOK, HandedInv, NEW n \in Nodes, NodeCrash(n)
    PROVE  HandedInv'
    BY KillHolds, FaultCounted, Kinds DEF NodeCrash, HandedInv, Open, TypeOK, rows

\* As long as no fault loses track of a job, every job that is not settled is in
\* somebody's hand: crashes, redeliveries and races alone strand nothing.
THEOREM NeverStranded == Spec => []StrandedOnlyByLoss
<1>1. Init => HandedInv
    BY DEF Init, HandedInv, Open
<1>2. TypeOK /\ HandedInv /\ [Next]_vars => HandedInv'
    <2>. SUFFICES ASSUME TypeOK, HandedInv, [Next]_vars
                  PROVE  HandedInv'
        OBVIOUS
    <2>1. CASE UNCHANGED vars
        BY <2>1 DEF vars, rows, locks, slots, nodes, HandedInv, Open, Handed, Carries, Stale, Reclaiming, NoLoss
    <2>2. CASE Next
        BY <2>1, <2>2, UploadHolds, NodeHolds, TaskHolds, SlotHolds, NodeCrashHolds
        DEF Next, FaultStep, Quiet
    <2>. QED
        BY <2>1, <2>2
<1>3. TypeOK /\ HandedInv => StrandedOnlyByLoss
    <2>1. ASSUME TypeOK, ~NoLoss
          PROVE  \E k \in LosingFaults : faults[k] > 0
        BY <2>1 DEF NoLoss, TypeOK, FaultKinds
    <2>. QED
        BY <2>1 DEF HandedInv, Open, Handed, Carries, Reclaiming, StrandedOnlyByLoss, InHand
<1>. QED
    BY <1>1, <1>2, <1>3, TypeCorrect, PTL DEF Spec

-----------------------------------------------------------------------------
(* Who holds up whom *)

\* The steps of a task between its DELETE and the end of its transaction.
InTransaction == {"work", "commit", "rollback"}

\* Locks on chunk rows are held by the transactions of tasks on that document, locks on
\* what a commit writes by that commit, and a slot that is blocked is blocked by one.
LockInv ==
    /\ \A j \in Jobs : rowLock[j] # None => /\ task[rowLock[j]] = j
                                            /\ pc[rowLock[j]] \in InTransaction
    /\ \A w \in Workers : pc[w] = "blocked" => rowLock[task[w]] # None
    /\ \A w \in Workers : flushed[w] # {} => pc[w] \in {"commit", "rollback"}

\* A step that neither takes nor releases locks keeps the invariant when no slot leaves
\* its transaction, and none starts to wait.
LEMMA LocksStand ==
    ASSUME TypeOK, LockInv, UNCHANGED <<rowLock, flushed>>,
           \A w \in Workers :
               \/ pc'[w] = pc[w] /\ task'[w] = task[w]
               \/ pc[w] \notin InTransaction /\ pc'[w] # "blocked"
               \/ pc'[w] \in {"commit", "rollback"} /\ task'[w] = task[w]
    PROVE  LockInv'
<1>1. ASSUME NEW j \in Jobs, rowLock'[j] # None
      PROVE  task'[rowLock'[j]] = j /\ pc'[rowLock'[j]] \in InTransaction
    BY <1>1 DEF TypeOK, LockInv, InTransaction
<1>2. ASSUME NEW w \in Workers, pc'[w] = "blocked"
      PROVE  rowLock'[task'[w]] # None
    BY <1>2 DEF LockInv, InTransaction
<1>3. \A w \in Workers : flushed'[w] # {} => pc'[w] \in {"commit", "rollback"}
    BY DEF LockInv, InTransaction
<1>. QED
    BY <1>1, <1>2, <1>3 DEF LockInv

\* The end of a transaction releases all its locks and wakes all who waited for them.
LEMMA EndReleases ==
    ASSUME TypeOK, LockInv, NEW w \in Workers, NEW next \in {"ack", "reload", "rollback"},
           NEW wake \in {"work", "clear"}, EndTransaction(w, next, wake), UNCHANGED task
    PROVE  LockInv'
<1>1. ASSUME NEW j \in Jobs, rowLock'[j] # None
      PROVE  task'[rowLock'[j]] = j /\ pc'[rowLock'[j]] \in InTransaction
    <2>1. rowLock'[j] = rowLock[j] /\ rowLock[j] # w /\ rowLock[j] \in Workers
        BY <1>1 DEF EndTransaction, TypeOK
    <2>2. task[rowLock[j]] = j /\ pc[rowLock[j]] \in InTransaction
        BY <1>1, <2>1 DEF LockInv
    <2>. QED
        BY <2>1, <2>2 DEF EndTransaction, Waiters, InTransaction
<1>2. ASSUME NEW v \in Workers, pc'[v] = "blocked"
      PROVE  rowLock'[task'[v]] # None
    <2>1. pc[v] = "blocked" /\ rowLock[task[v]] # w
        BY <1>2 DEF EndTransaction, Waiters
    <2>2. task[v] \in Jobs /\ rowLock[task[v]] # None
        BY <2>1 DEF LockInv, TypeOK
    <2>. QED
        BY <2>1, <2>2 DEF EndTransaction
<1>3. ASSUME NEW v \in Workers, flushed'[v] # {}
      PROVE  pc'[v] \in {"commit", "rollback"}
    <2>1. v # w /\ flushed[v] # {}
        BY <1>3 DEF EndTransaction, TypeOK
    <2>2. pc[v] \in {"commit", "rollback"}
        BY <2>1 DEF LockInv
    <2>. QED
        BY <2>1, <2>2 DEF EndTransaction, Waiters
<1>. QED
    BY <1>1, <1>2, <1>3 DEF LockInv

\* So does the death of slots.
LEMMA KillReleases ==
    ASSUME TypeOK, LockInv, NEW S \in SUBSET Workers, Kill(S)
    PROVE  LockInv'
<1>1. ASSUME NEW j \in Jobs, rowLock'[j] # None
      PROVE  task'[rowLock'[j]] = j /\ pc'[rowLock'[j]] \in InTransaction
    <2>1. rowLock'[j] = rowLock[j] /\ rowLock[j] \notin S /\ rowLock[j] \in Workers
        BY <1>1 DEF Kill, TypeOK
    <2>2. task[rowLock[j]] = j /\ pc[rowLock[j]] \in InTransaction
        BY <1>1, <2>1 DEF LockInv
    <2>. QED
        BY <2>1, <2>2 DEF Kill, Waiters, InTransaction
<1>2. ASSUME NEW v \in Workers, pc'[v] = "blocked"
      PROVE  rowLock'[task'[v]] # None
    <2>1. v \notin S /\ pc[v] = "blocked" /\ rowLock[task[v]] \notin S /\ task'[v] = task[v]
        BY <1>2 DEF Kill, Waiters
    <2>2. task[v] \in Jobs /\ rowLock[task[v]] # None
        BY <2>1 DEF LockInv, TypeOK
    <2>. QED
        BY <2>1, <2>2 DEF Kill
<1>3. ASSUME NEW v \in Workers, flushed'[v] # {}
      PROVE  pc'[v] \in {"commit", "rollback"}
    <2>1. v \notin S /\ flushed[v] # {}
        BY <1>3 DEF Kill
    <2>2. pc[v] \in {"commit", "rollback"}
        BY <2>1 DEF LockInv
    <2>. QED
        BY <2>1, <2>2 DEF Kill, Waiters
<1>. QED
    BY <1>1, <1>2, <1>3 DEF LockInv

\* A DELETE takes locks that are free, or waits for whoever holds them.
LEMMA ClearLocks ==
    ASSUME TypeOK, LockInv, NEW w \in Workers, ClearChunks(w)
    PROVE  LockInv'
<1>. DEFINE d == task[w]
<1>1. /\ pc[w] = "clear" /\ d \in Jobs /\ UNCHANGED <<flushed, task>>
      /\ pc \in [Workers -> TaskStage] /\ rowLock \in [Jobs -> Workers \cup {None}]
      /\ \A v \in Workers : task[v] \in Jobs \cup {None} /\ (pc[v] = "blocked" => task[v] \in Jobs)
    BY DEF ClearChunks, TypeOK
<1>2. \A j \in Jobs : rowLock[j] # w
    BY <1>1, ConstantsAssumption DEF LockInv, InTransaction
<1>3. \A v \in Workers : flushed'[v] # {} => pc'[v] \in {"commit", "rollback"}
    <2>1. \A v \in Workers \ {w} : pc'[v] = pc[v]
        BY <1>1 DEF ClearChunks, Go
    <2>. QED
        BY <1>1, <2>1 DEF LockInv
<1>4. CASE rowLock[d] # None
    <2>1. rowLock' = rowLock /\ pc' = [pc EXCEPT ![w] = "blocked"]
        BY <1>1, <1>4 DEF ClearChunks, Go
    <2>2. ASSUME NEW j \in Jobs, rowLock[j] # None
          PROVE  rowLock[j] \in Workers \ {w} /\ task[rowLock[j]] = j /\ pc[rowLock[j]] \in InTransaction
        BY <1>1, <1>2, <2>2 DEF LockInv
    <2>. QED
        BY <1>1, <1>3, <1>4, <2>1, <2>2 DEF LockInv
<1>5. CASE rowLock[d] = None
    <2>1. /\ rowLock' = rowLock \/ rowLock' = [rowLock EXCEPT ![d] = w]
          /\ pc' = [pc EXCEPT ![w] = "work"]
        BY <1>1, <1>5 DEF ClearChunks, Go
    <2>2. ASSUME NEW j \in Jobs, rowLock'[j] # None
          PROVE  task'[rowLock'[j]] = j /\ pc'[rowLock'[j]] \in InTransaction
        <3>1. CASE rowLock'[j] = rowLock[j]
            BY <1>1, <1>2, <2>1, <2>2, <3>1 DEF LockInv
        <3>2. CASE j = d /\ rowLock'[j] = w
            BY <1>1, <2>1, <3>2 DEF InTransaction
        <3>. QED
            BY <1>1, <2>1, <3>1, <3>2
    <2>3. ASSUME NEW v \in Workers, pc'[v] = "blocked"
          PROVE  rowLock'[task'[v]] # None
        <3>1. pc[v] = "blocked" /\ task[v] \in Jobs /\ rowLock[task[v]] # None
            BY <1>1, <2>1, <2>3 DEF LockInv
        <3>. QED
            BY <1>1, <1>5, <2>1, <3>1
    <2>. QED
        BY <1>3, <2>2, <2>3 DEF LockInv
<1>. QED
    BY <1>4, <1>5

\* Every step of a task takes, keeps or releases its own locks.
LEMMA TaskLocks ==
    ASSUME TypeOK, LockInv, NEW w \in Workers, TaskStep(w)
    PROVE  LockInv'
<1>1. CASE CommitResults(w) \/ Rollback(w) \/ DeadlockDetected(w)
    BY <1>1, EndReleases DEF CommitResults, Rollback, DeadlockDetected
<1>2. CASE ClearChunks(w)
    BY <1>2, ClearLocks
<1>3. CASE \/ LoadJob(w) \/ MarkProcessing(w) \/ RefreshJob(w) \/ GetDocument(w) \/ Upsert(w)
           \/ WorkFails(w) \/ CommitRefused(w) \/ ReloadJob(w) \/ HandleFailure(w) \/ Retry(w)
           \/ Ack(w)
    <2>1. /\ UNCHANGED <<rowLock, flushed>>
          /\ pc \in [Workers -> TaskStage] /\ DOMAIN task = Workers
        BY <1>3 DEF locks, LoadJob, MarkProcessing, RefreshJob, GetDocument, Upsert, WorkFails,
                    CommitRefused, ReloadJob, HandleFailure, Retry, Ack, TypeOK
    <2>2. \A v \in Workers \ {w} : pc'[v] = pc[v] /\ task'[v] = task[v]
        BY <1>3, <2>1 DEF LoadJob, MarkProcessing, RefreshJob, GetDocument, Upsert, WorkFails,
                    CommitRefused, ReloadJob, HandleFailure, Retry, Ack, Go
    <2>3. CASE Upsert(w) \/ WorkFails(w) \/ CommitRefused(w)
        BY <2>1, <2>2, <2>3, LocksStand DEF Upsert, WorkFails, CommitRefused, Go
    <2>4. CASE \/ LoadJob(w) \/ MarkProcessing(w) \/ RefreshJob(w) \/ GetDocument(w)
               \/ ReloadJob(w) \/ HandleFailure(w) \/ Retry(w) \/ Ack(w)
        <3>1. pc[w] \notin InTransaction /\ pc'[w] # "blocked"
            BY <2>1, <2>4 DEF LoadJob, MarkProcessing, RefreshJob, GetDocument, ReloadJob,
                              HandleFailure, Retry, Ack, Go, InTransaction
        <3>. QED
            BY <2>1, <2>2, <3>1, LocksStand
    <2>. QED
        BY <1>3, <2>3, <2>4
<1>4. CASE Flush(w)
    <2>1. /\ pc[w] = "commit" /\ UNCHANGED <<rowLock, pc, task>>
          /\ \A v \in Workers \ {w} : flushed'[v] = flushed[v]
        BY <1>4 DEF Flush, slots, TypeOK
    <2>. QED
        BY <2>1 DEF LockInv
<1>. QED
    BY <1>1, <1>2, <1>3, <1>4 DEF TaskStep

\* So does what happens to a slot from outside.
LEMMA SlotLocks ==
    ASSUME TypeOK, LockInv, NEW w \in Workers,
           (\E j \in Jobs : Deliver(w, j)) \/ SlotCrash(w) \/ Redeliver(w) \/ TaskEscapes(w)
    PROVE  LockInv'
<1>1. CASE \E j \in Jobs : Deliver(w, j)
    <2>1. /\ UNCHANGED <<rowLock, flushed>> /\ pc[w] = "idle" /\ pc'[w] = "load"
          /\ \A v \in Workers \ {w} : pc'[v] = pc[v] /\ task'[v] = task[v]
        BY <1>1 DEF Deliver, Go, TypeOK, locks
    <2>. QED
        BY <2>1, LocksStand DEF InTransaction
<1>2. CASE SlotCrash(w)
    BY <1>2, KillReleases DEF SlotCrash
<1>3. CASE Redeliver(w)
    BY <1>3, LocksStand DEF Redeliver, slots, locks
<1>4. CASE TaskEscapes(w)
    BY <1>4, EndReleases DEF TaskEscapes
<1>. QED
    BY <1>1, <1>2, <1>3, <1>4

\* Whoever waits, waits for the open transaction of another task on the document, which
\* holds what it holds from its DELETE or its commit on and waits itself in its commit at
\* most, for any number of slots, documents, crashes and redeliveries.
THEOREM WaitsCorrect == Spec => []WaitsEnd
<1>1. Init => LockInv
    BY DEF Init, LockInv
<1>2. TypeOK /\ LockInv /\ [Next]_vars => LockInv'
    <2>. SUFFICES ASSUME TypeOK, LockInv, [Next]_vars
                  PROVE  LockInv'
        OBVIOUS
    <2>1. CASE \/ UNCHANGED vars
               \/ \E j \in Jobs : UploadStep(j) \/ UploadDies(j) \/ Lose(j)
               \/ \E n \in Nodes : Boot(n) \/ ReclaimStep(n) \/ ReclaimStops(n)
        <3>1. UNCHANGED <<rowLock, flushed, pc, task>>
            BY <2>1 DEF vars, locks, slots, UploadStep, RejectUpload, SaveFile, InsertRows, Dispatch,
                        UploadDies, Lose, Boot, ReclaimStep, ReclaimSelect, ReclaimReset,
                        ReclaimDispatch, ReclaimStops
        <3>. QED
            BY <3>1, LocksStand
    <2>2. CASE \E n \in Nodes : NodeCrash(n)
        BY <2>2, KillReleases DEF NodeCrash
    <2>. QED
        BY <2>1, <2>2, TaskLocks, SlotLocks DEF Next, FaultStep, Quiet
<1>3. TypeOK /\ LockInv => WaitsEnd
    <2>. DEFINE Holds(x, w) == /\ task[x] = task[w]
                               /\ x = rowLock[task[w]] \/ flushed[x] # {}
                               /\ pc[x] \in InTransaction
    <2>. SUFFICES ASSUME TypeOK, LockInv, NEW w \in Workers, Waiting(w)
                  PROVE  \E x \in Workers \ {w} : Holds(x, w)
        BY DEF WaitsEnd, InTransaction
    <2>1. CASE \/ pc[w] = "blocked"
               \/ pc[w] = "commit" /\ ~Insertable(w) /\ rowLock[task[w]] # None
        <3>. DEFINE h == rowLock[task[w]]
        <3>1. task[w] \in Jobs /\ h # None
            BY <2>1 DEF LockInv, TypeOK
        <3>2. h \in Workers /\ task[h] = task[w] /\ pc[h] \in InTransaction
            BY <3>1 DEF LockInv, TypeOK
        <3>3. h # w
            BY <2>1, <3>2 DEF Insertable, InTransaction
        <3>. QED
            BY <3>2, <3>3
    <2>2. ASSUME NEW table \in Tables, Held(task[w], table, w)
          PROVE  \E x \in Workers \ {w} : Holds(x, w)
        <3>1. PICK x \in Workers \ {w} : task[x] = task[w] /\ flushed[x] # {}
            BY <2>2 DEF Held
        <3>. QED
            BY <3>1 DEF LockInv, InTransaction
    <2>3. Unwritten(w) \subseteq Tables /\ "ingestion_jobs" \in Tables
        BY DEF Unwritten, Tables
    <2>. QED
        BY <2>1, <2>2, <2>3 DEF Waiting
<1>. QED
    BY <1>1, <1>2, <1>3, TypeCorrect, PTL DEF Spec

=============================================================================
