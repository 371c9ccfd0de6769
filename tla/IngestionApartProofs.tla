------------------------ MODULE IngestionApartProofs ------------------------
(***************************************************************************)
(* Theorems about Ingestion as long as deliveries of one document do not   *)
(* overlap, for any number of jobs, slots and nodes and any number of      *)
(* faults of every kind.  With deliveries that overlap they are false.     *)
(***************************************************************************)
EXTENDS IngestionProofs

-----------------------------------------------------------------------------
(* The invariant *)

\* No two slots have messages of the same job, and no node is about to reset the job
\* of a task: the broker's redelivery and the reclaim pass are what break this.
Apart ==
    /\ \A v, w \in Workers : task[v] = task[w] /\ task[v] # None => v = w
    /\ \A n \in Nodes, w \in Workers : node[n] = "update" => task[w] \notin reclaim[n]

\* The document's status that goes with the status of its job.
DocOf(status) == IF status \in {"pending", "processing"} THEN "pending"
                 ELSE IF status = "done" THEN "ready" ELSE status

\* The rows of a job and its document agree.
JobStory(j) ==
    LET status == job[j].status
    IN  /\ upload[j] \in {"new", "saved"} => status = "absent"
        /\ status = "absent" => job[j].attempts = 0
        /\ doc[j] = DocOf(status)
        /\ chunkRows[j] > 0 <=> status = "done"
        /\ rowLock[j] = None

\* What a task has read is what is there: nobody else writes the rows of its job.
SlotStory(w) ==
    LET j == task[w]
    IN  /\ pc[w] # "blocked"
        /\ pc[w] = "mark" => job[j].status = "pending" /\ seen[w].attempts = job[j].attempts
        /\ pc[w] \in {"refresh", "getdoc", "clear", "work", "commit", "rollback", "reload",
                      "handle"} => job[j].status = "processing"
        /\ pc[w] \in {"getdoc", "clear", "work", "commit", "handle"} =>
               seen[w].status = "processing" /\ seen[w].attempts = job[j].attempts
        /\ pc[w] \in {"clear", "work", "commit", "handle"} => seen[w].doc = "pending"

\* A job that a node is about to reset was not settled meanwhile.
NodeStory(n) == node[n] = "update" => \A j \in reclaim[n] : Open(j)

Story ==
    /\ \A j \in Jobs : JobStory(j)
    /\ \A w \in Workers : SlotStory(w)
    /\ \A n \in Nodes : NodeStory(n)

StoryInv == TypeOK /\ Story

\* The initial states.
LEMMA InitStory == Init => Story
    BY DEF Init, Story, JobStory, SlotStory, NodeStory, DocOf

-----------------------------------------------------------------------------
(* A job that a step leaves alone, and a step of a slot *)

\* A job whose rows a step leaves alone keeps its story.
LEMMA JobStands ==
    ASSUME NEW j \in Jobs, JobStory(j), UNCHANGED upload, rowLock'[j] = None,
           job'[j] = job[j], doc'[j] = doc[j], chunkRows'[j] = chunkRows[j]
    PROVE  JobStory(j)'
    BY DEF JobStory

\* So does a slot that a step leaves alone with its job.
LEMMA SlotStands ==
    ASSUME NEW w \in Workers, SlotStory(w),
           pc'[w] = pc[w], task'[w] = task[w], seen'[w] = seen[w], job'[task[w]] = job[task[w]]
    PROVE  SlotStory(w)'
    BY DEF SlotStory

\* What a slot that is not idle knows.
LEMMA SlotKnows ==
    ASSUME StoryInv, NEW w \in Workers, pc[w] # "idle"
    PROVE  /\ task[w] \in Jobs /\ JobStory(task[w]) /\ SlotStory(w)
           /\ \A j \in Jobs : JobStory(j) /\ rowLock[j] = None
           /\ job[task[w]].status \in JobStatus /\ job[task[w]].attempts \in Nat
           /\ chunkRows[task[w]] \in Nat /\ pc \in [Workers -> TaskStage]
           /\ seen[w] \in [status : JobStatus, attempts : Nat, doc : DocStatus]
    BY DEF StoryInv, Story, TypeOK, JobStory

\* A task moves its own slot and writes its own rows: no slot waits to be woken.
LEMMA TaskApart ==
    ASSUME StoryInv, NEW w \in Workers, TaskStep(w)
    PROVE  /\ pc[w] # "idle" /\ UNCHANGED <<upload, node, reclaim, faults>>
           /\ \A v \in Workers \ {w} : pc'[v] = pc[v] /\ task'[v] = task[v] /\ seen'[v] = seen[v]
           /\ \A j \in Jobs \ {task[w]} :
                  job'[j] = job[j] /\ doc'[j] = doc[j] /\ chunkRows'[j] = chunkRows[j]
<1>1. \A v \in Workers : pc[v] # "blocked"
    BY DEF StoryInv, Story, SlotStory
<1>2. /\ pc \in [Workers -> TaskStage] /\ DOMAIN task = Workers /\ DOMAIN seen = Workers
      /\ job \in [Jobs -> [status : JobStatus, attempts : Nat]]
      /\ DOMAIN doc = Jobs /\ DOMAIN chunkRows = Jobs
    BY DEF StoryInv, TypeOK
<1>. USE DEF rows, nodes
<1>3. CASE \/ LoadJob(w) \/ MarkProcessing(w) \/ RefreshJob(w) \/ GetDocument(w) \/ ClearChunks(w)
           \/ Upsert(w) \/ WorkFails(w)
    BY <1>2, <1>3
    DEF LoadJob, MarkProcessing, RefreshJob, GetDocument, ClearChunks, Upsert, WorkFails, Go
<1>4. CASE CommitResults(w) \/ Rollback(w)
    BY <1>1, <1>2, <1>4 DEF CommitResults, Rollback, EndTransaction, Waiters
<1>5. CASE CommitRefused(w) \/ ReloadJob(w) \/ HandleFailure(w) \/ Retry(w) \/ Ack(w)
    BY <1>2, <1>5 DEF CommitRefused, ReloadJob, HandleFailure, Retry, Ack, Go
<1>6. CASE Flush(w)
    BY <1>6 DEF Flush, slots
<1>7. CASE DeadlockDetected(w)
    BY <1>1, <1>2, <1>7 DEF DeadlockDetected, EndTransaction, Waiters
<1>. QED
    BY <1>3, <1>4, <1>5, <1>6, <1>7 DEF TaskStep

\* A task that keeps its own story keeps everybody's.
LEMMA SlotMoves ==
    ASSUME Apart, StoryInv, NEW w \in Workers, TaskStep(w), NEW j \in Jobs, j = task[w],
           JobStory(j)', \A i \in Jobs : rowLock'[i] = None, SlotStory(w)'
    PROVE  Story'
<1>1. /\ \A i \in Jobs : JobStory(i) /\ rowLock[i] = None
      /\ \A v \in Workers : SlotStory(v) /\ task[v] \in Jobs \cup {None} /\ (pc[v] = "idle" <=> task[v] = None)
      /\ \A n \in Nodes : NodeStory(n)
      /\ reclaim \in [Nodes -> SUBSET Jobs]
    BY DEF StoryInv, Story, TypeOK, JobStory
<1>2. ASSUME NEW i \in Jobs PROVE JobStory(i)'
    BY <1>1, TaskApart, JobStands
<1>3. ASSUME NEW v \in Workers PROVE SlotStory(v)'
    <2>1. CASE v = w
        BY <2>1
    <2>2. CASE v # w /\ pc[v] = "idle"
        BY <2>2, TaskApart DEF SlotStory
    <2>3. CASE v # w /\ pc[v] # "idle"
        <3>1. task[v] \in Jobs \ {j}
            BY <1>1, <2>3 DEF Apart
        <3>. QED
            BY <1>1, <2>3, <3>1, TaskApart, SlotStands
    <2>. QED
        BY <2>1, <2>2, <2>3
<1>4. ASSUME NEW n \in Nodes PROVE NodeStory(n)'
    <2>1. UNCHANGED <<node, reclaim>> /\ \A i \in Jobs \ {j} : job'[i] = job[i]
        BY TaskApart
    <2>2. node[n] = "update" => j \notin reclaim[n]
        BY DEF Apart
    <2>. QED
        BY <1>1, <2>1, <2>2 DEF NodeStory, Open
<1>. QED
    BY <1>2, <1>3, <1>4 DEF Story

-----------------------------------------------------------------------------
(* The steps of the task *)

\* Reading changes no row.
LEMMA ReadsKeepStory ==
    ASSUME Apart, StoryInv, NEW w \in Workers,
           \/ LoadJob(w) \/ RefreshJob(w) \/ GetDocument(w) \/ ReloadJob(w)
    PROVE  Story'
<1>. DEFINE j == task[w]
<1>1. /\ UNCHANGED <<upload, job, doc, chunkRows, rowLock, task>>
      /\ pc[w] \in {"load", "refresh", "getdoc", "reload"} /\ pc[w] # "idle" /\ TaskStep(w)
    BY DEF LoadJob, RefreshJob, GetDocument, ReloadJob, rows, locks, nodes, TaskStep
<1>2. /\ j \in Jobs /\ JobStory(j) /\ SlotStory(w) /\ job[j].status \in JobStatus
      /\ \A i \in Jobs : rowLock'[i] = None
    BY <1>1, SlotKnows
<1>3. JobStory(j)'
    BY <1>1, <1>2 DEF JobStory
<1>4. SlotStory(w)'
    <2>1. pc \in [Workers -> TaskStage] /\ DOMAIN seen = Workers
          /\ seen[w] \in [status : JobStatus, attempts : Nat, doc : DocStatus]
        BY DEF StoryInv, TypeOK
    <2>2. CASE LoadJob(w)
        BY <1>1, <1>2, <2>1, <2>2 DEF LoadJob, Go, SlotStory, JobStatus
    <2>3. CASE RefreshJob(w)
        BY <1>1, <1>2, <2>1, <2>3 DEF RefreshJob, Go, SlotStory
    <2>4. CASE GetDocument(w)
        <3>1. doc[j] = "pending"
            BY <1>2, <2>4 DEF GetDocument, SlotStory, JobStory, DocOf
        <3>. QED
            BY <1>1, <1>2, <2>1, <2>4, <3>1 DEF GetDocument, Go, SlotStory
    <2>5. CASE ReloadJob(w)
        <3>1. doc[j] = "pending"
            BY <1>2, <2>5 DEF ReloadJob, SlotStory, JobStory, DocOf
        <3>. QED
            BY <1>1, <1>2, <2>1, <2>5, <3>1 DEF ReloadJob, Go, SlotStory
    <2>. QED
        BY <2>2, <2>3, <2>4, <2>5
<1>. QED
    BY <1>1, <1>2, <1>3, <1>4, SlotMoves

\* Nor do the steps that clear and prepare: there are no rows to clear.
LEMMA WorkKeepsStory ==
    ASSUME Apart, StoryInv, NEW w \in Workers,
           \/ ClearChunks(w) \/ Upsert(w) \/ WorkFails(w) \/ Flush(w) \/ CommitRefused(w)
           \/ DeadlockDetected(w) \/ Rollback(w) \/ Retry(w) \/ Ack(w)
    PROVE  Story'
<1>. DEFINE j == task[w]
<1>1. /\ UNCHANGED <<upload, job, doc, chunkRows>> /\ TaskStep(w)
      /\ pc[w] \in {"clear", "work", "commit", "rollback", "retry", "ack"} /\ pc[w] # "idle"
    BY DEF ClearChunks, Upsert, WorkFails, Flush, CommitRefused, DeadlockDetected, Rollback,
           Retry, Ack, rows, TaskStep
<1>2. /\ j \in Jobs /\ JobStory(j) /\ SlotStory(w) /\ \A i \in Jobs : rowLock[i] = None
      /\ chunkRows[j] \in Nat
    BY <1>1, SlotKnows
<1>3. ~ (chunkRows[j] > 0) \/ pc[w] # "clear"
    BY <1>2 DEF JobStory, SlotStory
<1>4. \A i \in Jobs : rowLock'[i] = None
    BY <1>2, <1>3
    DEF ClearChunks, Upsert, WorkFails, Flush, CommitRefused, DeadlockDetected, Rollback, Retry,
        Ack, EndTransaction, locks, StoryInv, TypeOK
<1>5. ASSUME NEW i \in Jobs, i = j PROVE JobStory(i)'
    BY <1>1, <1>2, <1>4, <1>5, JobStands
<1>6. SlotStory(w)'
    <2>1. pc \in [Workers -> TaskStage]
        BY DEF StoryInv, TypeOK
    <2>2. CASE Ack(w)
        BY <1>1, <2>1, <2>2 DEF Ack, Go, SlotStory
    <2>3. CASE Rollback(w) \/ DeadlockDetected(w)
        BY <1>1, <1>2, <2>1, <2>3 DEF Rollback, DeadlockDetected, EndTransaction, SlotStory
    <2>5. CASE Flush(w)
        BY <1>1, <1>2, <2>5 DEF Flush, slots, SlotStory
    <2>4. CASE ClearChunks(w) \/ Upsert(w) \/ WorkFails(w) \/ CommitRefused(w) \/ Retry(w)
        <3>1. UNCHANGED <<task, seen>>
            BY <2>4 DEF ClearChunks, Upsert, WorkFails, CommitRefused, Retry
        <3>2. \/ pc[w] = "clear" /\ pc'[w] = "work"
              \/ pc[w] = "work" /\ pc'[w] \in {"commit", "rollback"}
              \/ pc[w] = "commit" /\ pc'[w] = "rollback"
              \/ pc[w] = "retry" /\ pc'[w] = "ack"
            BY <1>2, <2>1, <2>4 DEF ClearChunks, Upsert, WorkFails, CommitRefused, Retry, Go
        <3>. QED
            BY <1>1, <1>2, <3>1, <3>2 DEF SlotStory
    <2>. QED
        BY <2>2, <2>3, <2>4, <2>5
<1>. QED
    BY <1>1, <1>2, <1>4, <1>5, <1>6, SlotMoves

\* An attempt begins, and is counted.
LEMMA MarkKeepsStory ==
    ASSUME Apart, StoryInv, NEW w \in Workers, MarkProcessing(w)
    PROVE  /\ Story' /\ UNCHANGED <<doc, chunkRows>>
           /\ task[w] \in Jobs /\ job[task[w]].status = "pending"
           /\ job' = [job EXCEPT ![task[w]] = [status |-> "processing",
                                               attempts |-> job[task[w]].attempts + 1]]
<1>. DEFINE j == task[w]
<1>1. /\ pc[w] = "mark" /\ pc[w] # "idle" /\ TaskStep(w)
      /\ UNCHANGED <<upload, rowLock, doc, chunkRows, task, seen>>
    BY DEF MarkProcessing, locks, nodes, TaskStep
<1>2. /\ j \in Jobs /\ job[j].status = "pending" /\ JobStory(j) /\ SlotStory(w)
      /\ seen[w].attempts = job[j].attempts /\ job[j].attempts \in Nat
      /\ \A i \in Jobs : rowLock'[i] = None
    BY <1>1, SlotKnows DEF SlotStory
<1>3. job' = [job EXCEPT ![j] = [status |-> "processing", attempts |-> job[j].attempts + 1]]
    BY <1>2 DEF MarkProcessing
<1>4. job'[j].status = "processing" /\ pc'[w] = "refresh"
    BY <1>2, <1>3 DEF MarkProcessing, Go, StoryInv, TypeOK
<1>5. JobStory(j)'
    BY <1>1, <1>2, <1>4 DEF JobStory, DocOf
<1>6. SlotStory(w)'
    BY <1>1, <1>4 DEF SlotStory
<1>. QED
    BY <1>1, <1>2, <1>3, <1>5, <1>6, SlotMoves

\* The results are those of the one task that worked on the document.
LEMMA CommitKeepsStory ==
    ASSUME Apart, StoryInv, NEW w \in Workers, CommitResults(w)
    PROVE  /\ Story'
           /\ task[w] \in Jobs /\ doc[task[w]] = "pending" /\ job[task[w]].status = "processing"
           /\ doc' = [doc EXCEPT ![task[w]] = "ready"]
           /\ chunkRows' = [chunkRows EXCEPT ![task[w]] = 1]
           /\ job' = [job EXCEPT ![task[w]] = [status |-> "done",
                                               attempts |-> job[task[w]].attempts]]
<1>. DEFINE j == task[w]
<1>1. pc[w] = "commit" /\ pc[w] # "idle" /\ TaskStep(w) /\ UNCHANGED <<upload, task, seen>>
    BY DEF CommitResults, TaskStep
<1>2. /\ j \in Jobs /\ job[j].status = "processing" /\ doc[j] = "pending"
      /\ chunkRows[j] \in Nat /\ ~ (chunkRows[j] > 0) /\ JobStory(j)
      /\ seen[w].status = "processing" /\ seen[w].doc = "pending"
      /\ \A i \in Jobs : rowLock[i] = None
    BY <1>1, SlotKnows DEF SlotStory, JobStory, DocOf
<1>3. job' = [job EXCEPT ![j] = [status |-> "done", attempts |-> job[j].attempts]]
    <2>1. job' = [job EXCEPT ![j] = [job[j] EXCEPT !.status = "done"]]
        BY <1>2 DEF CommitResults, StoryInv, TypeOK
    <2>2. job[j] \in [status : JobStatus, attempts : Nat]
        BY <1>2 DEF StoryInv, TypeOK
    <2>3. [job[j] EXCEPT !.status = "done"] = [status |-> "done", attempts |-> job[j].attempts]
        BY <2>2
    <2>. QED
        BY <2>1, <2>3
<1>4. doc' = [doc EXCEPT ![j] = "ready"]
    BY <1>2 DEF CommitResults
<1>5. chunkRows' = [chunkRows EXCEPT ![j] = 1]
    <2>1. (IF rowLock[j] = w THEN 0 ELSE chunkRows[j]) + 1 = 1
        BY <1>2
    <2>2. chunkRows' = [chunkRows EXCEPT ![j] = (IF rowLock[j] = w THEN 0 ELSE chunkRows[j]) + 1]
        BY DEF CommitResults
    <2>. QED
        BY <2>1, <2>2, Zenon
<1>6. \A i \in Jobs : rowLock'[i] = None
    BY <1>2 DEF CommitResults, EndTransaction
<1>7. JobStory(j)'
    <2>1. job'[j].status = "done" /\ doc'[j] = "ready" /\ chunkRows'[j] = 1
        BY <1>2, <1>3, <1>4, <1>5 DEF StoryInv, TypeOK
    <2>. QED
        BY <1>1, <1>2, <1>6, <2>1 DEF JobStory, DocOf
<1>8. SlotStory(w)'
    <2>1. pc'[w] = "ack"
        BY DEF CommitResults, EndTransaction
    <2>. QED
        BY <1>1, <2>1 DEF SlotStory
<1>. QED
    BY <1>1, <1>2, <1>3, <1>4, <1>5, <1>6, <1>7, <1>8, SlotMoves

\* A failure decides on the job that failed: failed, once its attempts are used up.
LEMMA FailureKeepsStory ==
    ASSUME Apart, StoryInv, NEW w \in Workers, HandleFailure(w)
    PROVE  /\ Story' /\ UNCHANGED chunkRows
           /\ task[w] \in Jobs /\ doc[task[w]] = "pending" /\ job[task[w]].status = "processing"
           /\ \/ /\ doc' = [doc EXCEPT ![task[w]] = "failed"]
                 /\ job' = [job EXCEPT ![task[w]] = [status |-> "failed",
                                                     attempts |-> job[task[w]].attempts]]
              \/ /\ doc' = doc /\ job[task[w]].attempts < MaxAttempts
                 /\ job' = [job EXCEPT ![task[w]] = [status |-> "pending",
                                                     attempts |-> job[task[w]].attempts]]
<1>. DEFINE j == task[w]
            exhausted == seen[w].attempts >= MaxAttempts
            outcome == IF exhausted THEN "failed" ELSE "pending"
<1>1. /\ pc[w] = "handle" /\ pc[w] # "idle" /\ TaskStep(w)
      /\ UNCHANGED <<upload, rowLock, chunkRows, task, seen>>
    BY DEF HandleFailure, locks, TaskStep
<1>2. /\ j \in Jobs /\ job[j].status = "processing" /\ doc[j] = "pending"
      /\ ~ (chunkRows[j] > 0) /\ job[j].attempts \in Nat /\ JobStory(j)
      /\ seen[w].status = "processing" /\ seen[w].doc = "pending"
      /\ seen[w].attempts = job[j].attempts /\ \A i \in Jobs : rowLock'[i] = None
    BY <1>1, SlotKnows DEF SlotStory, JobStory, DocOf
<1>3. job' = [job EXCEPT ![j] = [status |-> outcome, attempts |-> job[j].attempts]]
    <2>1. seen[w].status # outcome
        BY <1>2
    <2>2. job' = [job EXCEPT ![j] = [job[j] EXCEPT !.status = outcome]]
        BY <1>2, <2>1 DEF HandleFailure, StoryInv, TypeOK
    <2>3. job[j] \in [status : JobStatus, attempts : Nat]
        BY <1>2 DEF StoryInv, TypeOK
    <2>4. [job[j] EXCEPT !.status = outcome] = [status |-> outcome, attempts |-> job[j].attempts]
        BY <2>3
    <2>. QED
        BY <2>2, <2>4
<1>4. doc' = [doc EXCEPT ![j] = IF exhausted THEN "failed" ELSE doc[j]]
    BY <1>2 DEF HandleFailure
<1>5. exhausted => doc' = [doc EXCEPT ![j] = "failed"]
    BY <1>4
<1>6. ~exhausted => doc' = doc /\ job[j].attempts < MaxAttempts
    BY <1>2, <1>4, ConstantsAssumption DEF StoryInv, TypeOK
<1>7. pc'[w] \in {"ack", "retry"}
    BY DEF HandleFailure, Go, StoryInv, TypeOK
<1>8. JobStory(j)'
    <2>1. /\ job'[j].status = outcome /\ doc'[j] = outcome
          /\ outcome \in {"failed", "pending"}
        BY <1>2, <1>3, <1>5, <1>6 DEF StoryInv, TypeOK
    <2>. HIDE DEF outcome
    <2>. QED
        BY <1>1, <1>2, <2>1 DEF JobStory, DocOf
<1>9. SlotStory(w)'
    BY <1>1, <1>7 DEF SlotStory
<1>10. Story'
    BY <1>1, <1>2, <1>8, <1>9, SlotMoves
<1>. QED
    BY <1>1, <1>2, <1>3, <1>5, <1>6, <1>10

\* Any step of a task.
LEMMA TaskKeepsStory ==
    ASSUME Apart, StoryInv, NEW w \in Workers, TaskStep(w)
    PROVE  Story'
    BY ReadsKeepStory, WorkKeepsStory, MarkKeepsStory, CommitKeepsStory, FailureKeepsStory
    DEF TaskStep

-----------------------------------------------------------------------------
(* Everything else *)

\* A step that leaves the rows alone.
LEMMA RowsStand ==
    ASSUME StoryInv, UNCHANGED <<upload, job, doc, chunkRows>>,
           \A j \in Jobs : rowLock'[j] = None,
           \A w \in Workers : SlotStory(w)', \A n \in Nodes : NodeStory(n)'
    PROVE  Story'
    BY JobStands DEF StoryInv, Story

\* Messages come, are repeated or come back with a slot that dies.
LEMMA SlotKeepsStory ==
    ASSUME StoryInv, NEW w \in Workers,
           (\E j \in Jobs : Deliver(w, j)) \/ SlotCrash(w) \/ Redeliver(w) \/ TaskEscapes(w)
    PROVE  Story'
<1>1. UNCHANGED <<upload, job, doc, chunkRows, node, reclaim>>
    BY DEF Deliver, SlotCrash, Redeliver, TaskEscapes, rows, nodes
<1>2. \A j \in Jobs : rowLock'[j] = None
    BY DEF Deliver, SlotCrash, Redeliver, TaskEscapes, Kill, EndTransaction, locks, StoryInv,
           Story, JobStory, TypeOK
<1>3. /\ pc \in [Workers -> TaskStage] /\ DOMAIN task = Workers /\ DOMAIN seen = Workers
      /\ \A v \in Workers : SlotStory(v) /\ pc[v] # "blocked"
    BY DEF StoryInv, TypeOK, Story, SlotStory
<1>4. \/ pc'[w] \in {"load", "idle", "ack"}
      \/ pc'[w] = pc[w] /\ task'[w] = task[w] /\ seen'[w] = seen[w]
    BY <1>3 DEF Deliver, SlotCrash, Redeliver, TaskEscapes, Go, Kill, EndTransaction, slots
<1>5. \A v \in Workers \ {w} : pc'[v] = pc[v] /\ task'[v] = task[v] /\ seen'[v] = seen[v]
    BY <1>3 DEF Deliver, SlotCrash, Redeliver, TaskEscapes, Go, Kill, EndTransaction, Waiters, slots
<1>6. \A v \in Workers : SlotStory(v)'
    <2>1. CASE pc'[w] \in {"load", "idle", "ack"}
        <3>1. SlotStory(w)'
            BY <2>1 DEF SlotStory
        <3>. QED
            BY <1>1, <1>3, <1>5, <3>1, SlotStands
    <2>2. CASE pc'[w] = pc[w] /\ task'[w] = task[w] /\ seen'[w] = seen[w]
        BY <1>1, <1>3, <1>5, <2>2, SlotStands
    <2>. QED
        BY <1>4, <2>1, <2>2
<1>7. \A n \in Nodes : NodeStory(n)'
    BY <1>1 DEF StoryInv, Story, NodeStory, Open
<1>. QED
    BY <1>1, <1>2, <1>6, <1>7, RowsStand

\* The upload handler writes the first rows of its job.
LEMMA UploadKeepsStory ==
    ASSUME StoryInv, NEW j \in Jobs, UploadStep(j) \/ UploadDies(j) \/ Lose(j)
    PROVE  Story'
<1>1. UNCHANGED <<chunkRows, rowLock, node, reclaim, pc, task, seen>>
    BY DEF UploadStep, RejectUpload, SaveFile, InsertRows, Dispatch, UploadDies, Lose, rows, locks,
           nodes, slots
<1>2. /\ upload \in [Jobs -> UploadStage] /\ doc \in [Jobs -> DocStatus]
      /\ job \in [Jobs -> [status : JobStatus, attempts : Nat]]
      /\ \A i \in Jobs : JobStory(i) /\ rowLock[i] = None
    BY DEF StoryInv, TypeOK, Story, JobStory
<1>3. CASE InsertRows(j)
    <2>1. /\ upload[j] = "saved" /\ upload' = [upload EXCEPT ![j] = "inserted"]
          /\ job' = [job EXCEPT ![j] = [status |-> "pending", attempts |-> 0]]
          /\ doc' = [doc EXCEPT ![j] = "pending"]
        BY <1>3 DEF InsertRows
    <2>2. job[j].status = "absent" /\ ~ (chunkRows[j] > 0)
        BY <1>2, <2>1 DEF JobStory
    <2>3. JobStory(j)'
        BY <1>1, <1>2, <2>1, <2>2 DEF JobStory, DocOf
    <2>4. ASSUME NEW i \in Jobs, i # j PROVE JobStory(i)' /\ job'[i] = job[i]
        BY <1>1, <1>2, <2>1, <2>4 DEF JobStory
    <2>5. \A w \in Workers : SlotStory(w)'
        <3>. SUFFICES ASSUME NEW w \in Workers PROVE SlotStory(w)'
            OBVIOUS
        <3>1. SlotStory(w)
            BY DEF StoryInv, Story
        <3>2. CASE task[w] = j
            BY <1>1, <2>2, <3>1, <3>2 DEF SlotStory
        <3>3. CASE task[w] # j /\ pc[w] # "idle"
            <4>1. job'[task[w]] = job[task[w]]
                BY <2>4, <3>3 DEF StoryInv, TypeOK
            <4>. QED
                BY <1>1, <3>1, <4>1, SlotStands
        <3>4. CASE pc[w] = "idle"
            BY <1>1, <3>4 DEF SlotStory
        <3>. QED
            BY <3>2, <3>3, <3>4
    <2>6. \A n \in Nodes : NodeStory(n)'
        BY <1>1, <2>2, <2>4 DEF StoryInv, Story, NodeStory, Open, TypeOK
    <2>. QED
        BY <2>3, <2>4, <2>5, <2>6 DEF Story
<1>4. CASE RejectUpload(j) \/ SaveFile(j) \/ Dispatch(j) \/ UploadDies(j) \/ Lose(j)
    <2>1. UNCHANGED <<job, doc>>
        BY <1>4 DEF RejectUpload, SaveFile, Dispatch, UploadDies, Lose, rows
    <2>2. \A i \in Jobs : upload'[i] \in {"new", "saved"} => upload[i] \in {"new", "saved"}
        BY <1>2, <1>4 DEF RejectUpload, SaveFile, Dispatch, UploadDies, Lose
    <2>3. \A i \in Jobs : JobStory(i)'
        BY <1>1, <1>2, <2>1, <2>2 DEF JobStory
    <2>4. (\A w \in Workers : SlotStory(w)') /\ (\A n \in Nodes : NodeStory(n)')
        BY <1>1, <2>1 DEF StoryInv, Story, SlotStory, NodeStory, Open
    <2>. QED
        BY <2>3, <2>4 DEF Story
<1>. QED
    BY <1>3, <1>4 DEF UploadStep

\* The pass resets jobs that no task has, and that nobody settled since it chose them.
LEMMA NodeKeepsStory ==
    ASSUME Apart, StoryInv, NEW n \in Nodes, Boot(n) \/ ReclaimStep(n) \/ ReclaimStops(n)
    PROVE  Story'
<1>1. UNCHANGED <<upload, doc, chunkRows, rowLock, pc, task, seen>>
    BY DEF Boot, ReclaimStep, ReclaimSelect, ReclaimReset, ReclaimDispatch, ReclaimStops, rows,
           locks, slots
<1>2. /\ job \in [Jobs -> [status : JobStatus, attempts : Nat]]
      /\ node \in [Nodes -> NodeStage] /\ reclaim \in [Nodes -> SUBSET Jobs]
      /\ \A j \in Jobs : JobStory(j) /\ rowLock[j] = None
      /\ \A w \in Workers : SlotStory(w) /\ task[w] \in Jobs \cup {None}
                            /\ (pc[w] = "idle" <=> task[w] = None)
      /\ \A m \in Nodes : NodeStory(m)
    BY DEF StoryInv, TypeOK, Story, JobStory
<1>3. CASE ReclaimReset(n)
    <2>1. /\ job' = [j \in Jobs |-> IF j \in reclaim[n] THEN [job[j] EXCEPT !.status = "pending"]
                                    ELSE job[j]]
          /\ node[n] = "update" /\ node' = [node EXCEPT ![n] = "dispatch"] /\ UNCHANGED reclaim
        BY <1>3 DEF ReclaimReset
    <2>2. ASSUME NEW j \in Jobs, j \in reclaim[n]
          PROVE  Open(j) /\ job'[j].status = "pending" /\ job'[j].attempts = job[j].attempts
        BY <1>2, <2>1, <2>2 DEF NodeStory
    <2>3. ASSUME NEW j \in Jobs, j \notin reclaim[n] PROVE job'[j] = job[j]
        BY <2>1, <2>3
    <2>4. ASSUME NEW j \in Jobs PROVE JobStory(j)'
        <3>1. CASE j \notin reclaim[n]
            BY <1>1, <1>2, <2>3, <3>1, JobStands
        <3>2. CASE j \in reclaim[n]
            BY <1>1, <1>2, <2>2, <3>2 DEF JobStory, DocOf, Open
        <3>. QED
            BY <3>1, <3>2
    <2>5. ASSUME NEW w \in Workers PROVE SlotStory(w)'
        <3>1. CASE pc[w] = "idle"
            BY <1>1, <3>1 DEF SlotStory
        <3>2. CASE pc[w] # "idle"
            <4>1. job'[task[w]] = job[task[w]]
                BY <1>2, <2>1, <2>3, <3>2 DEF Apart
            <4>. QED
                BY <1>1, <1>2, <4>1, SlotStands
        <3>. QED
            BY <3>1, <3>2
    <2>6. ASSUME NEW m \in Nodes PROVE NodeStory(m)'
        BY <1>2, <2>1, <2>2, <2>3 DEF NodeStory, Open
    <2>. QED
        BY <2>4, <2>5, <2>6 DEF Story
<1>4. CASE Boot(n) \/ ReclaimSelect(n) \/ (\E j \in Jobs : ReclaimDispatch(n, j)) \/ ReclaimStops(n)
    <2>1. UNCHANGED job
        BY <1>4 DEF Boot, ReclaimSelect, ReclaimDispatch, ReclaimStops, rows
    <2>2. \A w \in Workers : SlotStory(w)'
        BY <1>1, <1>2, <2>1, SlotStands
    <2>3. \A m \in Nodes : NodeStory(m)'
        BY <1>2, <1>4, <2>1
        DEF Boot, ReclaimSelect, ReclaimDispatch, ReclaimStops, NodeStory, Stuck, Open
    <2>. QED
        BY <1>1, <1>2, <2>1, <2>2, <2>3, RowsStand
<1>. QED
    BY <1>3, <1>4 DEF ReclaimStep

\* The crash of a node stops its slots.
LEMMA CrashKeepsStory ==
    ASSUME StoryInv, NEW n \in Nodes, NodeCrash(n)
    PROVE  Story'
<1>. DEFINE S == {w \in Workers : NodeOf[w] = n}
<1>1. /\ UNCHANGED <<upload, job, doc, chunkRows, reclaim>>
      /\ Kill(S) /\ node' = [node EXCEPT ![n] = "down"]
    BY DEF NodeCrash, rows
<1>2. ASSUME NEW w \in Workers PROVE SlotStory(w)'
    <2>1. SlotStory(w) /\ pc[w] # "blocked"
        BY DEF StoryInv, Story, SlotStory
    <2>2. CASE w \in S
        <3>1. pc'[w] = "idle"
            BY <1>1, <2>2 DEF Kill
        <3>. QED
            BY <3>1 DEF SlotStory
    <2>3. CASE w \notin S
        <3>1. pc'[w] = pc[w] /\ task'[w] = task[w] /\ seen'[w] = seen[w]
            BY <1>1, <2>1, <2>3 DEF Kill, Waiters
        <3>. QED
            BY <1>1, <2>1, <3>1, SlotStands
    <2>. QED
        BY <2>2, <2>3
<1>3. \A j \in Jobs : rowLock'[j] = None
    BY <1>1 DEF Kill, StoryInv, Story, JobStory
<1>4. \A m \in Nodes : NodeStory(m)'
    BY <1>1 DEF NodeStory, Open, StoryInv, Story, TypeOK
<1>. QED
    BY <1>1, <1>2, <1>3, <1>4, RowsStand

\* The invariant is inductive as long as deliveries do not overlap.
LEMMA StoryStep == Apart /\ StoryInv /\ [Next]_vars => StoryInv'
<1>. SUFFICES ASSUME Apart, StoryInv, [Next]_vars
              PROVE  Story'
    BY TypeStep DEF StoryInv
<1>1. CASE UNCHANGED vars
    BY <1>1 DEF vars, rows, locks, nodes, slots, StoryInv, Story, JobStory, SlotStory, NodeStory, Open
<1>2. CASE Next
    BY <1>1, <1>2, UploadKeepsStory, NodeKeepsStory, TaskKeepsStory, SlotKeepsStory, CrashKeepsStory
    DEF Next, FaultStep, Quiet
<1>. QED
    BY <1>1, <1>2

\* The steps that write the rows of a job: what they find there and what they leave.
LEMMA StepShows ==
    ASSUME Apart, StoryInv, [Next]_vars
    PROVE  \/ UNCHANGED <<job, doc, chunkRows>>
           \/ \E j \in Jobs :
                  /\ job[j].status = "absent" /\ job[j].attempts = 0 /\ doc[j] = "absent"
                  /\ job' = [job EXCEPT ![j] = [status |-> "pending", attempts |-> 0]]
                  /\ doc' = [doc EXCEPT ![j] = "pending"] /\ UNCHANGED chunkRows
           \/ /\ \E n \in Nodes : ReclaimReset(n)
              /\ \A j \in Jobs : \/ job'[j] = job[j]
                                 \/ /\ Open(j) /\ job'[j].status = "pending"
                                    /\ job'[j].attempts = job[j].attempts
              /\ UNCHANGED <<doc, chunkRows>>
           \/ \E j \in Jobs, w \in Workers :
                  /\ MarkProcessing(w) /\ job[j].status = "pending"
                  /\ job' = [job EXCEPT ![j] = [status |-> "processing",
                                                attempts |-> job[j].attempts + 1]]
                  /\ UNCHANGED <<doc, chunkRows>>
           \/ \E j \in Jobs :
                  /\ job[j].status = "processing" /\ doc[j] = "pending"
                  /\ \/ /\ job' = [job EXCEPT ![j] = [status |-> "done",
                                                      attempts |-> job[j].attempts]]
                        /\ doc' = [doc EXCEPT ![j] = "ready"]
                        /\ chunkRows' = [chunkRows EXCEPT ![j] = 1]
                     \/ /\ job' = [job EXCEPT ![j] = [status |-> "failed",
                                                      attempts |-> job[j].attempts]]
                        /\ doc' = [doc EXCEPT ![j] = "failed"] /\ UNCHANGED chunkRows
                     \/ /\ job' = [job EXCEPT ![j] = [status |-> "pending",
                                                      attempts |-> job[j].attempts]]
                        /\ job[j].attempts < MaxAttempts /\ UNCHANGED <<doc, chunkRows>>
<1>1. /\ job \in [Jobs -> [status : JobStatus, attempts : Nat]]
      /\ \A j \in Jobs : JobStory(j)
      /\ \A n \in Nodes : NodeStory(n)
    BY DEF StoryInv, TypeOK, Story
<1>2. CASE \E j \in Jobs : InsertRows(j)
    <2>. PICK j \in Jobs : InsertRows(j)
        BY <1>2
    <2>1. job[j].status = "absent" /\ job[j].attempts = 0 /\ doc[j] = "absent"
        BY <1>1 DEF InsertRows, JobStory, DocOf
    <2>. QED
        BY <2>1 DEF InsertRows
<1>3. CASE \E n \in Nodes : ReclaimReset(n)
    <2>. PICK n \in Nodes : ReclaimReset(n)
        BY <1>3
    <2>1. ASSUME NEW j \in Jobs
          PROVE  \/ job'[j] = job[j]
                 \/ Open(j) /\ job'[j].status = "pending" /\ job'[j].attempts = job[j].attempts
        BY <1>1 DEF ReclaimReset, NodeStory
    <2>. QED
        BY <2>1 DEF ReclaimReset
<1>4. CASE \E w \in Workers : MarkProcessing(w)
    BY <1>4, MarkKeepsStory
<1>5. CASE \E w \in Workers : CommitResults(w)
    BY <1>5, CommitKeepsStory
<1>6. CASE \E w \in Workers : HandleFailure(w)
    BY <1>6, FailureKeepsStory
<1>7. CASE ~ \/ \E j \in Jobs : InsertRows(j)
             \/ \E n \in Nodes : ReclaimReset(n)
             \/ \E w \in Workers : MarkProcessing(w) \/ CommitResults(w) \/ HandleFailure(w)
    <2>1. CASE \E j \in Jobs : UploadStep(j) \/ UploadDies(j) \/ Lose(j)
        BY <1>7, <2>1 DEF UploadStep, RejectUpload, SaveFile, Dispatch, UploadDies, Lose, rows
    <2>2. CASE \E n \in Nodes : Boot(n) \/ ReclaimStep(n) \/ ReclaimStops(n) \/ NodeCrash(n)
        BY <1>7, <2>2
        DEF ReclaimStep, Boot, ReclaimSelect, ReclaimDispatch, ReclaimStops, NodeCrash, rows
    <2>3. CASE \E w \in Workers : TaskStep(w)
        BY <1>7, <2>3
        DEF TaskStep, LoadJob, RefreshJob, GetDocument, ReloadJob, ClearChunks, Upsert, WorkFails,
            Flush, CommitRefused, DeadlockDetected, Rollback, Retry, Ack, rows
    <2>4. CASE \E w \in Workers : \/ \E j \in Jobs : Deliver(w, j)
                                  \/ SlotCrash(w) \/ Redeliver(w) \/ TaskEscapes(w)
        BY <2>4 DEF Deliver, SlotCrash, Redeliver, TaskEscapes, rows
    <2>5. CASE UNCHANGED vars
        BY <2>5 DEF vars, rows
    <2>. QED
        BY <2>1, <2>2, <2>3, <2>4, <2>5 DEF Next, FaultStep, Quiet
<1>. QED
    BY <1>2, <1>3, <1>4, <1>5, <1>6, <1>7

-----------------------------------------------------------------------------
(* Deliveries that do not overlap *)

\* As long as deliveries of one document do not overlap, whatever crashes, is lost or is
\* delivered again: what a task has read of its job is what is there.
THEOREM ApartCorrect == Spec /\ []Apart => []StoryInv
<1>1. Init => StoryInv
    BY InitType, InitStory DEF StoryInv
<1>. QED
    BY <1>1, StoryStep, PTL DEF Spec

\* The job, its document and the chunk rows tell the same story at every commit.
THEOREM AgreeCorrect == Spec /\ []Apart => []StatusesAgree
<1>1. StoryInv => StatusesAgree
    BY DEF StoryInv, Story, JobStory, DocOf, StatusesAgree, TypeOK, JobStatus
<1>. QED
    BY <1>1, ApartCorrect, PTL

\* No attempt is forgotten: the count a task writes is the one it found, and one more.
THEOREM RewoundCorrect == Spec /\ []Apart => AttemptsNeverRewound
<1>1. Apart /\ StoryInv /\ [Next]_vars
          => [\A j \in Jobs : job'[j].attempts >= job[j].attempts]_vars
    <2>. SUFFICES ASSUME Apart, StoryInv, [Next]_vars
                  PROVE  \A j \in Jobs : job'[j].attempts >= job[j].attempts
        OBVIOUS
    <2>1. job \in [Jobs -> [status : JobStatus, attempts : Nat]]
        BY DEF StoryInv, TypeOK
    <2>. QED
        BY <2>1, StepShows
<1>. QED
    BY <1>1, ApartCorrect, PTL DEF Spec, AttemptsNeverRewound

\* A job that is done or failed stays so: what reopens one is a delivery that overlaps
\* another, or a reclaim pass that chose the job of a task under way.
THEOREM SettledCorrect == Spec /\ []Apart => SettledIsFinal
<1>1. Apart /\ StoryInv /\ [Next]_vars
          => [\A j \in Jobs : Settled(job[j].status) => job'[j].status = job[j].status]_vars
    <2>. SUFFICES ASSUME Apart, StoryInv, [Next]_vars, NEW j \in Jobs, Settled(job[j].status)
                  PROVE  job'[j].status = job[j].status
        OBVIOUS
    <2>1. job \in [Jobs -> [status : JobStatus, attempts : Nat]]
        BY DEF StoryInv, TypeOK
    <2>. QED
        BY <2>1, StepShows DEF Settled, Open
<1>. QED
    BY <1>1, ApartCorrect, PTL DEF Spec, SettledIsFinal

\* Users see the life of a document that DocumentLifecycle promises.
THEOREM LifecycleCorrect == Spec /\ []Apart => ImplementsLifecycle
<1>. DEFINE citable == [j \in Jobs |-> chunkRows[j] > 0]
<1>1. Init => Lifecycle!Init
    <2>. SUFFICES ASSUME Init PROVE Lifecycle!Init
        OBVIOUS
    <2>1. ASSUME NEW j \in Jobs PROVE (chunkRows[j] > 0) = FALSE
        BY DEF Init
    <2>2. citable = [j \in Jobs |-> FALSE]
        BY <2>1, Zenon
    <2>. QED
        BY <2>2 DEF Init, Lifecycle!Init
<1>2. Apart /\ StoryInv /\ [Next]_vars => [Lifecycle!Next]_(Lifecycle!vars)
    <2>. SUFFICES ASSUME Apart, StoryInv, [Next]_vars
                  PROVE  [Lifecycle!Next]_(Lifecycle!vars)
        OBVIOUS
    <2>1. doc \in [Jobs -> DocStatus] /\ chunkRows \in [Jobs -> Nat]
        BY DEF StoryInv, TypeOK
    <2>2. UNCHANGED chunkRows => UNCHANGED citable
        OBVIOUS
    <2>3. ASSUME NEW j \in Jobs, chunkRows' = [chunkRows EXCEPT ![j] = 1]
          PROVE  citable' = [citable EXCEPT ![j] = TRUE]
        <3>1. \A i \in Jobs : chunkRows'[i] = IF i = j THEN 1 ELSE chunkRows[i]
            BY <2>1, <2>3
        <3>2. chunkRows'[j] > 0 /\ \A i \in Jobs \ {j} : chunkRows'[i] = chunkRows[i]
            BY <3>1
        <3>3. ASSUME NEW i \in Jobs
              PROVE  (chunkRows'[i] > 0) = (IF i = j THEN TRUE ELSE chunkRows[i] > 0)
            BY <3>2
        <3>. QED
            BY <3>3, Zenon
    <2>4. CASE UNCHANGED <<doc, chunkRows>>
        BY <2>2, <2>4 DEF Lifecycle!vars
    <2>5. CASE \E j \in Jobs : /\ doc[j] = "absent" /\ doc' = [doc EXCEPT ![j] = "pending"]
                               /\ UNCHANGED chunkRows
        BY <2>2, <2>5 DEF Lifecycle!Next, Lifecycle!Accept
    <2>6. CASE \E j \in Jobs : /\ doc[j] = "pending" /\ doc' = [doc EXCEPT ![j] = "failed"]
                               /\ UNCHANGED chunkRows
        BY <2>2, <2>6 DEF Lifecycle!Next, Lifecycle!GiveUp
    <2>7. CASE \E j \in Jobs : /\ doc[j] = "pending" /\ doc' = [doc EXCEPT ![j] = "ready"]
                               /\ chunkRows' = [chunkRows EXCEPT ![j] = 1]
        BY <2>3, <2>7 DEF Lifecycle!Next, Lifecycle!Succeed
    <2>. QED
        BY <2>4, <2>5, <2>6, <2>7, StepShows
<1>. QED
    BY <1>1, <1>2, ApartCorrect, PTL DEF Spec, ImplementsLifecycle, Lifecycle!Spec

-----------------------------------------------------------------------------
(* Nodes and their slots *)

\* A slot works only while its node is up.
SlotsUp == \A w \in Workers : pc[w] # "idle" => node[NodeOf[w]] = "ready"

\* The slots of a node work only while it is up.
LEMMA UpStep ==
    ASSUME TypeOK, SlotsUp, [Next]_vars
    PROVE  SlotsUp'
<1>1. NodeOf \in [Workers -> Nodes] /\ pc \in [Workers -> TaskStage] /\ node \in [Nodes -> NodeStage]
    BY ConstantsAssumption DEF TypeOK
<1>2. CASE \E j \in Jobs : UploadStep(j) \/ UploadDies(j) \/ Lose(j)
    BY <1>2 DEF UploadStep, RejectUpload, SaveFile, InsertRows, Dispatch, UploadDies, Lose, nodes,
                slots, SlotsUp
<1>3. CASE \E n \in Nodes : Boot(n) \/ ReclaimStep(n) \/ ReclaimStops(n)
    <2>. PICK n \in Nodes : Boot(n) \/ ReclaimStep(n) \/ ReclaimStops(n)
        BY <1>3
    <2>1. /\ node[n] # "ready" /\ UNCHANGED pc
          /\ \A m \in Nodes \ {n} : node'[m] = node[m]
        BY <1>1 DEF Boot, ReclaimStep, ReclaimSelect, ReclaimReset, ReclaimDispatch, ReclaimStops, slots
    <2>. QED
        BY <1>1, <2>1 DEF SlotsUp
<1>4. CASE \E n \in Nodes : NodeCrash(n)
    <2>. PICK n \in Nodes : NodeCrash(n)
        BY <1>4
    <2>1. /\ \A m \in Nodes \ {n} : node'[m] = node[m]
          /\ \A w \in Workers : NodeOf[w] = n => pc'[w] = "idle"
          /\ \A w \in Workers : pc[w] = "idle" => pc'[w] = "idle"
        BY <1>1 DEF NodeCrash, Kill, Waiters
    <2>. QED
        BY <1>1, <2>1 DEF SlotsUp
<1>5. CASE \E w \in Workers : \/ TaskStep(w) \/ (\E j \in Jobs : Deliver(w, j))
                              \/ SlotCrash(w) \/ Redeliver(w) \/ TaskEscapes(w)
    <2>. PICK w \in Workers : \/ TaskStep(w) \/ (\E j \in Jobs : Deliver(w, j))
                              \/ SlotCrash(w) \/ Redeliver(w) \/ TaskEscapes(w)
        BY <1>5
    <2>1. UNCHANGED node /\ node[NodeOf[w]] = "ready"
        <3>1. pc[w] # "idle" => node[NodeOf[w]] = "ready"
            BY DEF SlotsUp
        <3>2. UNCHANGED node
            BY DEF TaskStep, LoadJob, MarkProcessing, RefreshJob, GetDocument, ClearChunks, Upsert,
                   WorkFails, Flush, CommitResults, CommitRefused, DeadlockDetected, Rollback,
                   ReloadJob, HandleFailure, Retry, Ack, Deliver, SlotCrash, Redeliver,
                   TaskEscapes, nodes
        <3>3. pc[w] # "idle" \/ node[NodeOf[w]] = "ready"
            BY DEF TaskStep, LoadJob, MarkProcessing, RefreshJob, GetDocument, ClearChunks, Upsert,
                   WorkFails, Flush, CommitResults, CommitRefused, DeadlockDetected, Rollback,
                   ReloadJob, HandleFailure, Retry, Ack, Deliver, SlotCrash, Redeliver, TaskEscapes
        <3>. QED
            BY <3>1, <3>2, <3>3
    <2>2. \/ \A x \in Workers \ {w} : pc'[x] = pc[x]
          \/ \E next, wake \in TaskStage : EndTransaction(w, next, wake)
          \/ Kill({w})
        <3>1. CASE \/ CommitResults(w) \/ DeadlockDetected(w) \/ Rollback(w) \/ TaskEscapes(w)
            BY <3>1 DEF CommitResults, DeadlockDetected, Rollback, TaskEscapes, TaskStage
        <3>2. CASE SlotCrash(w)
            BY <3>2 DEF SlotCrash
        <3>3. CASE ~ \/ CommitResults(w) \/ DeadlockDetected(w) \/ Rollback(w)
                     \/ TaskEscapes(w) \/ SlotCrash(w)
            BY <1>1, <3>3
            DEF TaskStep, LoadJob, MarkProcessing, RefreshJob, GetDocument, ClearChunks, Upsert,
                WorkFails, Flush, CommitRefused, ReloadJob, HandleFailure, Retry, Ack, Deliver,
                Redeliver, Go, slots
        <3>. QED
            BY <3>1, <3>2, <3>3
    <2>3. \A x \in Workers \ {w} : pc'[x] # "idle" => pc[x] # "idle"
        BY <2>2 DEF EndTransaction, Kill, Waiters
    <2>. QED
        BY <1>1, <2>1, <2>3 DEF SlotsUp
<1>6. CASE UNCHANGED vars
    BY <1>6 DEF vars, slots, nodes, SlotsUp
<1>. QED
    BY <1>2, <1>3, <1>4, <1>5, <1>6 DEF Next, FaultStep, Quiet

\* A fault is counted, or none is.
LEMMA FaultsStep ==
    ASSUME [Next]_vars
    PROVE  \/ faults' = faults
           \/ \E kind \in FaultKinds : faults' = [faults EXCEPT ![kind] = @ + 1]
<1>1. CASE \E j \in Jobs : UploadStep(j) \/ UploadDies(j) \/ Lose(j)
    BY <1>1, Kinds DEF UploadStep, RejectUpload, SaveFile, InsertRows, Dispatch, UploadDies, Lose,
                       Fault
<1>2. CASE \E n \in Nodes : Boot(n) \/ ReclaimStep(n) \/ ReclaimStops(n) \/ NodeCrash(n)
    BY <1>2, Kinds DEF Boot, ReclaimStep, ReclaimSelect, ReclaimReset, ReclaimDispatch,
                       ReclaimStops, NodeCrash, Fault
<1>3. CASE \E w \in Workers : TaskStep(w)
    BY <1>3 DEF TaskStep, LoadJob, MarkProcessing, RefreshJob, GetDocument, ClearChunks, Upsert,
                WorkFails, Flush, CommitResults, CommitRefused, DeadlockDetected, Rollback,
                ReloadJob, HandleFailure, Retry, Ack
<1>4. CASE \E w \in Workers : \/ \E j \in Jobs : Deliver(w, j)
                              \/ SlotCrash(w) \/ Redeliver(w) \/ TaskEscapes(w)
    BY <1>4, Kinds DEF Deliver, SlotCrash, Redeliver, TaskEscapes, Fault
<1>. QED
    BY <1>1, <1>2, <1>3, <1>4 DEF Next, FaultStep, Quiet, vars

\* What a step does to the nodes.
LEMMA NodeMoves ==
    ASSUME [Next]_vars
    PROVE  \/ node' = node
           \/ \E n \in Nodes : \/ Boot(n) \/ ReclaimStep(n)
                              \/ ReclaimStops(n) \/ NodeCrash(n)
<1>1. CASE \E j \in Jobs : UploadStep(j) \/ UploadDies(j) \/ Lose(j)
    BY <1>1 DEF UploadStep, RejectUpload, SaveFile, InsertRows, Dispatch, UploadDies, Lose, nodes
<1>2. CASE \E w \in Workers : \/ TaskStep(w) \/ (\E j \in Jobs : Deliver(w, j))
                              \/ SlotCrash(w) \/ Redeliver(w) \/ TaskEscapes(w)
    BY <1>2 DEF TaskStep, LoadJob, MarkProcessing, RefreshJob, GetDocument, ClearChunks, Upsert,
           WorkFails, Flush, CommitResults, CommitRefused, DeadlockDetected, Rollback, ReloadJob,
           HandleFailure, Retry, Ack, Deliver, SlotCrash, Redeliver, TaskEscapes, nodes
<1>. QED
    BY <1>1, <1>2 DEF Next, FaultStep, Quiet, vars, nodes

-----------------------------------------------------------------------------
(* Several nodes *)

\* Nodes that have been through the reset of their reclaim pass since they went down.
Past == {n \in Nodes : node[n] \in {"dispatch", "ready"}}

\* The boots so far whose reset may have reopened a job, and the attempts that a job may
\* have been given by then.  The first of all boots finds none to reopen.
Boots == faults["node"] + faults["reclaim"] + Cardinality(Past)
Given == MaxAttempts + Boots - 1

\* A job that may be given an attempt more has one left.
AttemptsPaid ==
    \A j \in Jobs :
        /\ job[j].attempts <= Given
        /\ job[j].status = "pending" /\ Past # {} => job[j].attempts < Given

\* Boots only add attempts, and a node that is up has booted.
LEMMA GivenRange ==
    ASSUME IsFiniteSet(Nodes), TypeOK
    PROVE  /\ Given \in Int /\ MaxAttempts - 1 <= Given
           /\ Past # {} => MaxAttempts <= Given
<1>1. faults["node"] \in Nat /\ faults["reclaim"] \in Nat
    BY DEF TypeOK, FaultKinds, LosingFaults
<1>2. IsFiniteSet(Past) /\ Cardinality(Past) \in Nat
    <2>1. Past \subseteq Nodes
        BY DEF Past
    <2>. QED
        BY <2>1, FS_Subset, FS_CardinalityType
<1>3. Past # {} => Cardinality(Past) > 0
    BY <1>2, FS_EmptySet
<1>. QED
    BY <1>1, <1>2, <1>3, ConstantsAssumption DEF Given, Boots

\* Every reset of a reclaim pass counts as a boot, and no boot is forgotten.
LEMMA BootsStep ==
    ASSUME IsFiniteSet(Nodes), TypeOK, [Next]_vars
    PROVE  /\ Given \in Int /\ Given' \in Int /\ Given <= Given'
           /\ Past' # {} => Past # {} \/ Given < Given'
           /\ \A n \in Nodes : ReclaimReset(n) => Given < Given' /\ Past' # {}
<1>1. /\ "node" \in FaultKinds /\ "reclaim" \in FaultKinds
      /\ faults \in [FaultKinds -> Nat] /\ faults' \in [FaultKinds -> Nat]
      /\ node \in [Nodes -> NodeStage] /\ node' \in [Nodes -> NodeStage]
    BY TypeStep DEF TypeOK, FaultKinds, LosingFaults
<1>. DEFINE f == faults["node"]
            g == faults["reclaim"]
            k == Cardinality(Past)
<1>2. /\ IsFiniteSet(Past) /\ IsFiniteSet(Past')
      /\ f \in Nat /\ g \in Nat /\ f' \in Nat /\ g' \in Nat /\ k \in Nat /\ k' \in Nat
    <2>1. Past \subseteq Nodes /\ Past' \subseteq Nodes
        BY DEF Past
    <2>2. IsFiniteSet(Past) /\ IsFiniteSet(Past')
        BY <2>1, FS_Subset
    <2>. QED
        BY <1>1, <2>2, FS_CardinalityType
<1>3. f <= f' /\ g <= g'
    <2>1. \/ faults' = faults
          \/ \E kind \in FaultKinds : faults' = [faults EXCEPT ![kind] = @ + 1]
        BY FaultsStep
    <2>. QED
        BY <1>1, <2>1
<1>4. \/ Past' = Past
      \/ \E n \in Nodes \ Past : Past' = Past \cup {n}
      \/ \E n \in Past : Past' = Past \ {n} /\ f + g < f' + g'
    <2>1. CASE node' = node
        BY <2>1 DEF Past
    <2>2. ASSUME NEW n \in Nodes, Boot(n) \/ ReclaimSelect(n) \/ (\E j \in Jobs : ReclaimDispatch(n, j))
          PROVE  <1>4
        <3>1. \/ node[n] = "dispatch" /\ node' \in {node, [node EXCEPT ![n] = "ready"]}
              \/ node[n] \notin {"dispatch", "ready"} /\ \E s \in NodeStage : node' = [node EXCEPT ![n] = s]
            BY <1>1, <2>2 DEF Boot, ReclaimSelect, ReclaimDispatch, NodeStage
        <3>. QED
            BY <1>1, <3>1 DEF Past
    <2>3. ASSUME NEW n \in Nodes, ReclaimReset(n)
          PROVE  <1>4
        BY <1>1, <2>3 DEF ReclaimReset, Past
    <2>4. ASSUME NEW n \in Nodes, ReclaimStops(n)
          PROVE  <1>4
        <3>1. f + g < f' + g'
            BY <1>1, <2>4 DEF ReclaimStops, Fault
        <3>2. PICK s \in {"ready", "down"} : node' = [node EXCEPT ![n] = s]
            BY <2>4 DEF ReclaimStops
        <3>. QED
            BY <1>1, <3>1, <3>2 DEF Past
    <2>5. ASSUME NEW n \in Nodes, NodeCrash(n)
          PROVE  <1>4
        <3>1. f + g < f' + g'
            BY <1>1, <2>5 DEF NodeCrash, Fault
        <3>. QED
            BY <1>1, <2>5, <3>1 DEF NodeCrash, Past
    <2>. QED
        BY <2>1, <2>2, <2>3, <2>4, <2>5, NodeMoves DEF ReclaimStep
<1>5. /\ k' = k \/ (k' = k + 1 /\ \E n \in Nodes \ Past : Past' = Past \cup {n})
                \/ (k' = k - 1 /\ f + g < f' + g')
      /\ (\E n \in Nodes \ Past : Past' = Past \cup {n}) => k' = k + 1
    BY <1>2, <1>4, FS_AddElement, FS_RemoveElement
<1>6. Given \in Int /\ Given' \in Int /\ Given <= Given'
    BY <1>2, <1>3, <1>5, ConstantsAssumption DEF Given, Boots
<1>7. (\E n \in Nodes \ Past : Past' = Past \cup {n}) => Given < Given'
    BY <1>2, <1>3, <1>5, ConstantsAssumption DEF Given, Boots
<1>8. Past' # {} => Past # {} \/ Given < Given'
    BY <1>4, <1>7
<1>9. ASSUME NEW n \in Nodes, ReclaimReset(n)
      PROVE  Given < Given' /\ Past' # {}
    <2>1. n \notin Past /\ n \in Past'
        BY <1>1, <1>9 DEF ReclaimReset, Past
    <2>2. \E m \in Nodes \ Past : Past' = Past \cup {m}
        BY <1>4, <2>1
    <2>. QED
        BY <1>7, <2>1, <2>2
<1>. QED
    BY <1>6, <1>8, <1>9

\* An attempt is taken while a node is up, from those left; the last one settles the job;
\* and the reset that reopens it has booted one more node.
LEMMA PaidStep ==
    ASSUME IsFiniteSet(Nodes), Apart, StoryInv, SlotsUp, AttemptsPaid, [Next]_vars
    PROVE  AttemptsPaid'
<1>1. /\ job \in [Jobs -> [status : JobStatus, attempts : Nat]]
      /\ MaxAttempts \in Nat /\ MaxAttempts > 0
    BY ConstantsAssumption DEF StoryInv, TypeOK
<1>2. /\ Given \in Int /\ Given' \in Int /\ Given <= Given'
      /\ Past' # {} => Past # {} \/ Given < Given'
      /\ \A n \in Nodes : ReclaimReset(n) => Given < Given' /\ Past' # {}
    BY BootsStep DEF StoryInv
<1>3. MaxAttempts - 1 <= Given' /\ (Past' # {} => MaxAttempts <= Given')
    <2>1. MaxAttempts - 1 <= Given /\ (Past # {} => MaxAttempts <= Given)
        BY GivenRange DEF StoryInv
    <2>. QED
        BY <1>1, <1>2, <2>1
<1>. DEFINE Paid(j) == /\ job[j].attempts <= Given
                       /\ job[j].status = "pending" /\ Past # {} => job[j].attempts < Given
<1>4. \A j \in Jobs : Paid(j)
    BY DEF AttemptsPaid
<1>. SUFFICES ASSUME NEW i \in Jobs PROVE Paid(i)'
    BY DEF AttemptsPaid
<1>5. CASE job'[i] = job[i]
    BY <1>1, <1>2, <1>4, <1>5
<1>6. CASE job'[i] = [status |-> "pending", attempts |-> 0]
    BY <1>1, <1>2, <1>3, <1>6
<1>7. ASSUME NEW n \in Nodes, ReclaimReset(n), job'[i].attempts = job[i].attempts
      PROVE  Paid(i)'
    BY <1>1, <1>2, <1>4, <1>7
<1>8. ASSUME NEW w \in Workers, MarkProcessing(w), job[i].status = "pending",
             job'[i] = [status |-> "processing", attempts |-> job[i].attempts + 1]
      PROVE  Paid(i)'
    <2>1. Past # {}
        BY <1>8, ConstantsAssumption DEF MarkProcessing, SlotsUp, Past
    <2>. QED
        BY <1>1, <1>2, <1>4, <1>8, <2>1
<1>9. ASSUME NEW s \in {"done", "failed"}, job'[i] = [status |-> s, attempts |-> job[i].attempts]
      PROVE  Paid(i)'
    BY <1>1, <1>2, <1>4, <1>9
<1>10. ASSUME job'[i] = [status |-> "pending", attempts |-> job[i].attempts],
              job[i].attempts < MaxAttempts
       PROVE  Paid(i)'
    BY <1>1, <1>2, <1>3, <1>4, <1>10
<1>. HIDE DEF Paid
<1>11. UNCHANGED job => job'[i] = job[i]
    OBVIOUS
<1>. QED
    BY <1>1, <1>5, <1>6, <1>7, <1>8, <1>9, <1>10, <1>11, StepShows

\* A job is given its configured attempts, and one more for each boot but the first.
AttemptsWithinBoots ==
    \A j \in Jobs : job[j].attempts <=
        MaxAttempts + faults["node"] + faults["reclaim"] + Cardinality(Nodes) - 1

\* As long as deliveries of one document do not overlap, and on any number of nodes: a
\* node that boots, for the first time or after a crash, buys a job at most one attempt
\* beyond the limit.
THEOREM BootsCorrect ==
    ASSUME IsFiniteSet(Nodes)
    PROVE  Spec /\ []Apart => []AttemptsWithinBoots
<1>1. Init => SlotsUp /\ AttemptsPaid
    <2>. SUFFICES ASSUME Init PROVE SlotsUp /\ AttemptsPaid
        OBVIOUS
    <2>1. Past = {} /\ TypeOK
        BY InitType DEF Init, Past
    <2>2. Given \in Int /\ MaxAttempts - 1 <= Given
        BY <2>1, GivenRange
    <2>. QED
        BY <2>1, <2>2, ConstantsAssumption DEF Init, SlotsUp, AttemptsPaid
<1>2. Apart /\ StoryInv /\ SlotsUp /\ AttemptsPaid /\ [Next]_vars => (SlotsUp /\ AttemptsPaid)'
    BY UpStep, PaidStep DEF StoryInv
<1>3. StoryInv /\ AttemptsPaid => AttemptsWithinBoots
    <2>. SUFFICES ASSUME StoryInv, AttemptsPaid, NEW j \in Jobs
                  PROVE  job[j].attempts <= MaxAttempts + faults["node"] + faults["reclaim"]
                                                + Cardinality(Nodes) - 1
        BY DEF AttemptsWithinBoots
    <2>1. Past \subseteq Nodes
        BY DEF Past
    <2>2. Cardinality(Past) <= Cardinality(Nodes) /\ Cardinality(Nodes) \in Nat
          /\ Cardinality(Past) \in Nat
        BY <2>1, FS_Subset, FS_CardinalityType
    <2>3. faults["node"] \in Nat /\ faults["reclaim"] \in Nat
          /\ job[j].attempts \in Nat /\ job[j].attempts <= Given
        BY DEF StoryInv, TypeOK, FaultKinds, LosingFaults, AttemptsPaid
    <2>. QED
        BY <2>2, <2>3, ConstantsAssumption DEF Given, Boots
<1>. QED
    BY <1>1, <1>2, <1>3, ApartCorrect, PTL DEF Spec

-----------------------------------------------------------------------------
(* One node *)

\* One node: while it boots, none of its slots works.
OneNode == \A m, n \in Nodes : m = n

\* The attempts a job may have been given so far.
Limit == MaxAttempts + faults["node"]

Booting == \E n \in Nodes : node[n] # "ready"

\* A job that may be given an attempt more, now or by the reclaim pass of a node that
\* boots, has not used up its attempts.
AttemptsLeft ==
    \A j \in Jobs :
        /\ job[j].attempts <= Limit
        /\ job[j].status = "pending" \/ (Booting /\ Open(j)) => job[j].attempts < Limit

\* What the reclaim pass has chosen is no business of a slot.
LEMMA PassAlone ==
    ASSUME OneNode, TypeOK, SlotsUp, NEW n \in Nodes, NEW w \in Workers, node[n] = "update"
    PROVE  task[w] \notin reclaim[n]
<1>1. NodeOf[w] = n
    BY ConstantsAssumption DEF OneNode
<1>2. pc[w] = "idle"
    BY <1>1 DEF SlotsUp
<1>3. task[w] = None /\ reclaim[n] \subseteq Jobs
    BY <1>2 DEF TypeOK
<1>. QED
    BY <1>3, ConstantsAssumption

\* The limit never falls, and a node that stops being up raises it.
LEMMA LimitStep ==
    ASSUME TypeOK, [Next]_vars
    PROVE  /\ Limit \in Nat /\ Limit' \in Nat /\ MaxAttempts <= Limit' /\ Limit <= Limit'
           /\ Booting' => Booting \/ Limit < Limit'
<1>1. /\ "node" \in FaultKinds /\ faults \in [FaultKinds -> Nat] /\ faults' \in [FaultKinds -> Nat]
      /\ node \in [Nodes -> NodeStage]
    BY TypeStep DEF TypeOK, FaultKinds
<1>2. \/ faults' = faults
      \/ \E kind \in FaultKinds : faults' = [faults EXCEPT ![kind] = @ + 1]
    BY FaultsStep
<1>3. Limit \in Nat /\ Limit' \in Nat /\ MaxAttempts <= Limit' /\ Limit <= Limit'
    BY <1>1, <1>2, ConstantsAssumption DEF Limit
<1>4. ASSUME NEW n \in Nodes, NodeCrash(n)
      PROVE  Limit < Limit'
    BY <1>1, <1>4, ConstantsAssumption DEF NodeCrash, Fault, Limit
<1>5. ASSUME NEW n \in Nodes, Boot(n) \/ ReclaimStep(n) \/ ReclaimStops(n)
      PROVE  Booting
    BY <1>5 DEF Boot, ReclaimStep, ReclaimSelect, ReclaimReset, ReclaimDispatch, ReclaimStops,
                Booting
<1>6. CASE node' = node
    BY <1>3, <1>6 DEF Booting
<1>. QED
    BY <1>3, <1>4, <1>5, <1>6, NodeMoves

\* An attempt is taken while the node is up, and the last one settles the job.
LEMMA AttemptsStep ==
    ASSUME OneNode, Apart, StoryInv, SlotsUp, AttemptsLeft, [Next]_vars
    PROVE  AttemptsLeft'
<1>1. /\ job \in [Jobs -> [status : JobStatus, attempts : Nat]]
      /\ Limit \in Nat /\ Limit' \in Nat /\ MaxAttempts <= Limit' /\ Limit <= Limit'
      /\ Booting' => Booting \/ Limit < Limit'
      /\ MaxAttempts \in Nat /\ MaxAttempts > 0
    BY LimitStep, ConstantsAssumption DEF StoryInv, TypeOK
<1>. DEFINE Left(j) == /\ job[j].attempts <= Limit
                       /\ job[j].status = "pending" \/ (Booting /\ Open(j))
                              => job[j].attempts < Limit
<1>2. ASSUME NEW j \in Jobs, job'[j] = job[j] PROVE Left(j)'
    BY <1>1, <1>2 DEF AttemptsLeft, Open
<1>3. CASE UNCHANGED job
    BY <1>2, <1>3 DEF AttemptsLeft
<1>4. CASE \E j \in Jobs : job' = [job EXCEPT ![j] = [status |-> "pending", attempts |-> 0]]
    BY <1>1, <1>2, <1>4 DEF AttemptsLeft, Open
<1>5. CASE /\ \E n \in Nodes : ReclaimReset(n)
           /\ \A j \in Jobs : \/ job'[j] = job[j]
                              \/ /\ Open(j) /\ job'[j].status = "pending"
                                 /\ job'[j].attempts = job[j].attempts
    <2>1. Booting
        BY <1>5 DEF ReclaimReset, Booting
    <2>. QED
        BY <1>1, <1>2, <1>5, <2>1 DEF AttemptsLeft, Open
<1>6. CASE \E j \in Jobs, w \in Workers :
               /\ MarkProcessing(w) /\ job[j].status = "pending"
               /\ job' = [job EXCEPT ![j] = [status |-> "processing",
                                             attempts |-> job[j].attempts + 1]]
    <2>. PICK j \in Jobs, w \in Workers :
               /\ MarkProcessing(w) /\ job[j].status = "pending"
               /\ job' = [job EXCEPT ![j] = [status |-> "processing",
                                             attempts |-> job[j].attempts + 1]]
        BY <1>6
    <2>1. ~Booting'
        BY ConstantsAssumption DEF MarkProcessing, nodes, SlotsUp, OneNode, Booting
    <2>2. job'[j].status = "processing" /\ job'[j].attempts = job[j].attempts + 1
        BY <1>1
    <2>3. job[j].attempts < Limit
        BY DEF AttemptsLeft
    <2>4. Left(j)'
        BY <1>1, <2>1, <2>2, <2>3
    <2>. QED
        BY <1>1, <1>2, <2>4 DEF AttemptsLeft
<1>7. CASE \E j \in Jobs :
               \/ job' = [job EXCEPT ![j] = [status |-> "done", attempts |-> job[j].attempts]]
               \/ job' = [job EXCEPT ![j] = [status |-> "failed", attempts |-> job[j].attempts]]
               \/ /\ job' = [job EXCEPT ![j] = [status |-> "pending",
                                                attempts |-> job[j].attempts]]
                  /\ job[j].attempts < MaxAttempts
    BY <1>1, <1>2, <1>7 DEF AttemptsLeft, Open
<1>. QED
    BY <1>3, <1>4, <1>5, <1>6, <1>7, StepShows

\* On one node, as long as deliveries of one document do not overlap: only a crash of
\* the node buys a job an attempt beyond the limit.
THEOREM AttemptsCorrect ==
    ASSUME OneNode
    PROVE  Spec /\ []Apart => []AttemptsWithinReclaims
<1>1. Init => SlotsUp /\ AttemptsLeft
    BY ConstantsAssumption DEF Init, SlotsUp, AttemptsLeft, Limit, Open, FaultKinds
<1>2. Apart /\ StoryInv /\ SlotsUp /\ AttemptsLeft /\ [Next]_vars => (SlotsUp /\ AttemptsLeft)'
    BY UpStep, AttemptsStep DEF StoryInv
<1>3. AttemptsLeft => AttemptsWithinReclaims
    BY DEF AttemptsLeft, Limit, AttemptsWithinReclaims
<1>. QED
    BY <1>1, <1>2, <1>3, ApartCorrect, PTL DEF Spec

-----------------------------------------------------------------------------
(* One slot *)

\* One slot, on one node: no two deliveries can overlap, whatever the broker repeats.
Solo == OneNode /\ \A v, w \in Workers : v = w

\* A slot is at one message at a time, and its node reclaims only before it has any: one
\* slot on one node keeps deliveries apart by itself.
THEOREM SoloApart ==
    ASSUME Solo
    PROVE  Spec => []Apart
<1>1. Init => SlotsUp
    BY DEF Init, SlotsUp
<1>2. TypeOK /\ SlotsUp /\ [Next]_vars => SlotsUp'
    BY UpStep DEF Solo
<1>3. TypeOK /\ SlotsUp => Apart
    BY PassAlone DEF Solo, Apart
<1>. QED
    BY <1>1, <1>2, <1>3, TypeCorrect, PTL DEF Spec

\* So one slot is all it takes: everything above holds whatever crashes, is lost or is
\* delivered again.
THEOREM SoloCorrect ==
    ASSUME Solo
    PROVE  Spec => /\ [](StatusesAgree /\ AttemptsWithinReclaims)
                   /\ AttemptsNeverRewound /\ SettledIsFinal /\ ImplementsLifecycle
<1>1. OneNode
    BY DEF Solo
<1>. QED
    BY <1>1, SoloApart, AgreeCorrect, AttemptsCorrect, RewoundCorrect, SettledCorrect,
       LifecycleCorrect, PTL

=============================================================================
