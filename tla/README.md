# A TLA+ model of DocQA SaaS

DocQA is a multi-tenant service that answers questions about uploaded documents.
A FastAPI backend keeps its records in Postgres (one `public` schema, one schema
per tenant), its vectors in Pinecone (one namespace per tenant) and its sessions
in a table of refresh tokens. A Celery worker fed by Redis ingests documents. A
Next.js server in front (the "BFF") keeps the tokens of a browser in cookies, and a
React client keeps what it has fetched in a query cache (TanStack Query) per tab.

This directory models the parts of that system in which processes interleave,
fail half-way or are retried; checks them with TLC on small instances; and
proves what matters most for every instance with TLAPS. Paths below are relative
to the repository; `docqa/` stands for `src/docqa/`.

- [1. The system](#1-the-system)
- [2. The modules and the code](#2-the-modules-and-the-code)
- [3. Properties and runs](#3-properties-and-runs)
- [4. What the violations show](#4-what-the-violations-show)
- [5. Fairness](#5-fairness)
- [6. Proofs](#6-proofs)
- [7. What is not modelled](#7-what-is-not-modelled)
- [8. Plan](#8-plan)

## 1. The system

| Part | Code | State | Operations | Talks to |
|---|---|---|---|---|
| Document upload | `docqa/services/document_upload.py`, `core/storage.py`, `api/v1/documents.py` | a file; one `documents` and one `ingestion_jobs` row | upload, list | Postgres, then the broker (`delay`) |
| Ingestion worker | `docqa/services/ingestion.py`, `celery_app.py` | job status and attempts, document status, `document_chunks`, the namespace | the task `process_ingestion_job`, the boot-time `reclaim_stuck_jobs` | broker, Postgres, Pinecone, NVIDIA NIM |
| Sessions | `docqa/services/session.py`, `api/v1/auth.py`, `models/refresh_token.py` | `refresh_tokens` | login, refresh, logout, logout-all | Postgres |
| Tenant provisioning | `docqa/services/tenant_provisioning.py`, `db/tenant_binding.py` | `tenants`, `users`, the schemas | signup | Postgres |
| Team and login | `docqa/services/team.py`, `auth_service.py`, `core/deps.py` | `users` | add member, authenticate, the role check | Postgres |
| Conversations and chat | `docqa/services/conversation.py`, `chat.py`, `api/v1/chat.py` | `conversations`, `messages` | a chat turn, the list, the detail of a conversation | Postgres, Pinecone, NVIDIA NIM |
| BFF | `frontend/lib/backend-fetch.ts`, `frontend/app/api/**` | two cookies per browser | forward a call; on 401 refresh and retry once | the API |
| Data hooks | `frontend/hooks/*`, `frontend/lib/api.ts`, `frontend/app/providers.tsx` | the query cache of a tab, the mutations in flight | fetch, poll, write, invalidate; leave for `/login` on a 401 | the BFF |
| Pages | `frontend/proxy.ts`, `frontend/app/**/page.tsx`, `frontend/components/**` | the path, the active conversation, the question in flight | go to a page, log in, sign up and out, upload, add a teammate, ask | the hooks |

What is hard in each, and what makes it correct:

* **Ingestion.** Celery delivers at least once: a message comes back when a child
  or a node dies (`task_acks_late`, `task_reject_on_worker_lost`), and also under
  a task that runs longer than the visibility timeout. A booting node resets
  every job at `processing`, including the live jobs of other nodes. A task
  spends minutes between the status it read and the commit that relies on it,
  with an uncommitted `DELETE` open. Pinecone, Postgres and Redis share no
  transaction. It is correct when chunk rows are never duplicated and never point
  at missing vectors, when "ready" means citable and stays so, when the three
  records of an outcome agree, and when every dispatched job settles.
* **Sessions.** FastAPI runs these handlers in a thread pool, each with a database
  session at READ COMMITTED; no row is locked between the `SELECT` of a token and
  the commit that consumes it. It is correct when a login has one live token,
  a closed session stays closed, a reuse is told from a logout, and a revocation
  reaches the tokens it should and no others.
* **Provisioning and team.** A signup is up to five commits over two connections,
  and several requests may pass the "is this address free" check together. It is
  correct when a tenant one can log in to is whole, an address has one owner for
  good, what the caller was told is true, and a failure can be retried.
* **BFF.** Route handlers keep no state of their own: what a handler knows of the
  session is the cookies its request came with, and what it learns reaches the
  browser with its response, which may be lost. A handler that gets a 401 refreshes
  once and retries once. It is correct when a browser at rest holds the one token
  that still works, when the alarm for a reused token is not set off by the
  browser's own handlers, and when refused cookies do not stay behind, where
  `proxy.ts` would take them for a session.
* **Conversations.** A turn reads its history, asks the model for seconds, and
  then writes; turns overlap, and messages are ordered by the time at which their
  transaction began. It is correct when a turn is told whole turns, without gaps, of
  the asker's own conversation, and a failed turn leaves nothing.
* **Data hooks and pages.** A fetch is answered some time before its answer lands, and
  polls, refetches, invalidations, direct writes to the cache and the user's clicks come in
  any order meanwhile. Nothing is tied to the page, the conversation or the user it was
  asked for but by its key in the cache, and the cache outlives a logout. They are correct
  when what a page shows was said where it is shown, when a list never goes back, when
  polling stops only once there is nothing to wait for, and when a dead session gets out of
  the app and stays out.
* **Chat retrieval.** Matches come from Pinecone and are resolved in Postgres later, when a
  re-ingestion may have replaced the rows. A vector's id derives from the document and the
  number of its chunk, so that a match of a document that is ready finds the new rows:
  what that needs is that rows never disappear (`CitableStaysCitable`) and have their
  vectors (`ChunksBackedByVectors`).

`PROJECT.json` lists every hazard at the line where it bites, with the properties
that watch it.

## 2. The modules and the code

    Ingestion ---- refines ----> DocumentLifecycle
      |-- MCIngestion (TLC)
      `-- IngestionProofs, IngestionApartProofs (TLAPS)

    Sessions  ---- refines ----> SessionLifecycle
      |-- MCSessions (TLC)
      |-- SessionsProofs (TLAPS)
      `-- Bff, composed with Sessions -- MCBff (TLC), BffProofs (TLAPS)

    Provisioning  -- MCProvisioning (TLC), ProvisioningProofs (TLAPS)

    Conversations -- MCConversations (TLC), ConversationsProofs (TLAPS)
      `-- ChatClient, composed with Conversations, which it refines
            |-- QueryCache (one entry of the cache)
            |-- MCChatClient (TLC)
            `-- ChatClientProofs (TLAPS)

    Tab
      |-- QueryCache
      |-- MCTab (TLC)
      `-- TabProofs (TLAPS)

### Ingestion

One tenant's upload handlers, the broker, pool slots and worker nodes over shared
stores. A job and its document are created in one commit and never apart, so one
element of `Jobs` names both.

| Variable | Code |
|---|---|
| `upload` | how far `upload_document` got for each document |
| `job`, `doc`, `chunkRows` | committed `ingestion_jobs.status/attempts`, `documents.status`, copies of the `document_chunks` rows |
| `rowLock` | the open transaction that has deleted those rows (`ingestion.py:78-80`) and holds their locks |
| `flushed` | the tables that a slot's commit (`ingestion.py:112-117`) has written so far, and whose rows it holds |
| `vectors` | the ids in the namespace; they are derived from document and chunk index, so a rerun overwrites |
| `queue` | messages of the job at the broker; identical, hence a count. A retry's countdown is part of the queueing delay, which is arbitrary |
| `node`, `reclaim` | a node that is down, in `reclaim_stuck_jobs` (with the ids it selected) or consuming |
| `pc`, `task`, `seen` | a slot's next step, the job of its message, and what its ORM session has loaded |
| `faults` | how many faults of each kind have happened; the bound is `MaxFaults` |

A step of a slot ends at each access to a shared store: `LoadJob`,
`MarkProcessing`, `RefreshJob`, `GetDocument`, `ClearChunks`, `Upsert`,
`Flush` and `CommitResults`, and on failure `Rollback`, `ReloadJob`, `HandleFailure`, `Retry`,
`Ack`. `seen` is what makes stale reads visible: SQLAlchemy writes a column only
when its new value differs from the loaded one, and the attempts written are
computed from the attempts loaded. Postgres is modelled as far as the code relies on
it: a `DELETE` locks the rows it finds and is private until its commit; a second
`DELETE` of the same rows waits, and goes on when the first transaction ends; the
unique constraint on `pinecone_vector_id` refuses a second copy, and an `INSERT` waits for
whoever may still remove the first one.

The commit of the results writes up to three tables, one statement after the other, and each
`UPDATE` holds its row until the transaction ends. `Flush` is such a statement. Their order is
the ORM's, no property needs it, and the model takes any; it is a step of its own only while
another slot is where it could wait for the row (at its `mark`, its failure handler or its own
commit), and part of `CommitResults` otherwise. Waits may close a circle: one slot has updated
the document and its `INSERT` waits for the rows that a second slot has deleted, and the second
one waits for the document. `DeadlockDetected` is Postgres failing a transaction of a circle,
which the task treats like any other failure of its attempt. The short transactions
(`MarkProcessing`, `HandleFailure`, `ReclaimReset`) wait for the rows they write, and write them
in one step; that one of them is the victim of a deadlock is among the exceptions of
`TaskEscapes` and `ReclaimStops`.

Faults are actions with a counter. `SlotCrash` and `NodeCrash` return their messages
to the queue; `Redeliver` is the visibility timeout. Four kinds may lose track of
a job: a lost message, an upload handler that stops between the commit and
`delay`, a reclaim pass cut short (its `except Exception` logs and carries on), and
an exception that leaves the task, whose message Celery acknowledges all the same.
The failure of an attempt (`WorkFails`) is not a fault but an ordinary outcome: it
is unbounded except by the code's own limit on attempts, and may leave any part of
the vectors behind.

`DocumentLifecycle` is what users are promised: pending, then ready or failed once
and for all, citable from the very step it becomes ready. `Ingestion` implements it
under `status <- doc`, `citable <- chunkRows > 0`.

### Sessions

`owner`, `revoked`, `expired` and `replacedBy` are columns of `refresh_tokens`;
`origin` is a history variable, the login a token descends from. Each of `Requests`
is a thread: `RefreshFind` or `LogoutFind` is the `SELECT` with the checks on what it
returned, and `Rotate`, `Cascade`, `Revoke` the commit. `LogoutAll` and the cascade's
`UPDATE` are single statements. `Die` is a request that ends before its commit. The
clock is one action, `Expire`: the code reads "now" once per request, and expiry
matters only as a fact about a token. `Deactivate` is an operator's change of
`tenants.status`.

`SessionLifecycle` is the promise: a session opens at sign-in, closes at a sign-out
or a forced sign-out, and never opens again; exchanging tokens is invisible. A
session of it is a login, open while any token that descends from the login is
unrevoked.

### Bff

`Bff` extends `Sessions`: a route handler is the only client of one request thread of
the API and bears its name, so that the handler's call *is* the API's action
(`LoggedIn` contains `Login`, `Refresh` contains `RefreshFind`, `Renewed` contains
`Rotate`, and so on). Access and refresh token are issued, stored and deleted as a
pair; a token names both, and `lapsed` holds those whose access token has expired.

| Variable | Code |
|---|---|
| `jar` | the cookies of each browser |
| `handler[r].sent` | the cookies the request came with (`cookies()`) |
| `handler[r].step` | the `await` the handler is at |
| `handler[r].reply` | the cookies its response sets (a token), deletes (`None`) or leaves alone (`Keep`) |
| `handler[r].status` | whether the browser is told 401 |
| `lost` | responses that got lost; the bound is `MaxLost` |

All data routes are one kind of call: they forward to the API by `backendFetch` and
differ in nothing that touches a cookie. A signup that logs in is a login. A response
that is lost after the API has exchanged the token stands for every way in which the new
cookies do not arrive, a retry that throws included. `Lapse` and `Expire` are
independent, as are the two lifetimes in the settings.

### Conversations

`turn[t]` is one call of `answer_within_conversation`: `Ask` is the ownership check, with
which the transaction begins, or `AskNew`; `LoadHistory` is `_load_history`; `Save` the
commit of both messages, and of the row of a new conversation; `Fail` anything that
raises. A message is named by its turn and role. `began` is the start of the transaction,
which is `created_at` of both messages (`now()` is constant within a transaction), and
`ended` the commit, which the code never reads and two properties do. A turn that opens a
conversation has both set by `Save`: nobody can ask in that conversation before. `Orders`
are the orders of its turns by `created_at` and `Listings` the results an `ORDER BY
created_at` of its messages may have. Two transactions are assumed not to begin in the same
microsecond.

### Provisioning

One action per commit of `provision_tenant` (`InsertTenant`, `CreateSchema`,
`CreateTables`, `InsertAdmin`, `Activate`, and `MarkFailed` for its two failure
paths), `CheckEmail` for the check up front, `SignupDies` for a process that stops
between two. `create_team_member` is `CheckMember`, with `require_admin` as guard,
and `AddMember`. The unique constraint on `users.email` is what decides.

### QueryCache

The operators that `ChatClient` and `Tab` share: what the query cache does to the entry
of one key, as far as the hooks and pages rely on it. An entry is its `data`, whether they
are `fresh` (younger than the `staleTime` of `providers.tsx` and not invalidated), and its
`fetch` in flight, with the session that asks and, once the server has seen it, the answer.
A query fetches once at a time; an invalidation abandons a fetch for a new one, except the
very first. This is the library's behaviour and external to the repository.

### ChatClient

The chat page of one tab, composed with `Conversations`: `Send` contains `Ask` or `AskNew`
of the user of the tab, and `Serve` reads what `Conversations` has saved at that moment.
Turns of others, and of the same user on another device, go on beside it.

| Variable | Code |
|---|---|
| `active` | `activeId` of `chat/page.tsx` |
| `sent` | the mutation in flight: its turn, and the conversation that was active when `handleSend` closed over it |
| `cache` | the entries of `["conversations"]` and of each `["conversations", id]` |

`SendReturns` is `onSuccess` of `use-chat.ts` and the rest of `handleSend`: the turn is
written into the cache of its conversation, every key with the prefix is invalidated, and a
question that was asked in a new conversation brings that on screen. `SendFails` also
stands for an answer that is lost on the way, so that the turn may be saved all the same. A
question and its answer are shown together, so that the data of a conversation are a
sequence of turns.

### Tab

The rest of the client: the router behind `proxy.ts`, the forms, the documents and the team.

| Variable | Code |
|---|---|
| `made`, `status` | the API: whose tenant a document or teammate was added to; `documents.status` |
| `live` | the users with a session in this browser that the API still takes |
| `cookie` | whose session cookies the browser has |
| `page` | the path, and `?next=` of the login page |
| `cache` | the entries of `["documents"]`, `["team"]` and `["me"]` |
| `call` | the mutation in flight of each form: who asks, for what, where the page goes next, the answer |

The route handlers are `Bff`'s, seen from the browser: a call is answered for the session whose
cookies it carries or refused with both cookies deleted, which `RefusedCookiesGo` is about
there. A call that is renewed on its way brings new cookies with its answer
(`backend-fetch.ts:78-80`), of the session it was made in: `Renewed` lets every answer of a
query, an upload or an added teammate do so, also one that arrives after a logout and the next
login, where it puts the cookies of the user before in the place of the new ones. The two
sessions of one user are not told apart. Which addresses are free, and what a signup leaves
behind, is `Provisioning`'s. `Settle` is the end of a delivery of a document's job, whatever the
document's status is by then: `ingestion.py:114` and `:130` write it unconditionally, and where
deliveries overlap Ready may become Failed and Failed Ready, as `IngestionUnsettled` has it of
the job.

`Push` is a soft navigation, which keeps the cache and what is in flight; `Load` a full one,
which drops both, as a reload, a bookmark and the redirect after a 401 do. A page that comes
on screen has its queries fetched unless they are fresh (`Arrive`), those of the shell only
when the shell appears. `Land`, `Poll`, `Focus`, `FetchFails` and `Age` are what happens to
queries; `CreateReturns` is the end of an upload or of adding a teammate, which invalidates
the list. Queries in `Delayed` are answered in two steps, at the server and in the tab; the
others, whose crossing no property of their run is about, in one.

## 3. Properties and runs

| Run | Instance | Checks |
|---|---|---|
| `IngestionSolo` | 2 documents, 1 slot, every kind of fault once, 2 attempts | `TypeOK`, `StatusesAgree`, `AttemptsWithinReclaims`, `StrandedOnlyByLoss`, `AttemptsNeverRewound`, and `ImplementsLifecycle` |
| `IngestionFleet` | 1 document, 2 nodes of one slot each; one crash of a slot, one of a node, one redelivery; under fairness | `NoDuplicateChunks`, `ChunksBackedByVectors`, `ReadyIsCitable`, `StrandedOnlyByLoss`, `WaitsEnd`, `CitableStaysCitable`, `EveryUploadSettles` |
| `BffSerial` | 2 browsers of one user, 3 tokens, one handler at a time, one lost response | `BffTypeOK`, `AlarmTakesLoss`, `JarIsLatest`, `RefusedCookiesGo`; of Sessions, `OneLiveTokenPerLogin` and `ImplementsLifecycle` |
| `SessionsConcurrent` | 4 tokens, 2 users, 2 requests | `TypeOK`, `ChainSound`, `RevocationIsScoped` |
| `Provisioning` | 3 signups, 2 add-member requests, 2 addresses | `TypeOK`, `ActiveIsWhole`, `AnswersAreTrue`, `OwnershipIsFinal` |
| `ChatClient` | 3 turns, 2 users, 2 conversations, a history of 1 turn | `ChatTypeOK`, `ShownIsSaved`, `TwiceIsRefetched`; of Conversations, `HistoryIsPrivate`, `HistoryIsWholeTurns`, `HistoryHasNoGaps`, `NoOrphanConversation` |
| `TabDocuments` | 1 user, an admin, 1 document, 1 teammate to add, every page, 1 login; under fairness | `TabTypeOK`, `TableNeverReverts`, `ProcessingEnds` |
| `TabUsers` | 2 users, 1 document, the documents page, 2 logins; under fairness | `DeadSessionLeaves`, `ForeignFades` |
| `IngestionUnsettled`, `BffSignedOut`, `ProvisioningHalfDone`, `ConversationsOrder` | the smallest instance with the one fault or overlap needed | one promise of the repository each, violated: section 4 |

Why these bounds are enough to meet the interesting cases:

* *Slots and jobs.* Jobs share nothing but slots and the reclaim pass, so two jobs
  with one slot shows how a pass over several jobs is cut short and how one job's
  crash delays another; what several slots do to one document needs one job and two
  slots. Two nodes let one reclaim while the other works. Symmetry is taken over
  jobs, tokens, users, requests, browsers, signups, emails, turns and conversations,
  which no formula names (in `ChatClient`, over the users other than the one of the tab);
  never in a run with a liveness property.
* *Attempts.* `MaxAttempts = 2` has a first, a last and (after a reclaim) an excess
  attempt. `ChunkIds` has one element: chunks of one document live and die together,
  and a partial upsert is the empty set or the whole.
* *Browsers.* Two, so that one user's sessions meet in a forced logout and a reuse
  alarm; one handler at a time, because what overlapping handlers break is the question of
  `BffSignedOut`. Three tokens are two logins and a renewal, or a login
  renewed twice, which is what a reuse after a loss takes.
* *Turns.* Three with a history of one: the last turn can have more behind it than it is
  told of, and each pair may overlap, on the page, elsewhere, or one here and one there. Two
  conversations are one that was asked in and one that the user has gone to since.
* *Tabs.* In `TabDocuments`, one document: its upload, the fetches and polls of the list, its
  verdicts and a teammate added meanwhile, on every page. Documents of one list share its
  fetches, and differ in one thing: with one, `refetchInterval` cannot tell "some document is
  pending" from "every one is". In `TabUsers`, two users and two logins, the user before and the
  user after, and the page with a list of its own beside `["me"]`. `MaxCalls` is one: the forms
  that could be in flight at once touch different keys of the cache. In `TabDocuments` the list
  is answered in two steps, so that an upload, a poll and a status can come in between; in
  `TabUsers` an answer is made as it lands, for the session it was asked by, since neither
  property depends on its age.
* *Tokens.* In `SessionsConcurrent` four suffice for two logins that each rotate, or one chain
  of three rotations; two requests for every race of a read with a commit.
* *Signups.* Three over two addresses: two that collide, one that does not, and an
  admin who adds the address a signup is about to take.

Counters are bounded by `MaxFaults` (each kind of fault), `MaxLost` (responses), `Tokens`
(rows), `Turns`, `MaxLogins` (attempts to log in or sign up) and `MaxCalls` (forms in flight);
no other bound exists. Attempts, messages and chunk copies have none: they stay finite
because the code and the faults keep them so.

Deadlock is checked wherever the system serves forever. `Ingestion` has an explicit
`Quiet` step for the state in which all uploads are over and all slots wait, so a
deadlock there would be a real one. Slots that wait for each other's rows would not deadlock
the model, as their nodes may crash: `WaitsEnd` is about them. Whoever waits, waits for a task
on the same document that is inside its transaction and waits itself, if at all, in its commit; so a
circle is one of commits, which Postgres detects, and that every job settles all the same is
`EveryUploadSettles`. In `Provisioning` and
`Conversations` every request ends, so their runs do not check deadlock; a tab always has
something to do.

Each property of a passing run has a mutant: a definition of the code changed as a
bug would change it (operators whose comment begins with "Mutant:"), under which
TLC finds the property violated.

## 4. What the violations show

Each of these runs checks one statement made by the repository and finds the shortest
behaviour of the code that contradicts it.

* **`SettledIsFinal`** ("a no-op … re-running it is always safe", docstring of the task). The
  status is read once, at the start. Two deliveries that overlap both load `pending`; the first
  one finishes the job, and the second, going by what it has loaded, writes `processing` and its
  own count of attempts over `done` (`ingestion.py:220-223`). The failure handler is a second
  way, on a longer path: it looks at `attempts` alone (`:126-132`) and writes `pending` or
  `failed` over what another delivery has recorded. The rows survive (`CitableStaysCitable`),
  the statuses do not. It takes such an overlap, or a reclaim pass that chose a job in the hands
  of another node (`SettledCorrect`).
* **`ClosedForGood`** with two handlers (`BffSignedOut`; "ending every other session's
  ability to get a new access token"). A refresh that read its token before a logout, or a
  forced logout, commits an unrevoked successor after it. That is the only way
  (`ReopeningTakesStaleRead`).
* **`FailureIsRetryable`** ("visible and retryable, rather than silently half-done"). A
  process that stops after the commit of the admin and before the activation leaves an
  address that can neither log in nor sign up, and never will (`LockoutCorrect`). It is the
  only such hole (`HalfDoneCorrect`).
* **`HistoryOldestFirst`** ("oldest first", `services/chat.py`; a test asserts user,
  assistant, user, assistant). Both messages of a turn are written by one transaction, and
  `created_at` is its start: they tie, and nothing else orders them. The model may be told,
  and the user shown, an answer before its question. What does hold is that turns stay
  whole (`WholeTurnsCorrect`) and in order (`InOrderCorrect`).

Remarks that no run is spent on:

* *Lost messages.* ARCHITECTURE has it that an upload is "never silently dropped", and
  docker-compose that Redis needs no persistence. The reclaim pass looks at `processing` only;
  a job whose message is lost while it is `pending` waits for ever. `StrandedOnlyByLoss` is
  exact about it: a job nobody will look at takes such a loss, and crashes and redeliveries
  alone never make one.
* *Single use.* Two requests of one browser that find the access token expired refresh with the
  same cookie. `backend-fetch.ts:90-94` expects that "the second's refresh loses"; both may read
  the row before either commits, and then both succeed, against "single-use" in `api/v1/auth.py`.
  The chain of `replaced_by_id` keeps one of the successors, and which one the browser keeps
  depends on the order of the responses. The theorem `SingleUse` is the other side: unless
  two requests exchange one token at the same time, a login has one live token.
* *Attempts* are not bounded by `INGESTION_MAX_ATTEMPTS` alone, as the README of the repository
  has it. A node that dies during the last attempt leaves the job at `processing`, the reclaim
  pass reopens it without looking at `attempts`, and it is attempted again;
  on one node `AttemptsWithinReclaims` is the bound that holds, one extra attempt per crash. With
  more nodes it is one per boot of any node but the very first, as long as deliveries of the
  document do not overlap (`BootsCorrect`).
* *A turn shown twice.* `chat/page.tsx:25-27` says of the query cache that "there's nothing that
  can end up duplicated against it", `use-chat.ts:14-18` that `onSuccess` writes the turn
  "instead of invalidating it", since invalidating "produced a duplicated turn", and
  `message-thread.tsx:20-23` that no copy is "left behind for a later refetch to collide with".
  Yet `use-chat.ts:39` invalidates the prefix `["conversations"]`, the conversation included,
  and a refetch (on focus, say) that is answered after the turn was saved and lands before
  `onSuccess` has the turn already when `onSuccess` appends it: the turn is on screen twice.
  `TwiceIsRefetched` is what holds. Such data count as stale and are being fetched again from
  the moment they are shown; only a fetch that fails leaves them, until the next one.
* *The cache outlives a logout.* Logging out pushes `/login` without clearing the query cache,
  so that the next user to log in in the same tab, without a reload, is first shown what the
  cache has of the one before. So do the calls in flight: one that was renewed brings cookies of
  the previous user when it is answered, and if that is after the next login, the browser is in
  the session of the user before, whose data the page then goes on to fetch and show.
  `ForeignFades` is what holds, and speaks of the user whose cookies the browser has: what the
  page shows of anybody else does not stay, because `["me"]` and the lists grow stale and are
  fetched again, unless the cookies change once more. It cannot promise that those are the
  cookies of whoever logged in last.

## 5. Fairness

`Spec` is `Init /\ [][Next]_vars` everywhere; `Ingestion` has a `FairSpec`, and `Tab` a
`PolledSpec` and a `UsedSpec`.

`Ingestion` assumes weak fairness of

* `TaskStep(w)`: a child process that runs takes its next step. Every external call returns or
  raises; a step that waits for a row lock is not enabled, so nothing is assumed of it but that
  the holder goes on, and that Postgres detects a circle (`DeadlockDetected` is a step of the
  slot that it fails);
* `Deliver` to slot `w`: an idle slot of a consuming node is given some message, which
  is what Celery's consumer does with `worker_prefetch_multiplier = 1`;
* `ReclaimStep(n)`: the `worker_ready` handler runs to its end;
* `Boot(n)`: a worker that is down is started again. The compose file has no restart
  policy: this is the operator's or the supervisor's part, and without it no job could
  be promised anything.

Nothing is assumed of uploads (a browser may never finish), of faults, or of the success
of attempts: `EveryUploadSettles` holds because the number of attempts is limited, also
when every attempt fails. Weak fairness of delivery is enough in the run because one job
is in it; with several, one more assumption (strong fairness per message, Redis being
first-in first-out) would be needed, and is not made.

`Tab` assumes in both (`Answers`)

* strong fairness of `Serve(k)` and `Land(k)`: a query that is asked again and again is
  answered in the end. Weak fairness would be too little, because a fetch that fails, or a
  reload, takes the request away, and it is made anew; a single fetch may always fail.

`ProcessingEnds` needs, in `PolledSpec`,

* weak fairness of `Poll`: the timer of `refetchInterval` runs while the page is shown;
* that a pending document is settled (weak fairness of `Settle` of pending documents), which is
  what `EveryUploadSettles` is about. It is no more than that: an upload whose dispatch was lost
  stays `pending` in the code (section 4), and its row at Processing with it. Nothing is assumed
  of a delivery that writes a second verdict.

`ForeignFades` and `DeadSessionLeaves` need, in `UsedSpec`, that time goes by (`Age`) and the
user looks at the tab now and then (`Focus`). `team/page.tsx` and `["me"]` are not polled, so
that a tab that is never looked at may show for ever what it has; nothing in the code makes it
ask. Nothing is assumed of clicks, forms, or the calls of forms.

## 6. Proofs

`tlapm` checks every theorem to the last leaf. They assume the named assumptions of
the modules on the constants, and hold for any numbers of jobs, slots, nodes, chunks,
faults, tokens, users, requests, signups, turns, conversations, documents and pages. The
assumptions are that sizes are natural numbers, that `None` is not also a user, a token, an
answer or a fetch, and that the sets of things that are counted are finite (`ConstantsAssumption`,
`NoneAssumption`, `TurnsAssumption`, `ChatAssumption`, `TabAssumption`, and the like).

**`IngestionProofs`**

* `TypeCorrect`: `TypeOK` is inductive as it stands.
* `CitableCorrect` proves `CitableInv`, from which `NeverDuplicated`, `AlwaysBacked` and
  `ReadyCorrect` follow. The three invariants are not inductive alone: the upsert and
  the rows are two steps apart, so `UpsertedBeforeCommit` (a slot at its commit has stored
  every vector of its document) is needed, and it survives the other slots because
  vectors are only ever added. `CitableForGood` is the action property over the same steps.
* `NeverStranded` proves `StrandedOnlyByLoss` from `HandedInv`: unless a losing fault has
  happened, each open job is *held* by an upload handler, a message, a reclaim pass or a
  slot. The strengthening is in what counts as a slot: one whose session loaded a
  settled status (`Stale`) may finish without writing the status (the ORM skips an equal
  value) and so cannot be counted on. Such a slot only exists while another holder does.
* `WaitsCorrect` proves `WaitsEnd` from `LockInv`: the rows of a `DELETE` are held by a task on
  that document that is inside its transaction, only a commit under way, or one that failed and
  is about to roll back, has written anything (`flushed`), and who is blocked is blocked by a
  holder. The holder is never at a short transaction nor blocked itself: it took its locks by
  the `DELETE`, before which it had none, or in its commit. All the ways in which a transaction
  ends (commit, rollback, detected deadlock, the death of slot or node) hand the locks on. That
  a circle of commits is then ended is an action, and its consequence, that the job settles, is
  model-checked.

**`IngestionApartProofs`** has what holds as long as deliveries of one document do not overlap,
for any number of slots, nodes, jobs and faults. The hypothesis, `[]Apart`, is that no two slots
have a message of the same job, and that no node is about to reset the job of a task; with
overlap the theorems are false (`IngestionUnsettled`). It is not an assumption about code but the
line between what the code keeps and what it leaves to the broker's settings: the visibility
timeout, and not starting a second node while the first one works. Where no overlap is possible
it is proved (`SoloApart`: one slot on one node).

* `ApartCorrect` proves `StoryInv`: for each job, that its status, its document's and the chunk
  rows agree (`JobStory`); for each slot, that what it has read of its job is still what is there
  (`SlotStory`); for a node in its reclaim pass, that what it is about to reset was not settled
  meanwhile (`NodeStory`). `Apart` is used where two writers could meet, and nowhere else.
* `AgreeCorrect`, `RewoundCorrect`, `SettledCorrect` and `LifecycleCorrect`, the refinement of
  `DocumentLifecycle`, follow: the first from the invariant, the others from what a step shows
  of a job.
* `BootsCorrect` bounds the attempts on any number of nodes. `AttemptsWithinReclaims` is false
  there: every further node has a first boot, whose pass may reopen a job that a slot left behind
  elsewhere, and a pass that is cut short is run again. What holds is that a boot buys a job one
  attempt, for any boot but the very first. The invariant (`AttemptsPaid`) counts the boots that
  have done their reset as crashes of nodes, passes cut short, and nodes past their reset now.
* `AttemptsCorrect` is the sharper bound on one node (`OneNode`), of crashes alone: a pass that
  is cut short there buys nothing, since nobody attempts the job in the meantime.
* `SoloApart` and `SoloCorrect`: with one slot on one node all of that holds without hypothesis.

**`SessionsProofs`**

* `TableCorrect`: `TableInv` (types, soundness of the chains, and what a request
  that has read a row may rely on) is inductive under any number of concurrent requests;
  `ChainCorrect` follows, and `RevocationCorrect` (with at least one
  request) from the same invariant.
* What racing requests break is said by two state predicates, and the theorems hold for any
  number of concurrent requests as long as they do. `NoDoubleExchange`: no two requests are
  about to exchange the same token. `ReadsHold`: a token that is about to be exchanged is still
  unrevoked. `SingleUse` proves one live token per login from the first, although a login or a
  logout may race with anything; `ExchangesApart` is what makes it inductive. `LifecycleCorrect`,
  the refinement of `SessionLifecycle`, and `ClosedForGoodCorrect` need the second. The refinement
  maps a login to `SignIn`, a rotation to a stutter, a logout to `SignOut` and the two `UPDATE`s to
  `SignOutEverywhere`.
* `ReopeningTakesStaleRead` has no hypothesis: it is an action property of `Spec` that says that
  `ClosedForGood` fails in no other way than the one that `BffSignedOut` finds.
* `SerialSessions` discharges both predicates for requests that are served one at a time.

**`BffProofs`**

* `BffImplementsSessions`: `BffSpec => Spec`. A handler's call is a step of the endpoint it
  calls or, when it only asks for data or fails, none; so every theorem about `Sessions` holds
  behind the route handlers.
* `BffCorrect` proves `BffInv`, for any number of handlers at once and of lost responses: for
  each handler, that it is at a call that commits just when its request to the API is, and that
  the token it got from a renewal is not the one it sent (`HandlerOK`). `BffTypes` and the
  action property `RefusedCookiesCorrect` follow.
* The other theorems hold as long as the calls of one browser do not overlap (`[]OneEach`), while
  any number of browsers, of one user or of many, are served at once; `BffSignedOut` is what two
  calls of one browser do. `BrowsersCorrect` proves two invariants. `TokensApart`: a token is
  held by one browser, and by the handler that this browser has called; so no two requests
  present one token, which is `NoDoubleExchange`, and `BrowsersSingleUse` follows from
  `SingleUse`, lost responses or not. `LatestInv`: until a response is lost, browsers and
  handlers hold the last token of their session; a token that nothing replaced sets off no alarm,
  which gives `AlarmCorrect` and `JarCorrect`.
* `SerialBrowsers`: with one handler at a time, all of that and, through
  `BffImplementsSessions`, what `SerialSessions` says, without hypothesis.

**`ProvisioningProofs`**

* `Invariant`: for each stage of a signup, what it knows of the tables (`SignupKnows`), and
  of an add-member request, that its tenant is active (`JoinKnows`). `ActiveCorrect`,
  `AnswersCorrect` and `OwnershipCorrect` follow.
* `HalfDoneCorrect`: an address that is taken can log in, or its signup is between the commit of
  the admin and the activation, at work or dead (`OnlyHalfDoneLocksOut`, inductive with
  `Invariant`). `LockoutCorrect` is the action property that a dead one stays there. Together
  they say exactly when `FailureIsRetryable` fails and for how long.

**`ConversationsProofs`**

* `ConversationCorrect` proves `ConversationInv`: the types; that a running turn of a
  conversation is its owner's; that a conversation with a row has a saved turn; that what a
  turn was told are messages of saved turns of its conversation; and that a turn that has not
  begun was told nothing. `ConversationTypes`, `NoOrphanCorrect` and `PrivateCorrect`
  follow.
* `WholeTurnsCorrect` and `NoGapsCorrect` rest on one lemma, `HistoryTaken`: whatever order the
  tied messages come in, the last `2 * HistoryTurns` rows are the `LastTurns` of an order of the
  turns, question and answer of each together. That the limit is even is what makes it hold.
  `NextHasNoGaps` then shows that turns saved later do not open a gap: they end after the
  reader has begun.
* `InOrderCorrect` proves `HistoryInOrder`, which is `HistoryOldestFirst` but for the order of a
  question and its own answer.

**`ChatClientProofs`**

* `ChatImplementsConversations`: `ChatSpec => Spec`, so that every theorem above holds of the
  composition (`ChatHistoriesCorrect`).
* `ChatCorrect` proves `ChatInv`. For each key it has the data an entry may hold (`Good`: saved
  turns of the user of the tab in this conversation) and those that may count as fresh or be on
  their way (`Clean`: no turn twice). The two differ by the turn that `onSuccess` writes while
  the refetch may have brought it already; the invalidation right after it is what keeps such
  data from counting as fresh. `ShownCorrect` follows. `TwiceCorrect` is an action property over
  the same invariant: data with a turn twice are stale, so that whatever brings them on screen
  fetches them again (`RefreshFetches`), and a fetch that lands is clean.

**`TabProofs`**

* `TabCorrect` proves `TabInv`: the types; that of a document which a list does not have as
  pending the ingestion has ended, with whatever verdict by now (`ListOK`); that the answer on
  its way to an entry does not take a document back to pending that the entry has past it
  (`NoReversal`); and that a call the server has not answered has not been carried out
  (`CallOK`). `TableCorrect`, that the table never goes back to Processing, needs the second and
  third: a fetch in flight was answered after the data that are there, because a query fetches
  once at a time and nothing but a fetch writes the list. Verdicts that overlapping deliveries
  rewrite are part of it.

Only model-checked: the liveness properties `EveryUploadSettles`, `ProcessingEnds`,
`DeadSessionLeaves` and `ForeignFades`, which rest on fairness and so on `ENABLED`, outside
TLAPS's reach here. The theorems with a hypothesis are checked by TLC in instances where it
holds (`IngestionSolo`, `BffSerial`).

## 7. What is not modelled

* Text, numbers and cryptography: extraction, chunking, embedding, prompts, scores, JWTs,
  hashes, slugs. Their calls are steps that succeed or fail.
* `error_message`, `page_count`, timestamps of documents, and the rate limit of the task:
  no property depends on them.
* Reads of the API that change nothing are only modelled as answers to the client's queries.
* In `Sessions`, the access token: it stays valid until it expires, whatever becomes of its
  session, so `LogoutAll` has no guard on the refresh tokens of its caller. `Bff` has it.
* `updated_at` of a conversation, which sorts the list and nothing else.
* Engine setup, configuration, exception handlers, migrations (they run once, before the
  services start), schemas of requests.
* Chat retrieval beyond its success or failure: prompts, scores, the choice of citations. That
  its matches find their rows is a property of `Ingestion`'s stores.
* Of the client: layout, text, theme and the primitives of `components/ui`, the validation of
  forms before they are sent, a second file that is dropped while one is uploaded,
  citations and their styling.
* The cookies of a fetch that a reload or an invalidation has abandoned: the browser drops the
  request, but the server may have renewed the session for it, and then the response, if it still
  comes, sets cookies like the ones `Renewed` stands for.
* Of the browser and its libraries: the history (back and forward), Next's own cache of pages
  it has prefetched, the removal of entries of the query cache that nobody has used for five
  minutes (it can only lead to a fetch more), and a chat page that is left while a question is
  in flight.

## 8. Plan

1. *Done:* `Ingestion` with `DocumentLifecycle`, `Sessions` with `SessionLifecycle`,
   `Provisioning`, `Conversations`, `ChatClient`, `Tab` and `Bff` over `Sessions`, with their
   proofs.
2. **A chat page that is left** while a question is in flight, and several tabs of one browser,
   which share the cookies and not the cache.
