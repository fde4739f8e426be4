# Verification of the poetry assistant

TLA+ models of poetryAgent (FastAPI server `app/`, React client `frontend/`),
the TLC configurations that check them on small instances, and theorems about
them that TLAPS checks for every instance.

## 1. Inventory: the parts of the system

| Component | State | Operations | Correct when |
|---|---|---|---|
| Chat turns and approval (`app/api/routes.py`, `app/agent/graph.py`, `app/agent/human_loop.py`) | one handler per request; `_pending`: one turn per thread, in process memory, TTL 1 h | `POST /chat/stream`, `POST /chat`, `POST /chat/resume` | tools that wait for the user run once and only after the user's approval; a turn is answered and charged once; sequential turns are not lost |
| Sessions and messages (`app/api/session_routes.py`, `app/db/crud.py`, `useSessions.ts`, `AppLayout.tsx`) | rows of sessions and messages; the list on the page | create, rename, delete, store message, automatic title, list, search | a transcript has the question of every answer; a rename stands; the list is that of the search box |
| Agent checkpoint (`app/agent/checkpoint.py`, LangGraph saver) | messages per thread; Postgres, Redis or process memory | read, read-merge-write commit, delete, set-up and fallback, close | memory agrees with the transcript; one store is open at a time |
| Start-up and migrations (`app/main.py`, `app/db/database.py`, `alembic/`) | schema, child process, phase of the lifespan | migrate, open the checkpointer, warm up, serve, stop | a server that serves has its whole schema; one that fell comes back |
| Tool paths and ReAct loop (`graph.py`, `react_loop.py`) | one turn's messages, rounds, search budget | single round, bounded loop, fallback | budgets hold; every call has a result; the answer is told all of them |
| Quota and usage (`app/auth/quota.py`, `crud.py`, `admin_routes.py`) | usage rows of the day, limits | check before a turn, record after it, change a limit | the limit is passed by no more than what was in flight |
| Intent classification (`intent_rules.py`, `intent_classifier.py`) | none (pure) | match rules, fuse rule, suggestion and model, route | a contested question is not treated as a certain one |
| Poem context (`context_resolver.py`) | the titles in the checkpoint's messages | resolve and rewrite "this poem" | "this poem" is the poem of the conversation |
| Compound pipeline (`compound_pipeline.py`) | subtasks in a thread pool, shared retrieval cache | decompose, run in parallel, merge | the merge does not depend on the order of completion |
| Authentication (`app/auth/*`, `frontend/src/api/client.ts`) | refresh tokens in the database, tokens in the page | register, login, guest, refresh, logout | a token is exchanged once; nobody is signed out without a cause |
| Chat page (`frontend/src/hooks/useChatStream.ts`) | messages, card, phase, abort handle | send, stop, retry, resume, load | the page shows the session it is on; stop stops |
| Corpus and index (`corpus_routes.py`, `indexer.py`, `scripts/generate_corpus.py`) | files, rows, vector store, word index | upload, delete, rebuild, generate | every file kept can be found; rows tell the truth |
| Retriever (`app/rag/retriever.py`) | one call: two searches, the fused list | look up, search twice, fuse, filter, rerank | filters hold; a named poem is considered |
| Tools' texts, prompts' wording, vision, filters, observability, evaluation, deployment | no state the above depends on | | not modelled, see section 7 |

How they interact: a chat request passes authentication, the quota check and
the input filter; opens or creates its session; stores the question; reads the
thread's checkpoint; classifies and routes the turn; runs its tools or, if the
user asked to approve them, parks the turn in `_pending` and ends. A resume
takes the parked turn and goes on from there. The answer is streamed, committed
to the checkpoint, then stored as a message together with a usage row. A DELETE
removes the rows in one transaction and starts a background task that deletes
the checkpoint. All of this shares one event loop: code between two awaits (or
two yields of a streamed response) is atomic, and anything runs in between.

Hard behaviours: requests that share a session, the gap between the check and
the take of a pending turn, the background deletion, commits that read and
write back, restarts with and without a durable checkpointer, disconnects,
TTL expiry, row locks; in the page, callbacks of streams and answers that come
late; in a turn, two kinds of thread pools; beside the server, scripts on the
same files. PROJECT.json lists each hazard at its line.

## 2. Modules

| Module | What it is |
|---|---|
| `ToolApproval` | the abstract contract of approval: what happens to one turn's batch of deferred tool calls |
| `ChatTurns` | the core: endpoints, database, checkpoint, pending table, deletion, restart; its properties; the refinement mapping to `ToolApproval` |
| `ChatTurnsInv` | the inductive invariant, one named part per reason |
| `ChatTurnsProofs` | proofs of the inductive invariant, of the safety theorems, and that `ChatTurns` implements `ToolApproval` |
| `SessionList` | titles, renames of two tabs, the automatic title, the list and the search of a page |
| `Startup` | migration, choice of the checkpointer, serving, crash and restart |
| `Quota` | the daily quota of one tenant against the clock |
| `TokenRefresh` | token pairs over the tabs of a browser and the server's rows |
| `ChatPage` | the hooks of the chat page against streams, answers and clicks |
| `IntentRouting` | one question from its words to its path |
| `PoemContext` | which poem "this poem" is, over the turns of a session |
| `ReactLoop` | the tool rounds of one turn |
| `Compound` | the compound pipeline of one turn |
| `Retrieval` | one call of the retriever |
| `CorpusIndex` | files, rows and indexes of the corpus |
| `ServerProofs` | proofs about `Startup` and `CorpusIndex` |
| `AccountsProofs` | proofs about `Quota` and `TokenRefresh` |
| `RoutingProofs` | proofs about `ReactLoop`, `PoemContext` and `IntentRouting` |
| `AnswersProofs` | proofs about `Compound` and `Retrieval` |
| `ChatPageProofs` | proofs about `ChatPage` |
| `SessionListProofs` | proofs about `SessionList` |
| `Induction` | lemmas about the natural numbers that the proofs use: least and greatest numbers, induction over a set, recursive functions |
| `MCChatTurns` | symmetry and the instances of `ChatTurns` |
| `MCAccounts` | runs `Quota` and `TokenRefresh` |
| `MCBrowser` | runs `ChatPage` and `SessionList` |
| `MCServer` | runs `Startup` and `CorpusIndex` |
| `MCAnswers` | runs `Compound` and `Retrieval` |
| `MCRouting` | runs `IntentRouting`, `PoemContext` and `ReactLoop` |

The last five put components that share no state into one run. A variable `part`,
chosen in the initial state, says which of them runs; the others rest in an
initial state of theirs. The states of the parts add up instead of multiplying,
and a component can be run twice with different constants. The components are
extended, not instantiated, so that their properties are properties of the run
under the names the theorems use: they are checked in every part. So that two
modules can be extended together, all but one have definitions with names of
their own (`TokensInit`, `CorpusNext`, `PoemInit`, `IntentNext`,
`RetrievalInit`, `ListInit`; the tuples `tokens`, `corpus`, `poems`, `routing`,
`retrieval`, `list`). An instance is used only to run a component a second time
with other constants (`Many`, `Searching`, `Table`); the MC module states the
assumptions on them as an `ASSUME`. The same pairs and triples are the `EXTENDS` of
the proof modules.

`ChatTurns` is the composition: requests, rows, checkpoint, approval and
deletion share one state. The others refine a stage of it (`ReactLoop`,
`Compound`, `IntentRouting` and `Retrieval` are inside `Prepare`; `Quota` and
`TokenRefresh` decide `Reject`; `Startup` is what surrounds `Crash`;
`PoemContext` is what a lost commit means for the next question) or stand at its
border (`ChatPage`, `SessionList`, `CorpusIndex`). They keep of each other only
what they need, named in their header comments.

### How `ChatTurns` corresponds to the code

| State | Code |
|---|---|
| `row`, `del` | the session row; the open transaction of a DELETE (flushed, checkpoint scheduled, ended) |
| `said`, `replies`, `billed` | user message rows, assistant message rows, chat usage rows, named by their request |
| `memory`, `clear` | the turns in the thread's checkpoint; the task created by `clear_thread_checkpoint` |
| `pending` | `_pending` of `human_loop.py` |
| `pc`, `in`, `at`, `turn`, `path`, `snap` | locals of a handler: stage, input, session, the turn it answers (its own, or the one a resume took), the route, what the commit has read |
| `runs`, `verdict` | how often a turn's tool calls ran and the decision applied to it |
| `overlap`, `erased` | observers the code does not have: requests that met another actor on their session; turns that a deletion or a restart took out of memory |

| Stage | Left by | Code |
|---|---|---|
| arrived | `OpenSession`, `OpenSession404`, `OpenResume`, `OpenResume404`, `Reject` | `chat`, `chat_stream`, `chat_resume` up to the session check |
| opened | `SaveUser` | `add_message`, `auto_title_from_message`, commit |
| asked | `Prepare`, `PrepareRaises` | `prepare_agent` and the interrupt branch of its callers; in `POST /chat` also `_collect_stream`, all in one synchronous stretch after the thread is read |
| resuming, popped | `PopPending`, `PopNothing`, `Decide` | `_resume_hitl_stream`: the take, the first yield, `apply_hitl_tool_decision` |
| prepared | `StreamAnswer` | `stream_final_answer` |
| drafted, merging | `CommitRead`, `CommitWrite` | `commit_agent_state`: LangGraph's `aupdate_state` reads the newest checkpoint and puts a successor |
| remembered | `SaveReply` | assistant message, usage row, commit |
| any | `Abort` | an exception, or the cancelled task of a closed connection |

`DeleteFlush`, `ScheduleClear`, `DeleteCommit`, `DeleteRollback`, `ClearMemory`
are the DELETE endpoint: `get_db` commits only when the handler has returned, so
the background task can run before the commit. `Expire` is the TTL, `Crash` a
restart of the process.

Routes (`Path`) keep what the properties tell apart. "answer" is chat or
retrieval, no tools. "auto" is the compound pipeline and the low-confidence
ReAct fallback: tools run and nobody is asked. "legacy" is the single round of
tool calls, the one place that honours `defer_tools`. "react" is the ReAct loop
of a tool intent, which ignores it. Which route a message takes and whether the
model proposes tool calls is a free choice.

Abstracted: contents of messages, answers and checkpoints (a turn is in the
memory or not); titles and time stamps; the messages of earlier turns as inputs
of the model. A second background deletion that is scheduled for a session
while one is still waiting (two DELETEs, the first rolled back) is merged with
it. A refusal by authentication, quota, rate limit or filter is
`Reject`. LangGraph and the database are modelled from how the code uses them.

### How the other modules correspond to the code

**`SessionList`.** `title`, `locked` and `turn` are the rows and the open
transactions of `crud.py`; `shown`, `query`, `timer`, `lists` are `useSessions`
and the search box of `SessionSidebar`. `ReadSession`, `AddMessage`,
`CommitQuestion` are the start of `chat_stream`, with the automatic title;
`ReadTitle`, `FlushRename`, `CommitRename` the PATCH endpoint. A rename to the
title the request has read is not written, as in the ORM. Whether a request is
committed before or after its answer is sent depends on the version of FastAPI;
both orders are always possible. Two observers are added: `late`, the sessions
renamed after their turn has read the title, and `overlapped`, that something
happened while an answer was on its way or in another tab. Creation and deletion
are single steps here.

**`Startup`.** `phase` is where `lifespan` is, `version` and `tables` the schema,
`step` what the alembic child has created, `cm`, `saver`, `backend` the globals of
`checkpoint.py`, `open` the contexts that were entered. The version table itself
is created by alembic. When `DATABASE_URL` names a SQLite file, `init_db` reads
another setting; that configuration is not documented and not modelled.

**`Quota`.** `RequireQuota` is the check in its own transaction, `RecordUsage` and
`CommitUsage` the row after the answer, `Tick` the UTC clock, `Offset` the server's
time zone.

**`TokenRefresh`.** A pair of tokens is a number: the page stores and removes both
together. `Send` to `Receive...` are `request`, `fetchStream` and
`refreshAccessToken`; `RefreshRead` and `RefreshCommit` the two halves of the
refresh endpoint; `Expire`, `Disable`, `Break` and `RefreshFails` what may happen
meanwhile. A call that breaks, or is answered with an error, throws and leaves the
tokens where they are, unless the page was loading or logging out; a refresh that is
answered with any error, a 5xx or 429 too, signs the page out (`client.ts:26`). The
shared promise of `getValidToken` is not a state of its own: both tokens are always
stored together, so its condition (a refresh token without an access token) does
not arise.

**`ChatPage`.** One variable per state or ref of `useChatStream`; `stream` is a
fetch and what it still may deliver; `loads`, `creating`, `deleting` are calls in
flight with the values their closures captured. A question, its two messages
and its stream share one number. The user may click at any time and `getSession`
may fail; the observers `hasty` and `missed` note a click while an answer was
awaited (Stop excepted) and such a failure, and properties that need a patient
user say so with them.

**`IntentRouting`.** A question is the set of keyword classes that the rules test;
the table of `intent_rules.py` is a set of records with its priorities and
confidences. Confidences are integers in ten-thousandths, products included. A
question is either asked as a whole (single mode, nothing is suggested) or is a part
of a decomposed message (`compound`, a suggestion comes with it). `Route` chooses by
intent, source and confidence in the first case only. Of a message with one part
left the intent is handed on and nothing else (`HandedOn`, `graph.py:759-767`), and
parts of several intents run in parallel whatever their confidence; `refers` is then
about the whole message, so it is free.

**`PoemContext`.** `turns` are the questions the page shows, each with the poem it
was given and its fate (working, waiting for approval, kept, lost); `memory` are
the titles of the messages in the checkpoint; the observer `order` are the turns
as they were committed, which an approval that comes late makes another order than
that of the questions. The search in tool messages is left out: no commit stores
one. An answer names the poem it is about first or none. A title without marks
before "this poem" is left out: the code reads only marked titles, and no doc says
which poem is meant.

**`ReactLoop`.** `rounds` are the answers of the model with calls and results,
`remaining` and `contexts` the `_RagBudget`, `told` what `tool_result` is made of.

**`Compound`.** `task` are the futures, `cache` is `rag_cache`, `LookUp`,
`Retrieve`, `ReadCache` the three accesses to it between which other threads run.

**`Retrieval`.** A library is two sequences of files: those on disk, in which a
named poem is looked up and from which the word index is made, and those the
vector store was ever given, copies and old versions included; a file has a title,
its metadata and its chunks. Both searches may rank what they may return in any
order; ranks, reciprocal scores, filters, the shortcut for a named poem and the
cut to the places of the reply are those of the code. Profiles and settings are
constants. Scores are compared as fractions with a common denominator, so ties
are exact.

**`CorpusIndex`.** Each text written is a version; `copies` counts its entries in
the vector store, `words` is the word index of the running server, `script` the
generating script in its own process. The lifespan loads a store whose directory is
not empty (`indexer.py:17`); what a build that raised left in it need not be an
entry, so with no entries a start may load the store or build it.

## 3. Runs

| Run | Instance | Shows |
|---|---|---|
| `approval` | `ChatTurns`, 3 requests, 1 session, stream, approval on | `ToolsRunAtMostOnce`, `DeferredToolsNeedApproval`, `TurnAnsweredOnce`, and the refinement `ApprovalContract` |
| `memory` | 3 requests, 1 session that is deleted, approval off | `RepliesAreRemembered`, `OrphanMemoryNeedsOverlap`, `AnswersHaveQuestions` |
| `restart` | 2 requests over both chat endpoints, 2 sessions, one deletable, 1 restart, in-memory checkpointer | `Inductive` (the whole invariant of the proofs) and `PendingTurnIsOpen` |
| `live` | 2 requests, 1 session that is deleted, fairness | `Settles` |
| `react`, `shown`, `orphan` | 2 or 3 requests | violated, see section 4 |
| `accounts` | `Quota`: 3 requests of both actions, limits 1 and 2, a day of 2 ticks, 1 change of day; `TokenRefresh`: 3 calls of 2 tabs, once with refreshes and logouts and 3 pairs, once with guests and 2 pairs | `OvershootBounded`; `OneLiveTokenPerSignIn`, `LogoutEndsSignIn` and the action property `SignOutExplained` |
| `browser` | `ChatPage`: any user, also when `getSession` fails, with 2 streams, or one and a selected session; a user who waits and whose sessions load, with 4 streams, or 3 and a second selection. `SessionList`: 2 sessions in one tab with 2 renames, 2 searches and 4 lists; two tabs on one session | `PageShowsActiveSession`, `AnswerUnderItsQuestion`, `StopStops`, the liveness `PageBecomesReady`, `CompleteAndCurrent`, the action property `RenameStands`, and `PageInv`, the whole inductive invariant of the page, with `StreamingMeansWork`, `DecidedAsShown` and `RepeatedInItsSession` in it |
| `server` | `Startup` on Postgres and on a SQLite file: 3 tables with the users table second, 4 faults, 3 turns; `CorpusIndex`: 3 names, 3 versions, once with 3 rebuilds and 2 crashes or failed commits, once beside the script with 2 rebuilds | `OneSaverOpen`, `ServesCompleteSchema`, the liveness `ServerReturns`; `EveryFileIsFound`, `RowsTellTheTruth`, `WrittenThenIndexed` |
| `answers` | `Compound`: 3 parts of any of 3 intents and 4 parts of few, 2 threads, 2 documents; `Retrieval` on 4 libraries of up to 3 files, one of two chunks (a fresh index, copies after a rebuild, a poem deleted from disk, a file replaced), padded and plain filters, every ranking | `PartsComeTogether`, `SourcesInQuestionOrder`, `RetrievalsPerText`, the liveness `TurnIsPrepared`; `FilterHonoured`, `NamedPoemIsConsidered`, and in `RepliesFit` the properties `NoPoemTwice`, `NeverEmptyHanded`, `BothListsWin` |
| `routing` | `ReactLoop`: 3 rounds with 2 searches and 2 calls, and 2 rounds with up to 2 hits; `IntentRouting`: the whole table of 36 keyword classes, up to 4 in a question, and 14 classes with suggestions at and around the thresholds; `PoemContext`: 4 questions, 2 poems | `EveryCallIsAnswered`, `SearchesWithinBudget`, `SourcesOnce`, `AnswerSeesAllResults`; in `ReactWhenInDoubt` the routing properties; `ReferencesKeepToThePoem` |

Deadlock is not checked: clients may stop, and an instance ends at its bounds.

Bounds. Each request, call, stream and question is used once; `Max...` constants
bound counters in guards. Why they are enough:

- `ChatTurns`: three requests on one thread suffice for the races over a pending
  turn (one that asks, two that resume or replace it). A lost commit needs a
  turn that ended, one that reads before and writes after another: three. A
  restart ends every request at work, so two requests around one restart give a
  turn that asked before it and a request that comes after it.
- `Quota`: three requests pass a limit of one or two together, and one can be
  checked on one day and recorded on the next. `TokenRefresh`: two calls race for
  one refresh token; a third comes when the winner has stored its successor.
- `ChatPage`: two streams are the one that is stopped and the one sent next; a
  decision, a failure and a repetition need a third and a fourth. A load that is
  answered after the user has gone on, or not at all, needs one selection; going
  to another session and back two. `SessionList`: two renames and two lists can be
  answered in either order.
- `Startup`: with four faults each store can fail, the migration die, the
  warm-up raise, and a last start run through. `CorpusIndex`: a file replaced,
  one removed and one left alone are three names; with two mishaps a commit fails
  and the server crashes before the next rebuild, and of three rebuilds one
  raises, one succeeds and one repeats it.
- `Compound`: with two threads and three parts one part waits for a thread and
  finds an entry written by another. `Retrieval`: two documents compete, a third
  fills a place. `ReactLoop`: a budget of two is used up within a round and
  between rounds.

The proofs of section 5 remove the bounds where a theorem is listed.

Fairness. `ChatTurns` (`Fairness`): the event loop runs every task that is ready,
and calls to the model and the database return or raise, so every step the
server takes for a request is fair. The fairness is strong because a request
that stores a message waits for the row of its session while a DELETE holds it,
and the database serves those who wait in turn: a request is not overtaken for
ever by DELETEs that roll back. An open DELETE ends and a scheduled task runs:
weak fairness. `ChatPage`: the server ends every stream with a last event or the
connection breaks (`Ending`). `Startup`: a process that stopped is started again
(`restart: unless-stopped` in the compose file) and a start runs on, returns or
raises (`StartStep`); faults are bounded. `Compound`: threads keep running and
retrievals return or raise. Users, failures, the TTL and restarts are not fair.

Symmetry is used among interchangeable values only (requests; tabs; sessions of
the same kind), and in no run with a liveness property.

Every property of a passing run has a mutant in PROJECT.json: a small change of a
definition, of the kind a bug in its code would be, under which TLC finds the
property violated in the same run.

## 4. Promises that do not hold

### Shown by a run

- `react`: with approval requested, a tool intent that is routed to the ReAct
  loop (low confidence, or a question that refers to an earlier poem) executes
  its tools, and `_pending_tool_calls` then finds the executed calls among the
  messages and asks for their approval. `human_loop.py:1` promises the opposite
  order and `docs/project-notes.md:1269` says this path is not interrupted.
- `shown`: `_pending` has one entry per thread, a newer turn overwrites it, and
  `POST /chat/resume` does not say which interrupt it answers. An approval given
  for the calls one page shows can execute the calls of another turn.
- `orphan`: a turn in flight during a DELETE commits after the background task
  has deleted the checkpoint; the deleted session keeps a memory.

### Stated in a module, without a run

Each was refuted by TLC with the constants, or in the situation, named; the runs
above assume the other value or check the property that does hold.

| Property | Constants | What happens |
|---|---|---|
| `Quota!DailyLimitKept` | `Offset = 1` | `crud.py:22`: the start of today is the local date's midnight labelled as UTC; ahead of UTC nothing counts between local and UTC midnight, and the limit of `crud.py:183` is not enforced. The containers set no time zone |
| `TokenRefresh!SignedOutOnlyIfExpired` | 2 calls | `client.ts:69`: every call that meets a 401 refreshes on its own, the server accepts a token once, and the loser clears the tokens the winner has stored: "登录已过期" although it has not. So says `client.ts:26` after one refresh that is answered 5xx or 429 |
| `ChatPage!CardCanBeAnswered` | `hasty`: 3 streams, 1 load | `useChatStream.ts:51`: `stop` leaves `hitlLoading` set when a decision is streamed and the session was loaded again; the buttons of the next card stay disabled |
| `SessionList!SearchIsShown` | `overlapped`: the user types while an answer streams | `AppLayout.tsx:93`: the refresh after a turn uses the search of the render in which it was sent; what was typed while it streamed stays in the box over a list that ignores it |
| `IntentRouting!EveryConflictReachesReact` | as in `routing` | `react_loop.py:188`: a contest won by a retrieval rule keeps its lowered confidence but has no second chance, unlike `intent_rules.py:217` says; nor does any contested part of a decomposed message (`graph.py:762`, next row) |
| `Compound!LowConfidenceIsHandedOn` | 2 parts | `graph.py:762`: a question that collapses to one part keeps the intent and loses its confidence; `interview-highlights.md:26` says low confidence leads to ReAct |
| `ReactLoop!PoemReachesAnswer` | `MaxPrior = 2` | `graph.py:840`: the answer of a tool turn is written from the tools' texts alone; the poem resolved from the history (`project-notes.md:524`) reaches it only if a tool returned it |
| `PoemContext!ThisPoemIsThePreviousOne` | 2 questions | `context_resolver.py:89`: a stopped or failed turn is shown but not in the checkpoint; "this poem" is then an older one than `interview-highlights.md:29` says |
| `Retrieval!FilterHonoured` without its premises | a padded filter, or the library with the replaced file | `retriever.py:373`: a filter with spaces around it is stripped for one search only, rejects everything, and is dropped; `retriever.py:162`: an old chunk of a replaced file is found, and the new text in its place is rejected the same way |
| `CorpusIndex!RebuildIsDone` | `Scripts = TRUE` | `generate_corpus.py:111`: the index is rebuilt only if this run wrote a poem; running again after a failed rebuild rebuilds nothing and exits with 0 (`corpus-management.md:61`) |
| `Startup!ServerComesBack` | `Sqlite = TRUE` | `database.py:115`: a migration of a SQLite file that dies between two tables leaves them without a version; every later start fails at the first of them (`getting-started.md:140`) |
| `Startup!LatestTurnIsRemembered` | `MaxTurns = 3` | `checkpoint.py:67`: every start chooses its store anew; after one start on Redis between two on Postgres the agent goes on from an older snapshot (`project-notes.md:1031`) |

### Limits of what does hold

- `PageShowsActiveSession`, `DecidedAsShown`, `AnswerUnderItsQuestion` and
  `RepeatedInItsSession` hold for a user who waits for an answer before the next
  click and whose sessions could be loaded (`Undisturbed`), `StopStops` for one
  who waits, `CompleteAndCurrent` while nothing overlapped. A hasty user, or a
  `getSession` that failed, can mix sessions for a moment.
- `RenameStands`: a rename committed between a turn's reading of the title and its
  writing is replaced by the automatic title; no other one is (`late`).
- `ReferencesKeepToThePoem` is about turns committed in the order of their
  questions; see the last point of this list for the other case.
- A logout whose access token has expired refreshes first; it revokes the token
  the page held, and the successor stays live until it expires. So does a refresh
  whose answer was lost and that the server commits after the logout was sent:
  `LogoutEndsSignIn` excludes both, and two refreshes with one token.
- The last rebuild of a script covers every poem on disk only if it wrote one
  itself and no crash cut an upload short between its file and its rebuild
  (`WrittenThenIndexed`).
- Deleted poems stay in the vector store, and uploads are not in the word index of
  a running server, until a restart or a fresh index. A crash after a file was
  unlinked, or a failed commit, leaves a row "indexed" without a file. With the
  last file gone the server does not start (`BM25Okapi` divides by the number of
  texts).
- A late approval whose answer names no poem, and a part of a compound question
  that says "this poem", are resolved against earlier turns.

## 5. What is proved

TLAPS checks these for every value of the constants that satisfies the named
assumptions of the module.

| Theorem | States |
|---|---|
| `ChatTurnsProofs!InductiveInvariant` | `Spec => []Inductive` |
| `ChatTurnsProofs!TypeCorrect` | types |
| `ChatTurnsProofs!ToolsRunOnce` | `ToolsRunAtMostOnce` |
| `ChatTurnsProofs!ApprovalBeforeTools` | `DeferredToolsNeedApproval` |
| `ChatTurnsProofs!AnsweredOnce` | `TurnAnsweredOnce` |
| `ChatTurnsProofs!PendingIsOpen` | `PendingTurnIsOpen` |
| `ChatTurnsProofs!QuestionsStay` | `AnswersHaveQuestions` |
| `ChatTurnsProofs!SequentialUseRemembers` | `RepliesAreRemembered` |
| `ChatTurnsProofs!OrphansAreOverlaps` | `OrphanMemoryNeedsOverlap` |
| `ChatTurnsProofs!ApprovalImplemented` | `Spec => Approval!Spec` |
| `AccountsProofs!QuotaOvershoot` | `OvershootBounded`, given `Offset = 0` |
| `AccountsProofs!TokensAreConsistent` | `TokensSpec => []TokenInv` |
| `AccountsProofs!RotationLeavesOneToken` | `OneLiveTokenPerSignIn` |
| `AccountsProofs!StoredTokenStaysLive` | `StoredTokenIsLive` |
| `AccountsProofs!LogoutRevokesTheSignIn` | `LogoutEndsSignIn` |
| `AccountsProofs!NobodyIsSignedOutWithoutCause` | the action property `SignOutExplained` |
| `ServerProofs!CorpusIsConsistent`, `CorpusIsTyped` | `CorpusSpec => []CorpusInv`; types |
| `ServerProofs!FilesAreFound` | `EveryFileIsFound` |
| `ServerProofs!RowsAreTrue` | `RowsTellTheTruth` |
| `ServerProofs!RebuildsCoverThePoems` | `WrittenThenIndexed` |
| `AnswersProofs!PoolInvariant`, `RetrievalsBounded` | `Spec => []PoolInv`; `RetrievalsPerText` |
| `AnswersProofs!PartsAreTogether` | `PartsComeTogether` |
| `AnswersProofs!SourcesKeepTheOrder` | `SourcesInQuestionOrder` |
| `RoutingProofs!BudgetIsKept` | `SearchesWithinBudget` |
| `RoutingProofs!CallsAreAnswered` | `EveryCallIsAnswered` |
| `RoutingProofs!SourcesComeOnce` | `SourcesOnce` |
| `RoutingProofs!AnswerIsGivenAll` | `AnswerSeesAllResults` |
| `ServerProofs!SchemaIsComplete` | `ServesCompleteSchema` |
| `ServerProofs!OneSaverIsOpen` | `OneSaverOpen` |
| `ChatPageProofs!PageInvariant` | `Spec => []PageInv` |
| `ChatPageProofs!ShowsActiveSession` | `PageShowsActiveSession` |
| `ChatPageProofs!DecisionIsForTheCard` | `DecidedAsShown` |
| `ChatPageProofs!AnswersAreBelowTheirQuestions` | `AnswerUnderItsQuestion` |
| `ChatPageProofs!RetryStaysInItsSession` | `RepeatedInItsSession` |
| `ChatPageProofs!StopStopsTheStream` | `StopStops` |
| `SessionListProofs!RenameInvariant` | `ListSpec => []RenameInv` |
| `SessionListProofs!RenamesStand` | the action property `RenameStands` |
| `SessionListProofs!ListInvariant` | `ListSpec => []ListInv` |
| `SessionListProofs!PageIsCurrent` | `CompleteAndCurrent` |
| `RoutingProofs!PoemInvariant` | `PoemSpec => []PoemInv` |
| `RoutingProofs!ReferencesKept` | `ReferencesKeepToThePoem` |
| `RoutingProofs!RoutingTypes` | `IntentSpec => []IntentTypeOK` |
| `RoutingProofs!DoubtReachesReact` | `ReactWhenInDoubt` |
| `AnswersProofs!RetrievalInvariant` | `RetrievalSpec => []RetrievalInv` |
| `AnswersProofs!RepliesAreFit` | `RepliesFit` |
| `AnswersProofs!WantedIsServed` | `FilterHonoured` |
| `AnswersProofs!NamedIsConsidered` | `NamedPoemIsConsidered` |

**`ChatTurns`**, for every set of requests and sessions, any `Kinds`, `Deletable`,
`MaxCrashes`, both settings of `HitlEnabled` and `Durable`. None of the properties
is inductive. That tools run once and a turn is answered once rests on who may
hold a turn: `PendingOK` (the table holds open, undecided turns of its own thread
that nobody has taken) and `HoldersOK` (a resume holds a turn that stopped for
approval, and no two resumes hold the same). Both follow from the take being one
atomic step, not from the earlier check, which may be stale. `RoutesOK` and
`RunsOK` tie tool runs to the route and the decision: a deferred batch has run
zero times until an approval adds its only run. That questions are never missing
rests on `RowsOK`: in a live session every turn that was routed has stored its
question, because nothing brings a deleted session back. That a sequential turn
is remembered rests on `RemembersOK`: from its commit on, a turn that met nobody
is in the memory and in the snapshot of every commit that may still overwrite it,
because `OverlapOK` marks every pair of requests that meet. `OrphansOK` and
`CaughtOK` do the same for deletions. `StagesOK` gives a request that writes a
session and a turn; types depend on it.

The refinement maps a turn to the phase of its deferred batch: open, waiting (in
the table or taken by a resume), approved, refused or dropped. Preparing a turn
is `RunUnasked` or `Ask`, deciding is `Approve` or `Refuse`, everything that lets
go of a held turn (expiry, a lost connection, a newer turn, a restart) is `Drop`,
and every other step leaves the phases alone.

**`Quota`.** The rows of a day are not inductive. `Claims` are the requests that
have a row of the day or, being at work today, may still get one; the invariant
bounds their number. Only an admission adds to them, and it finds fewer rows than
the limit; whoever is a claim without a row is in flight, and `peak` is the most
that were in flight together. Facts about days and sizes of sets are lemmas.

**`TokenRefresh`**, for any calls, tabs and kinds of calls and any number of
pairs. A refresh has two halves, so a token can be traded after it was revoked: a
token is *claimed* while it is live or a refresh that found it live goes on
(`Claimed`). `TokenInv` follows tokens on their way. `CallsFit` and
`NewPairsAreFresh` say what each call carries and that a new pair is known to
nobody but the call that brings it. `OneUser`: without a race a refresh token has
one user, so a sign-in has one claimed token, and a refresh hands the claim on to
its successor; this gives the rotation. `PageHasTheToken`: when no answer was lost
either, the claimed token is the one the page stores or is on its way to it, so the
token a logout names is the only one it has to revoke. `Undisturbed` is
what a page may rely on until something happens that can end a session; with it
`StoredTokenIsLive` is inductive, and a page that forgets its token has a cause.
The race and the lost answer are exemptions the code needs: with four calls TLC
finds a logout that overtakes a lost refresh. A refresh that is answered with an
error is lost in this sense too, and an outage. A broken or failing call of any other
kind is no cause, except while a page is loading, and is proved to sign nobody out.

**`CorpusIndex`**, for any names and bounds, with and without scripts, crashes and
failed commits. A rebuild adds the texts on disk to the store and removes nothing,
so an entry, once there, stays. `TextsFit` keeps versions apart (a text is written
once, so two names never hold the same one), and `CopiesAreCounted` bounds the
entries of a text. `StagesFit` says how far an upload or a deletion has come: what
is on disk, in the row and in the store between the write, the rebuild and the
commit, as long as no crash and no failed commit came between; `RowsTellTheTruth`
follows. `EveryFileIsFound` and `WrittenThenIndexed` hold in spite of both and are
inductive with `TextsFit`.

**`Compound`.** `PoolInvariant`: for each text, retrievals counted plus those
running are at most the threads of the pool, and none is counted while the text
has no entry in the cache. Every thread that starts a retrieval has found the
entry missing, so it started before the first one was written. `MergeInv` ties the
merged state to the subtasks; the order of the threads (`ended`) does not occur in
it. That the sources stand in the order of the question, each once, is a fact about
`Firsts` and `FlattenSeq`: `FlattenStepByStep` unfolds the recursion of the library
one part at a time, `WhatStandsWhere` gives the part and the rank of the hit at
each position, and `MergedInOrder` compares two of them.

**`ReactLoop`.** The budget left is a natural number that every retrieval lowers
before it begins. Results are appended one for each call, in order, and the model
is asked again only after the last call of a round: the invariant relates the
length of the results to the position in the calls of the running round. `Gathered`
says that the hits of every round are among the sources and that the answer was
told the results of all rounds. `SourcesOnce` and `AnswerSeesAllResults` then are
facts about two folds, `FirstOfEach` and `ResultsOf`, unfolded step by step.

**`ChatPage`**, for any sessions and any number of streams and selections. For
every user `PageInv` has the types, `NumbersFit` and `StreamingMeansWork`: stale
callbacks set the flags of newer streams, but never those of a page without one.
The rest is about one who waits. `OneAtATime`: a click is possible only when nothing
is in flight and begins one thing. `StreamInHand`: the stream in flight is the one
`abortRef` holds, the page is streaming, and card, target and question to repeat are
those of that stream. Without it nothing says that a stop reaches the stream, or
that a decision goes to the turn of the card. `PageAtSession` ties messages, card
and failed question to the active session, but while another one is being loaded;
it needs that every load was answered, since a failed one leaves the old messages
under the new session. `StopStops` does not. The steps change many variables at
once: what each does to the streams, the messages and the flags is a lemma of its
own, used in place of the step.

**`SessionList`**, for any sessions, titles and bounds. `RenameStands` needs to know
that a turn or a rename between flush and commit holds its row, alone (`RowsHeld`),
and that a turn about to write over a title of the user's read it before the rename
(`ReadBefore`). `CompleteAndCurrent` speaks of the moments at which all is answered;
its invariant `Orderly` says what is true before. While nothing overlaps one request
is out (`OneRequest`), a list on its way is the one for the text in the box
(`ListComing`), a rename brings its title to the row and then to the page
(`RenameComing`), and titles are wrong or sessions missing on the page only while an
answer that will correct it is due (`TitlesShown`, `NoneMissing`).

**`PoemContext`**, for any titles and numbers of questions. `OneOpen` and
`OrderIsOfKept` say which turns may still be committed; `UsedIsMeant` that an open
turn which says "this poem" still has the newest poem of the memory unless a later
one was committed. The memory grows by a question and an answer, and `Newest` of
the longer sequence is the new title or the old one.

**`IntentRouting`**, for every set of words, all suggestions, confidences and
settings. The invariant says that each step has computed its function of the
question, and `Routed` what the choice was made from. The theorem is then about three
functions of three files: without a suggestion a contested rule leaves the fusion
below `REACT_THRESHOLD` and every other rule with 7500 or more; with one, a rule that
is not contested and more than a title keeps its intent against every suggestion; and
the order of the table decides between a request to write and a question about a poem.

**`Retrieval`**, for any libraries, questions, filters, profiles and settings. Each
stage is tied to what it was made from: `SearchInv` says what a search may have
returned, `FusedInv` that the fused list has each file once, files of both lists
before those of one, a named poem behind none but other named ones, and only what
passes the filter where that can be had, and `ReplyInv` that the reply is cut from
it. That positions in a sorted set grow with the order, and that
a file of both lists has more points than one of a single list, are lemmas. The
premises of `FilterHonoured` are the ones the code needs (section 4).

**Induction over data.** The induction theorems of the library take an operator
and cannot be instantiated here. `Induction` states what is needed about sets and
functions instead: a set of natural numbers has a least member, and a greatest if it
is bounded, a set with 0 and
every successor holds all numbers, and a function defined by recursion on the
length satisfies its equations. With these the folds above are unfolded.

**`Startup`.** Alembic creates the version table before the first table and writes
the version after the last, so a schema without a version table is empty or
complete, which is what stamping a legacy schema relies on (`SchemaInv`); the
checkpointer is opened only after the migration ended well. A context is open
only for the store that is in use or is being set up, and what fails is closed
before the next one is tried (`SaverInv`).

Only model-checked:

- liveness (`Settles`, `PageBecomesReady`, `ServerReturns`, `TurnIsPrepared`), out
  of the prover's reach;
- the three violations, which are counterexamples.

Every invariant and every action property of a passing run, and the refinement, is
stated by a theorem.

## 6. What could follow

1. `ChatPage` composed with `ChatTurns`: the page's streams are then requests of
   the server and the card is the entry of `_pending`, which would show the
   violation `shown` from the user's click on.
2. A second worker process: `_pending`, the cached retriever and the in-memory
   checkpointer are per process. The compose file starts one.

## 7. Not modelled, and why

- Prompts, tools' look-ups in texts and tables, meter and author texts, image
  descriptions and the wording of the model's answers: data the control does not
  depend on. The call that describes an image precedes the turn; its failure is
  `Abort` or `Reject`.
- Embeddings, word scores and the reranker: `Retrieval` takes every order of the
  candidates instead.
- Password hashing, roles and tenants, the regular expressions of the input filter
  and the counters of the rate limiter (an external library): pure tests whose
  refusal is `Reject`.
- Logging, tracing, metrics, alerts, health probes and headers: nothing that is
  modelled reads what they write.
- Evaluation and deployment scripts, UI components without state and the corpus
  files: outside the running system.
