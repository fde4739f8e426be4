----------------------------- MODULE ChatTurns -----------------------------
(***************************************************************************)
(* Chat turns of the poetry assistant: the requests POST /chat/stream,     *)
(* POST /chat, POST /chat/resume and DELETE /sessions/{id} of one server   *)
(* process, over the state they share:                                     *)
(*   - the session rows, message rows and usage rows of the database;      *)
(*   - the LangGraph checkpoint of each thread (thread id = session id),   *)
(*     which is the memory the agent reads back in later turns;            *)
(*   - the in-process table of turns waiting for a tool approval.          *)
(* The server is one event loop.  An action is the code between two awaits *)
(* (or two yields of a streamed response); anything may run in between.    *)
(* A message is identified with the request that asked the question.      *)
(***************************************************************************)
EXTENDS Naturals, FiniteSets

CONSTANTS
  Req,         \* requests; each is one call of one endpoint
  Session,     \* session ids that may be handed out
  None,        \* no request / no session
  HitlEnabled, \* settings.human_in_loop_enabled
  Durable,     \* the checkpointer survives a restart (Postgres, Redis)
  Kinds,       \* bound: the chat endpoints in use, a subset of ChatKind
  Deletable,   \* bound: the sessions some client deletes
  MaxCrashes   \* bound: restarts of the process

ASSUME NoneAssumption == None \notin Req \cup Session
ASSUME SettingsAssumption == HitlEnabled \in BOOLEAN /\ Durable \in BOOLEAN
ASSUME BoundAssumption == /\ Kinds \subseteq {"stream", "plain"}
                          /\ Deletable \subseteq Session
                          /\ MaxCrashes \in Nat

VARIABLES
  \* database
  row,      \* Session -> state of the session row
  del,      \* Session -> progress of the open DELETE transaction
  said,     \* requests whose user message row exists
  replies,  \* requests that wrote an assistant message row which exists
  billed,   \* requests that wrote a chat usage row
  \* agent memory
  memory,   \* Session -> turns in the thread's checkpoint
  clear,    \* Session -> the background task that deletes the checkpoint
  \* process memory
  pending,  \* Session -> turn waiting for approval, or None
  \* one request
  pc,       \* where the handler is
  in,       \* what the client sent
  at,       \* its session
  turn,     \* the turn it answers
  path,     \* how the turn was routed
  snap,     \* the checkpoint its commit started from
  \* one turn
  runs,     \* how often its batch of tool calls was executed
  verdict,  \* the decision applied to it
  crashes,
  \* observers: the code has no such state
  overlap,  \* requests that shared their session with another actor
  erased    \* turns whose memory a deletion or a restart took away

dbVars    == <<row, del, said, replies, billed>>
memVars   == <<memory, clear>>
reqVars   == <<at, turn, path, snap>>
turnVars  == <<runs, verdict>>
obsVars   == <<overlap, erased>>
vars == <<row, del, said, replies, billed, memory, clear, pending, pc, in, at,
          turn, path, snap, runs, verdict, crashes, overlap, erased>>

-----------------------------------------------------------------------------
(* Types *)

ChatKind == {"stream", "plain"}      \* POST /chat/stream, POST /chat
Verdict  == {"none", "approve", "reject"}
\* "answer": chat or rag, no tools; "auto": compound pipeline or low-confidence
\* ReAct, which never ask; "legacy": one round of tool calls; "react": the
\* bounded tool loop of a tool intent.
Path == {"none", "answer", "auto", "legacy", "react"}

Input == [kind : ChatKind \cup {"resume"}, hitl : BOOLEAN, act : Verdict,
          shown : Req \cup {None}]
NoInput == [kind |-> "stream", hitl |-> FALSE, act |-> "none", shown |-> None]

Running == {"opened", "asked", "prepared", "drafted", "merging", "remembered",
            "resuming", "popped"}
Ended == {"rejected", "awaiting", "done", "failed"}
PC == {"idle", "arrived"} \cup Running \cup Ended

TypeOK ==
  /\ row \in [Session -> {"free", "live", "deleted"}]
  /\ del \in [Session -> {"none", "flushed", "audited", "done"}]
  /\ said \in SUBSET Req /\ replies \in SUBSET Req /\ billed \in SUBSET Req
  /\ memory \in [Session -> SUBSET Req]
  /\ clear \in [Session -> {"none", "scheduled", "done"}]
  /\ pending \in [Session -> Req \cup {None}]
  /\ pc \in [Req -> PC]
  /\ in \in [Req -> Input]
  /\ at \in [Req -> Session \cup {None}]
  /\ turn \in [Req -> Req \cup {None}]
  /\ path \in [Req -> Path]
  /\ snap \in [Req -> SUBSET Req]
  /\ runs \in [Req -> Nat]
  /\ verdict \in [Req -> Verdict]
  /\ crashes \in 0..MaxCrashes
  /\ overlap \in SUBSET Req /\ erased \in SUBSET Req

Init ==
  /\ row = [s \in Session |-> "free"] /\ del = [s \in Session |-> "none"]
  /\ said = {} /\ replies = {} /\ billed = {}
  /\ memory = [s \in Session |-> {}]
  /\ clear = [s \in Session |-> "none"]
  /\ pending = [s \in Session |-> None]
  /\ pc = [r \in Req |-> "idle"] /\ in = [r \in Req |-> NoInput]
  /\ at = [r \in Req |-> None] /\ turn = [r \in Req |-> None]
  /\ path = [r \in Req |-> "none"] /\ snap = [r \in Req |-> {}]
  /\ runs = [r \in Req |-> 0] /\ verdict = [r \in Req |-> "none"]
  /\ crashes = 0
  /\ overlap = {} /\ erased = {}

-----------------------------------------------------------------------------
(* Helpers *)

Goto(r, l) == pc' = [pc EXCEPT ![r] = l]

IsChat(r) == in[r].kind \in ChatKind

\* Requests at work on session s.
Busy(s) == {r \in Req : at[r] = s /\ pc[r] \in Running}

\* A DELETE of s has begun and its transaction or its background task is open.
BeingDeleted(s) == del[s] \in {"flushed", "audited"} \/ clear[s] = "scheduled"

\* Observer: r enters session s.
Admit(r, s) ==
  overlap' = IF Busy(s) = {} /\ ~BeingDeleted(s)
             THEN overlap
             ELSE overlap \cup Busy(s) \cup {r}

\* Mutant: a write waits until the session is back.
RowFree_Undeleted(s) == del[s] = "none"

\* The open DELETE transaction holds the session row: a write that updates the
\* row's updated_at waits for it.
RowFree(s) == del[s] \in {"none", "done"}

-----------------------------------------------------------------------------
(* Arrival *)

\* POST /sessions.
CreateSession(s) ==
  /\ row[s] = "free"
  /\ row' = [row EXCEPT ![s] = "live"]
  /\ UNCHANGED <<del, said, replies, billed, memVars, pending, pc, in, reqVars,
                 turnVars, crashes, obsVars>>

\* A chat message for a session the client knows, or for the default thread.
ArriveChat(r) ==
  /\ pc[r] = "idle"
  /\ \E k \in Kinds, h \in (IF HitlEnabled THEN BOOLEAN ELSE {FALSE}) :
        in' = [in EXCEPT ![r] = [kind |-> k, hitl |-> h, act |-> "none",
                                 shown |-> None]]
  /\ \E s \in {x \in Session : row[x] # "free"} \cup {None} :
        at' = [at EXCEPT ![r] = s]
  /\ Goto(r, "arrived")
  /\ UNCHANGED <<dbVars, memVars, pending, turn, path, snap, turnVars, crashes,
                 obsVars>>

\* The answer to an interrupt that some open page shows: the turn shown need
\* not be the one the server still holds.
ArriveResume(r) ==
  /\ pc[r] = "idle"
  /\ \E t \in Req, a \in {"approve", "reject"} :
        /\ pc[t] = "awaiting"
        /\ in' = [in EXCEPT ![r] = [kind |-> "resume", hitl |-> FALSE,
                                    act |-> a, shown |-> t]]
        /\ at' = [at EXCEPT ![r] = at[t]]
  /\ Goto(r, "arrived")
  /\ UNCHANGED <<dbVars, memVars, pending, turn, path, snap, turnVars, crashes,
                 obsVars>>

\* The request stops at authentication, quota, rate limit or validation.
Reject(r) ==
  /\ pc[r] = "arrived"
  /\ Goto(r, "rejected")
  /\ UNCHANGED <<dbVars, memVars, pending, in, reqVars, turnVars, crashes,
                 obsVars>>

-----------------------------------------------------------------------------
(* POST /chat/stream and POST /chat *)

\* Mutant: the session of a message is taken for granted.
SessionFor_Unchecked(r, s) == IF at[r] = None THEN row[s] = "free" ELSE s = at[r]

\* A named session must exist; the default thread gets a new one.
SessionFor(r, s) == IF at[r] = None THEN row[s] = "free"
                                    ELSE s = at[r] /\ row[s] = "live"

\* POST /chat creates a session and stores its first question in one transaction.
Together(r) == in[r].kind = "plain" /\ at[r] = None

OpenSession(r) ==
  /\ pc[r] = "arrived" /\ IsChat(r)
  /\ \E s \in Session :
        /\ SessionFor(r, s)
        /\ row' = [row EXCEPT ![s] = IF @ = "free" THEN "live" ELSE @]
        /\ at' = [at EXCEPT ![r] = s]
        /\ Admit(r, s)
  /\ turn' = [turn EXCEPT ![r] = r]
  /\ said' = IF Together(r) THEN said \cup {r} ELSE said
  /\ Goto(r, IF Together(r) THEN "asked" ELSE "opened")
  /\ UNCHANGED <<del, replies, billed, memVars, pending, in, path, snap,
                 turnVars, crashes, erased>>

OpenSession404(r) ==
  /\ pc[r] = "arrived" /\ IsChat(r)
  /\ at[r] # None /\ row[at[r]] # "live"
  /\ Goto(r, "rejected")
  /\ UNCHANGED <<dbVars, memVars, pending, in, reqVars, turnVars, crashes,
                 obsVars>>

\* Mutant: a message is stored without a look at its session.
Stored_Unchecked(R, r) == R \cup {r}

\* add_message writes nothing when the session is gone.
Stored(R, r) == IF row[at[r]] = "live" THEN R \cup {r} ELSE R

\* The user's message and the automatic title.  When the session is
\* gone nothing is stored and the turn goes on.
SaveUser(r) ==
  /\ pc[r] = "opened" /\ RowFree(at[r])
  /\ said' = Stored(said, r)
  /\ Goto(r, "asked")
  /\ UNCHANGED <<row, del, replies, billed, memVars, pending, in, reqVars,
                 turnVars, crashes, obsVars>>

\* The turn stops for approval: HITL was requested, the intent took a tool path
\* and some message of the state holds tool calls -- also executed ones.
Interrupts(r, p, calls) == in[r].hitl /\ p \in {"legacy", "react"} /\ calls

\* Mutant: the tools run although the user is asked.
Defers_Never(r, p) == FALSE

\* Only the single-round path can defer its calls.
Defers(r, p) == in[r].hitl /\ p = "legacy"

\* A route, and whether the model asks for tools on it.
Route(p, calls) == p \in Path \ {"none"} /\ (p = "answer" => ~calls)

RunTools(r, p, calls) ==
  runs' = [runs EXCEPT ![r] = IF calls /\ ~Defers(r, p) THEN @ + 1 ELSE @]

\* Mutant: the handler answers after it has asked.
AfterPrepare_NoReturn(r, p, calls) ==
  IF in[r].kind = "plain" THEN "drafted" ELSE "prepared"

\* Where the handler goes once the turn is prepared; POST /chat also collects
\* the answer in the same synchronous stretch.
AfterPrepare(r, p, calls) ==
  CASE Interrupts(r, p, calls) -> "awaiting"
    [] ~Interrupts(r, p, calls) /\ in[r].kind = "plain" -> "drafted"
    [] OTHER -> "prepared"

\* Reads the thread, routes the turn, runs or defers tools and, on an interrupt,
\* stores the turn in place of any older one of the thread.
Prepare(r) ==
  /\ pc[r] = "asked"
  /\ \E p \in Path, calls \in BOOLEAN :
        /\ Route(p, calls)
        /\ path' = [path EXCEPT ![r] = p]
        /\ RunTools(r, p, calls)
        /\ pending' = IF Interrupts(r, p, calls)
                      THEN [pending EXCEPT ![at[r]] = r] ELSE pending
        /\ Goto(r, AfterPrepare(r, p, calls))
  /\ UNCHANGED <<dbVars, memVars, in, at, turn, snap, verdict, crashes, obsVars>>

\* The model raises.  A ReAct round, a subtask or the answer of POST /chat can
\* fail after tools have run; the single round asks before it runs any.
PrepareRaises(r) ==
  /\ pc[r] = "asked"
  /\ \E p \in Path, calls \in BOOLEAN :
        /\ Route(p, calls)
        /\ calls => p \in {"auto", "react"}
                    \/ (in[r].kind = "plain" /\ ~Interrupts(r, p, calls))
        /\ path' = [path EXCEPT ![r] = p]
        /\ RunTools(r, p, calls)
  /\ Goto(r, "failed")
  /\ UNCHANGED <<dbVars, memVars, pending, in, at, turn, snap, verdict, crashes,
                 obsVars>>

-----------------------------------------------------------------------------
(* POST /chat/resume *)

\* The session exists and the thread has a pending turn.
OpenResume(r) ==
  /\ pc[r] = "arrived" /\ in[r].kind = "resume"
  /\ row[at[r]] = "live" /\ pending[at[r]] # None
  /\ Admit(r, at[r])
  /\ Goto(r, "resuming")
  /\ UNCHANGED <<dbVars, memVars, pending, in, reqVars, turnVars, crashes,
                 erased>>

OpenResume404(r) ==
  /\ pc[r] = "arrived" /\ in[r].kind = "resume"
  /\ row[at[r]] # "live" \/ pending[at[r]] = None
  /\ Goto(r, "rejected")
  /\ UNCHANGED <<dbVars, memVars, pending, in, reqVars, turnVars, crashes,
                 obsVars>>

\* Mutant: the entry stays in the table.
AfterPop_Kept(s) == pending

AfterPop(s) == [pending EXCEPT ![s] = None]

\* The response has started; take the pending turn out of the table.
PopPending(r) ==
  /\ pc[r] = "resuming" /\ pending[at[r]] # None
  /\ turn' = [turn EXCEPT ![r] = pending[at[r]]]
  /\ pending' = AfterPop(at[r])
  /\ Goto(r, "popped")
  /\ UNCHANGED <<dbVars, memVars, in, at, path, snap, turnVars, crashes, obsVars>>

\* Another resume, or the TTL, was faster.
PopNothing(r) ==
  /\ pc[r] = "resuming" /\ pending[at[r]] = None
  /\ Goto(r, "failed")
  /\ UNCHANGED <<dbVars, memVars, pending, in, reqVars, turnVars, crashes,
                 obsVars>>

\* Mutant: the user's answer is not looked at.
RunsOnDecision_Always(t, a) == IF path[t] = "legacy" THEN 1 ELSE 0

\* apply_hitl_tool_decision executes the calls of the last message only: those
\* of a ReAct turn have run and are not the last message.
RunsOnDecision(t, a) == IF a = "approve" /\ path[t] = "legacy" THEN 1 ELSE 0

Decide(r) ==
  /\ pc[r] = "popped"
  /\ LET t == turn[r] IN
        /\ runs' = [runs EXCEPT ![t] = @ + RunsOnDecision(t, in[r].act)]
        /\ verdict' = [verdict EXCEPT ![t] = in[r].act]
  /\ Goto(r, "prepared")
  /\ UNCHANGED <<dbVars, memVars, pending, in, reqVars, crashes, obsVars>>

-----------------------------------------------------------------------------
(* The answer, its commit to the checkpoint and its rows *)

StreamAnswer(r) ==
  /\ pc[r] = "prepared"
  /\ Goto(r, "drafted")
  /\ UNCHANGED <<dbVars, memVars, pending, in, reqVars, turnVars, crashes,
                 obsVars>>

\* LangGraph's aupdate_state reads the newest checkpoint ...
CommitRead(r) ==
  /\ pc[r] = "drafted"
  /\ snap' = [snap EXCEPT ![r] = memory[at[r]]]
  /\ Goto(r, "merging")
  /\ UNCHANGED <<dbVars, memVars, pending, in, at, turn, path, turnVars, crashes,
                 obsVars>>

\* Mutants: the older turns are dropped; the turn the client names is stored.
Merged_Replaced(r) == {turn[r]}
Merged_Shown(r) == snap[r] \cup {in[r].shown}

\* ... and writes a successor with the question and the answer appended.
Merged(r) == snap[r] \cup {turn[r]}

CommitWrite(r) ==
  /\ pc[r] = "merging"
  /\ memory' = [memory EXCEPT ![at[r]] = Merged(r)]
  /\ snap' = [snap EXCEPT ![r] = {}]
  /\ Goto(r, "remembered")
  /\ UNCHANGED <<dbVars, clear, pending, in, at, turn, path, turnVars, crashes,
                 obsVars>>

\* Assistant row and usage row in one transaction; only the usage row when the
\* session is gone.
SaveReply(r) ==
  /\ pc[r] = "remembered" /\ RowFree(at[r])
  /\ replies' = Stored(replies, r)
  /\ billed' = billed \cup {r}
  /\ Goto(r, "done")
  /\ UNCHANGED <<row, del, said, memVars, pending, in, reqVars, turnVars, crashes,
                 obsVars>>

\* An exception, or the client of a stream is gone and its task is cancelled.
Abort(r) ==
  /\ pc[r] \in Running
  /\ Goto(r, "failed")
  /\ UNCHANGED <<dbVars, memVars, pending, in, reqVars, turnVars, crashes,
                 obsVars>>

-----------------------------------------------------------------------------
(* DELETE /sessions/{id} *)

DeleteFlush(s) ==
  /\ s \in Deletable
  /\ row[s] = "live" /\ del[s] = "none"
  /\ del' = [del EXCEPT ![s] = "flushed"]
  /\ overlap' = overlap \cup Busy(s)
  /\ UNCHANGED <<row, said, replies, billed, memVars, pending, pc, in, reqVars,
                 turnVars, crashes, erased>>

\* After the audit row the checkpoint's deletion is scheduled, not awaited.
ScheduleClear(s) ==
  /\ del[s] = "flushed"
  /\ del' = [del EXCEPT ![s] = "audited"]
  /\ clear' = [clear EXCEPT ![s] = "scheduled"]
  /\ UNCHANGED <<row, said, replies, billed, memory, pending, pc, in, reqVars,
                 turnVars, crashes, obsVars>>

\* get_db commits when the handler has returned; messages go with the session.
Outside(R, s) == {r \in R : at[r] # s}

DeleteCommit(s) ==
  /\ del[s] = "audited"
  /\ del' = [del EXCEPT ![s] = "done"]
  /\ row' = [row EXCEPT ![s] = "deleted"]
  /\ said' = Outside(said, s)
  /\ replies' = Outside(replies, s)
  /\ UNCHANGED <<billed, memVars, pending, pc, in, reqVars, turnVars, crashes,
                 obsVars>>

\* The transaction fails; a task that was scheduled runs all the same.
DeleteRollback(s) ==
  /\ del[s] \in {"flushed", "audited"}
  /\ del' = [del EXCEPT ![s] = "none"]
  /\ UNCHANGED <<row, said, replies, billed, memVars, pending, pc, in, reqVars,
                 turnVars, crashes, obsVars>>

ClearMemory(s) ==
  /\ clear[s] = "scheduled"
  /\ clear' = [clear EXCEPT ![s] = "done"]
  /\ memory' = [memory EXCEPT ![s] = {}]
  /\ erased' = erased \cup memory[s]
  /\ UNCHANGED <<dbVars, pending, pc, in, reqVars, turnVars, crashes, overlap>>

-----------------------------------------------------------------------------
(* Time and failures *)

\* Entries older than the TTL are purged before every use of the table.
Expire(s) ==
  /\ pending[s] # None
  /\ pending' = [pending EXCEPT ![s] = None]
  /\ UNCHANGED <<dbVars, memVars, pc, in, reqVars, turnVars, crashes, obsVars>>

\* The process dies and starts again: open transactions roll back, scheduled
\* tasks, pending turns and an in-memory checkpointer are gone.
Crash ==
  /\ crashes < MaxCrashes
  /\ crashes' = crashes + 1
  /\ pc' = [r \in Req |-> IF pc[r] \in Running \cup {"arrived"}
                          THEN "failed" ELSE pc[r]]
  /\ pending' = [s \in Session |-> None]
  /\ del' = [s \in Session |-> IF RowFree(s) THEN del[s] ELSE "none"]
  /\ clear' = [s \in Session |-> IF clear[s] = "scheduled"
                                 THEN "none" ELSE clear[s]]
  /\ memory' = IF Durable THEN memory ELSE [s \in Session |-> {}]
  /\ erased' = IF Durable THEN erased ELSE erased \cup UNION {memory[s] : s \in Session}
  /\ UNCHANGED <<row, said, replies, billed, in, reqVars, turnVars, overlap>>

-----------------------------------------------------------------------------
(* Specification *)

\* Steps the server takes by itself for request r.
Serve(r) ==
  \/ OpenSession(r) \/ OpenSession404(r) \/ SaveUser(r) \/ Prepare(r)
  \/ OpenResume(r) \/ OpenResume404(r) \/ PopPending(r) \/ PopNothing(r)
  \/ Decide(r) \/ StreamAnswer(r) \/ CommitRead(r) \/ CommitWrite(r)
  \/ SaveReply(r)

\* Steps clients and failures take.
Disturb(r) == ArriveChat(r) \/ ArriveResume(r) \/ Reject(r) \/ PrepareRaises(r)
              \/ Abort(r)

Sessions(s) == CreateSession(s) \/ DeleteFlush(s) \/ ScheduleClear(s)
               \/ DeleteCommit(s) \/ DeleteRollback(s) \/ ClearMemory(s)
               \/ Expire(s)

Next == \/ \E r \in Req : Serve(r) \/ Disturb(r)
        \/ \E s \in Session : Sessions(s)
        \/ Crash

Spec == Init /\ [][Next]_vars

\* The event loop runs every ready task; model and database calls return.  A
\* writer that waits for a session row gets it in its turn (strong fairness),
\* and a DELETE that has begun ends and its background task runs.
Fairness ==
  /\ \A r \in Req : SF_vars(Serve(r))
  /\ \A s \in Session : /\ WF_vars(ScheduleClear(s))
                        /\ WF_vars(DeleteCommit(s) \/ DeleteRollback(s))
                        /\ WF_vars(ClearMemory(s))

FairSpec == Spec /\ Fairness

-----------------------------------------------------------------------------
(* Properties *)

\* The calls a model proposed for one turn are executed at most once, however
\* many approvals race for it, whichever of them expire, are cut or retried.
ToolsRunAtMostOnce == \A t \in Req : runs[t] <= 1

\* Calls the single-round path has deferred run only after this very turn was
\* approved; a refused, expired, overwritten or lost turn never runs them.
DeferredToolsNeedApproval ==
  \A t \in Req : path[t] = "legacy" /\ in[t].hitl /\ runs[t] > 0
                => verdict[t] = "approve"

\* A turn is answered and charged once, over the request that asked and every
\* resume of it, and an answer in the transcript is always a charged one.
TurnAnsweredOnce ==
  /\ \A q, r \in billed : turn[q] = turn[r] => q = r
  /\ replies \subseteq billed

\* While a turn waits for approval it is open: nobody has answered it, the
\* thread does not remember it, and it belongs to the session that holds it.
PendingTurnIsOpen ==
  \A s \in Session : pending[s] # None =>
     /\ at[pending[s]] = s
     /\ pending[s] \notin memory[s]
     /\ \A r \in Req : turn[r] = pending[s] => r = pending[s] /\ r \notin billed

\* The transcript of a session has the question of every answer it holds, even
\* though a question is silently not stored when the session is missing.
AnswersHaveQuestions == \A r \in replies : turn[r] \in said

\* An answer shown in the transcript is in the agent's memory, unless its turn
\* shared the session with another request or deletion, or memory was erased.
\* Sequential use of a session loses no turn.
RepliesAreRemembered ==
  \A r \in replies : r \notin overlap => turn[r] \in memory[at[r]] \cup erased

\* A deleted session whose checkpoint was deleted too keeps no memory, unless a
\* request that was in flight during the deletion wrote it back.
OrphanMemoryNeedsOverlap ==
  \A s \in Session :
     /\ row[s] = "deleted" /\ clear[s] = "done" /\ memory[s] # {}
     => \E r \in overlap : at[r] = s /\ turn[r] \in memory[s]

\* Every request the server takes on ends, although it may have to wait for a
\* DELETE that holds its session; every such transaction and every scheduled
\* deletion of a checkpoint ends too.
Settles ==
  /\ \A r \in Req : pc[r] \in Running ~> pc[r] \in Ended
  /\ \A s \in Session : ~RowFree(s) ~> RowFree(s)
  /\ \A s \in Session : clear[s] = "scheduled" ~> clear[s] # "scheduled"

-----------------------------------------------------------------------------
(* The approval contract is implemented *)

\* A batch of calls was put before the user instead of being run ...
Deferred(t) == path[t] = "legacy" /\ pc[t] = "awaiting"

\* ... and is in the table or in the hands of the resume that took it.
Held(t) == \/ \E s \in Session : pending[s] = t
           \/ \E r \in Req : pc[r] = "popped" /\ turn[r] = t

PhaseOf(t) ==
  CASE ~Deferred(t) -> "open"
    [] Deferred(t) /\ verdict[t] = "approve" -> "approved"
    [] Deferred(t) /\ verdict[t] = "reject" -> "refused"
    [] Deferred(t) /\ verdict[t] = "none" /\ Held(t) -> "waiting"
    [] Deferred(t) /\ verdict[t] = "none" /\ ~Held(t) -> "dropped"

Approval == INSTANCE ToolApproval
              WITH Turn  <- Req,
                   phase <- [t \in Req |-> PhaseOf(t)],
                   ran   <- [t \in Req |-> path[t] = "legacy" /\ runs[t] > 0]

\* A deferred batch is asked about once and then run, refused or dropped.
ApprovalContract == Approval!Spec

-----------------------------------------------------------------------------
(* What the documentation promises and the code does not keep *)

\* human_loop.py says a turn waits for the user before its tools are called: of
\* a turn that is waiting for approval no tool has been executed yet.
ToolsWaitForApproval == \A s \in Session : pending[s] # None => runs[pending[s]] = 0

\* The interrupt asks the user to confirm the calls it lists: an approval never
\* executes the calls of another turn than the one it was given for.
ApprovalIsForShownTurn ==
  \A r \in Req :
     /\ in[r].kind = "resume" /\ turn[r] # None
     /\ path[turn[r]] = "legacy" /\ verdict[turn[r]] = "approve"
     => turn[r] = in[r].shown

\* Deleting a session clears its checkpoint: once the session is gone, its
\* checkpoint was deleted and no request is at work on it, nothing is left.
DeletedSessionIsForgotten ==
  \A s \in Session :
     row[s] = "deleted" /\ clear[s] = "done" /\ Busy(s) = {} => memory[s] = {}
=============================================================================
