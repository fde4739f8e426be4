-------------------------- MODULE ChatTurnsProofs --------------------------
(***************************************************************************)
(* Machine-checked proofs about ChatTurns, for every set of requests and   *)
(* sessions, any number of restarts and both kinds of checkpointer.        *)
(* Each part of the invariant Inductive has a lemma: a step keeps it, given *)
(* the parts it rests on.  In a lemma, an action that touches what the part *)
(* speaks of has a step of its own; the others share one.  The last part   *)
(* maps every step to one of the contract ToolApproval or to a stutter.    *)
(***************************************************************************)
EXTENDS ChatTurnsInv, TLAPS

-----------------------------------------------------------------------------
(* Initial states *)

\* The invariant holds before the first request.
LEMMA InductiveInit == Init => Inductive
<1> SUFFICES ASSUME Init PROVE Inductive
  OBVIOUS
<1> USE NoneAssumption, BoundAssumption DEF Init, PC, Running, Ended, Routed,
        Answering
<1>1. TypeOK
  BY DEF TypeOK, NoInput, Input, ChatKind, Verdict, Path
<1>2. StagesOK /\ RoutesOK /\ HoldersOK /\ PendingOK /\ RunsOK
  BY DEF StagesOK, RoutesOK, HoldersOK, PendingOK, RunsOK, IsChat, ChatKind,
         NoInput
<1>3. RowsOK /\ MemoryOK /\ DeletionOK
  BY DEF RowsOK, MemoryOK, DeletionOK
<1>4. OverlapOK /\ CaughtOK /\ RemembersOK /\ OrphansOK
  BY DEF OverlapOK, CaughtOK, BeingDeleted, RemembersOK, OrphansOK
<1>5. QED
  BY <1>1, <1>2, <1>3, <1>4 DEF Inductive

-----------------------------------------------------------------------------
(* Steps *)

\* Every variable keeps its type: who writes has a session and a turn.
LEMMA TypeStep == TypeOK /\ StagesOK /\ [Next]_vars => TypeOK'
<1> SUFFICES ASSUME TypeOK, StagesOK, [Next]_vars
             PROVE TypeOK'
  BY DEF TypeOK
<1> USE NoneAssumption, BoundAssumption DEF TypeOK, PC, Running, Ended, Goto,
        dbVars, memVars, reqVars, turnVars, obsVars
<1>1. ASSUME NEW r \in Req, Serve(r) PROVE TypeOK'
  <2>1. CASE OpenSession(r)
    BY <2>1 DEF OpenSession, Admit, Busy
  <2>2. CASE OpenSession404(r)
    BY <2>2 DEF OpenSession404
  <2>3. CASE SaveUser(r)
    BY <2>3 DEF SaveUser, Stored
  <2>4. CASE Prepare(r)
    <3>1. PICK p \in Path, calls \in BOOLEAN :
            /\ path' = [path EXCEPT ![r] = p]
            /\ RunTools(r, p, calls)
            /\ pending' = IF Interrupts(r, p, calls)
                          THEN [pending EXCEPT ![at[r]] = r] ELSE pending
            /\ Goto(r, AfterPrepare(r, p, calls))
      BY <2>4 DEF Prepare
    <3>2. AfterPrepare(r, p, calls) \in PC
      BY DEF AfterPrepare
    <3>3. runs' \in [Req -> Nat]
      BY <3>1 DEF RunTools
    <3>4. QED
      BY <2>4, <3>1, <3>2, <3>3 DEF Prepare
  <2>5. CASE OpenResume(r)
    BY <2>5 DEF OpenResume, Admit, Busy
  <2>6. CASE OpenResume404(r)
    BY <2>6 DEF OpenResume404
  <2>7. CASE PopPending(r)
    BY <2>7 DEF PopPending, AfterPop, StagesOK, Routed, Answering, IsChat,
       ChatKind
  <2>8. CASE PopNothing(r)
    BY <2>8 DEF PopNothing
  <2>9. CASE Decide(r)
    BY <2>9 DEF Decide, RunsOnDecision, Input, StagesOK, Routed, Answering,
       IsChat, ChatKind
  <2>10. CASE StreamAnswer(r)
    BY <2>10 DEF StreamAnswer
  <2>11. CASE CommitRead(r)
    BY <2>11 DEF CommitRead, StagesOK, Routed, Answering, IsChat, ChatKind
  <2>12. CASE CommitWrite(r)
    BY <2>12 DEF CommitWrite, Merged, StagesOK, Routed, Answering, IsChat,
       ChatKind
  <2>13. CASE SaveReply(r)
    BY <2>13 DEF SaveReply, Stored
  <2>14. QED
    BY <1>1, <2>1, <2>2, <2>3, <2>4, <2>5, <2>6, <2>7, <2>8, <2>9, <2>10,
       <2>11, <2>12, <2>13 DEF Serve
<1>2. ASSUME NEW r \in Req, Disturb(r) PROVE TypeOK'
  <2>1. CASE ArriveChat(r)
    <3>1. PICK k \in Kinds, h \in BOOLEAN :
            in' = [in EXCEPT ![r] = [kind |-> k, hitl |-> h, act |-> "none",
                                     shown |-> None]]
      BY <2>1 DEF ArriveChat
    <3>2. [kind |-> k, hitl |-> h, act |-> "none", shown |-> None] \in Input
      BY DEF Input, ChatKind, Verdict
    <3>3. in' \in [Req -> Input]
      BY <3>1, <3>2
    <3>4. at' \in [Req -> Session \cup {None}]
      BY <2>1 DEF ArriveChat
    <3>5. QED
      BY <2>1, <3>3, <3>4 DEF ArriveChat
  <2>2. CASE ArriveResume(r)
    BY <2>2 DEF ArriveResume, Input, Verdict
  <2>3. CASE PrepareRaises(r)
    BY <2>3 DEF PrepareRaises, RunTools
    <2>4. CASE Reject(r) \/ Abort(r)
    BY <2>4 DEF Reject, Abort
  <2>5. QED
    BY <1>2, <2>1, <2>2, <2>3, <2>4 DEF Disturb
<1>3. ASSUME NEW s \in Session, Sessions(s) PROVE TypeOK'
  <2>1. CASE DeleteFlush(s)
    BY <2>1 DEF DeleteFlush, Busy
    <2>2. CASE CreateSession(s) \/ ScheduleClear(s) \/ DeleteCommit(s) \/
            DeleteRollback(s) \/ ClearMemory(s) \/ Expire(s)
    BY <2>2 DEF CreateSession, ScheduleClear, DeleteCommit, Outside,
       DeleteRollback, ClearMemory, Expire
  <2>3. QED
    BY <1>3, <2>1, <2>2 DEF Sessions
<1>4. CASE Crash
  BY <1>4 DEF Crash, RowFree
<1>5. CASE UNCHANGED vars
  BY <1>5 DEF vars
<1>6. QED
  BY <1>1, <1>2, <1>3, <1>4, <1>5 DEF Next

\* The stage of a request fixes its kind and gives it a session and a turn.
LEMMA StagesStep == TypeOK /\ StagesOK /\ [Next]_vars => StagesOK'
<1> SUFFICES ASSUME TypeOK, StagesOK, [Next]_vars, NEW q \in Req
             PROVE StagesOK!(q)'
  BY DEF StagesOK
<1> USE NoneAssumption, BoundAssumption DEF TypeOK, StagesOK, PC, Running,
        Ended, Routed, Answering, IsChat, ChatKind, Goto, dbVars, memVars,
        reqVars, turnVars, obsVars
<1>1. ASSUME NEW r \in Req, Serve(r) PROVE StagesOK!(q)'
  <2>1. CASE OpenSession(r)
    BY <2>1 DEF OpenSession, SessionFor
  <2>2. CASE Prepare(r)
    BY <2>2 DEF Prepare, AfterPrepare
  <2>3. CASE PopPending(r)
    BY <2>3 DEF PopPending
    <2>4. CASE OpenSession404(r) \/ SaveUser(r) \/ OpenResume(r) \/
            OpenResume404(r) \/ PopNothing(r) \/ Decide(r) \/ StreamAnswer(r)
            \/ CommitRead(r) \/ CommitWrite(r) \/ SaveReply(r)
    BY <2>4 DEF OpenSession404, SaveUser, Stored, OpenResume, OpenResume404,
       PopNothing, Decide, StreamAnswer, CommitRead, CommitWrite, Merged,
       SaveReply, Stored
  <2>5. QED
    BY <1>1, <2>1, <2>2, <2>3, <2>4 DEF Serve
<1>2. ASSUME NEW r \in Req, Disturb(r) PROVE StagesOK!(q)'
  <2>1. CASE ArriveChat(r)
    BY <2>1 DEF ArriveChat
  <2>2. CASE ArriveResume(r)
    BY <2>2 DEF ArriveResume
    <2>3. CASE Reject(r) \/ PrepareRaises(r) \/ Abort(r)
    BY <2>3 DEF Reject, PrepareRaises, Abort
  <2>4. QED
    BY <1>2, <2>1, <2>2, <2>3 DEF Disturb
<1>3. ASSUME NEW s \in Session, Sessions(s) PROVE StagesOK!(q)'
    <2>1. CASE CreateSession(s) \/ DeleteFlush(s) \/ ScheduleClear(s) \/
            DeleteCommit(s) \/ DeleteRollback(s) \/ ClearMemory(s) \/ Expire(s)
    BY <2>1 DEF CreateSession, DeleteFlush, ScheduleClear, DeleteCommit,
       Outside, DeleteRollback, ClearMemory, Expire
  <2>2. QED
    BY <1>3, <2>1 DEF Sessions
<1>4. CASE Crash
  BY <1>4 DEF Crash
<1>5. CASE UNCHANGED vars
  BY <1>5 DEF vars
<1>6. QED
  BY <1>1, <1>2, <1>3, <1>4, <1>5 DEF Next

\* Routes and tool runs come from the preparation of the turn, a decision comes
\* only to a turn that awaits one.
LEMMA RoutesStep == TypeOK /\ StagesOK /\ RoutesOK /\ HoldersOK /\ [Next]_vars
  => RoutesOK'
<1> SUFFICES ASSUME TypeOK, StagesOK, RoutesOK, HoldersOK, [Next]_vars, NEW q
             \in Req
             PROVE RoutesOK!(q)'
  BY DEF RoutesOK
<1> USE NoneAssumption, BoundAssumption DEF TypeOK, StagesOK, PC, Running,
        Ended, Routed, Answering, IsChat, ChatKind, Goto, dbVars, memVars,
        reqVars, turnVars, obsVars, RoutesOK, HoldersOK
<1>1. ASSUME NEW r \in Req, Serve(r) PROVE RoutesOK!(q)'
  <2>1. CASE Prepare(r)
    BY <2>1 DEF Prepare, AfterPrepare, Interrupts, RunTools, Route
  <2>2. CASE Decide(r)
    BY <2>2 DEF Decide, RunsOnDecision
    <2>3. CASE OpenSession(r) \/ OpenSession404(r) \/ SaveUser(r) \/
            OpenResume(r) \/ OpenResume404(r) \/ PopPending(r) \/ PopNothing(r)
            \/ StreamAnswer(r) \/ CommitRead(r) \/ CommitWrite(r) \/
            SaveReply(r)
    BY <2>3 DEF OpenSession, SessionFor, OpenSession404, SaveUser, Stored,
       OpenResume, OpenResume404, PopPending, AfterPop, PopNothing,
       StreamAnswer, CommitRead, CommitWrite, Merged, SaveReply, Stored
  <2>4. QED
    BY <1>1, <2>1, <2>2, <2>3 DEF Serve
<1>2. ASSUME NEW r \in Req, Disturb(r) PROVE RoutesOK!(q)'
  <2>1. CASE ArriveChat(r)
    BY <2>1 DEF ArriveChat
  <2>2. CASE ArriveResume(r)
    BY <2>2 DEF ArriveResume
  <2>3. CASE PrepareRaises(r)
    BY <2>3 DEF PrepareRaises, RunTools, Route
    <2>4. CASE Reject(r) \/ Abort(r)
    BY <2>4 DEF Reject, Abort
  <2>5. QED
    BY <1>2, <2>1, <2>2, <2>3, <2>4 DEF Disturb
<1>3. ASSUME NEW s \in Session, Sessions(s) PROVE RoutesOK!(q)'
    <2>1. CASE CreateSession(s) \/ DeleteFlush(s) \/ ScheduleClear(s) \/
            DeleteCommit(s) \/ DeleteRollback(s) \/ ClearMemory(s) \/ Expire(s)
    BY <2>1 DEF CreateSession, DeleteFlush, ScheduleClear, DeleteCommit,
       Outside, DeleteRollback, ClearMemory, Expire
  <2>2. QED
    BY <1>3, <2>1 DEF Sessions
<1>4. CASE Crash
  BY <1>4 DEF Crash
<1>5. CASE UNCHANGED vars
  BY <1>5 DEF vars
<1>6. QED
  BY <1>1, <1>2, <1>3, <1>4, <1>5 DEF Next

\* No two resumes ever hold the same turn: an entry leaves the table when it is
\* taken and its turn does not come back.
LEMMA HoldersStep == TypeOK /\ StagesOK /\ RoutesOK /\ HoldersOK /\ PendingOK
  /\ [Next]_vars => HoldersOK'
<1> SUFFICES ASSUME TypeOK, StagesOK, RoutesOK, HoldersOK, PendingOK,
             [Next]_vars
             PROVE HoldersOK'
  BY DEF HoldersOK
<1> USE NoneAssumption, BoundAssumption DEF TypeOK, StagesOK, PC, Running,
        Ended, Routed, Answering, IsChat, ChatKind, Goto, dbVars, memVars,
        reqVars, turnVars, obsVars, HoldersOK, PendingOK
<1>1. ASSUME NEW r \in Req, Serve(r) PROVE HoldersOK'
  <2>1. CASE Prepare(r)
    BY <2>1 DEF Prepare, AfterPrepare
  <2>2. CASE PopPending(r)
    BY <2>2 DEF PopPending
  <2>3. CASE Decide(r)
    BY <2>3 DEF Decide
    <2>4. CASE OpenSession(r) \/ OpenSession404(r) \/ SaveUser(r) \/
            OpenResume(r) \/ OpenResume404(r) \/ PopNothing(r) \/
            StreamAnswer(r) \/ CommitRead(r) \/ CommitWrite(r) \/ SaveReply(r)
    BY <2>4 DEF OpenSession, SessionFor, OpenSession404, SaveUser, Stored,
       OpenResume, OpenResume404, PopNothing, StreamAnswer, CommitRead,
       CommitWrite, Merged, SaveReply, Stored
  <2>5. QED
    BY <1>1, <2>1, <2>2, <2>3, <2>4 DEF Serve
<1>2. ASSUME NEW r \in Req, Disturb(r) PROVE HoldersOK'
  <2>1. CASE ArriveChat(r)
    BY <2>1 DEF ArriveChat
  <2>2. CASE ArriveResume(r)
    BY <2>2 DEF ArriveResume
    <2>3. CASE Reject(r) \/ PrepareRaises(r) \/ Abort(r)
    BY <2>3 DEF Reject, PrepareRaises, Abort
  <2>4. QED
    BY <1>2, <2>1, <2>2, <2>3 DEF Disturb
<1>3. ASSUME NEW s \in Session, Sessions(s) PROVE HoldersOK'
    <2>1. CASE CreateSession(s) \/ DeleteFlush(s) \/ ScheduleClear(s) \/
            DeleteCommit(s) \/ DeleteRollback(s) \/ ClearMemory(s) \/ Expire(s)
    BY <2>1 DEF CreateSession, DeleteFlush, ScheduleClear, DeleteCommit,
       Outside, DeleteRollback, ClearMemory, Expire
  <2>2. QED
    BY <1>3, <2>1 DEF Sessions
<1>4. CASE Crash
  BY <1>4 DEF Crash
<1>5. CASE UNCHANGED vars
  BY <1>5 DEF vars
<1>6. QED
  BY <1>1, <1>2, <1>3, <1>4, <1>5 DEF Next

\* The table holds turns of its thread that nobody has decided or taken.
LEMMA PendingStep == TypeOK /\ StagesOK /\ RoutesOK /\ HoldersOK /\ PendingOK
  /\ [Next]_vars => PendingOK'
<1> SUFFICES ASSUME TypeOK, StagesOK, RoutesOK, HoldersOK, PendingOK,
             [Next]_vars, NEW z \in Session
             PROVE PendingOK!(z)'
  BY DEF PendingOK
<1> USE NoneAssumption, BoundAssumption DEF TypeOK, StagesOK, PC, Running,
        Ended, Routed, Answering, IsChat, ChatKind, Goto, dbVars, memVars,
        reqVars, turnVars, obsVars, RoutesOK, HoldersOK, PendingOK
<1>1. ASSUME NEW r \in Req, Serve(r) PROVE PendingOK!(z)'
  <2>1. CASE Prepare(r)
    BY <2>1 DEF Prepare, AfterPrepare
  <2>2. CASE PopPending(r)
    BY <2>2 DEF PopPending, AfterPop
  <2>3. CASE Decide(r)
    BY <2>3 DEF Decide
    <2>4. CASE OpenSession(r) \/ OpenSession404(r) \/ SaveUser(r) \/
            OpenResume(r) \/ OpenResume404(r) \/ PopNothing(r) \/
            StreamAnswer(r) \/ CommitRead(r) \/ CommitWrite(r) \/ SaveReply(r)
    BY <2>4 DEF OpenSession, SessionFor, OpenSession404, SaveUser, Stored,
       OpenResume, OpenResume404, PopNothing, StreamAnswer, CommitRead,
       CommitWrite, Merged, SaveReply, Stored
  <2>5. QED
    BY <1>1, <2>1, <2>2, <2>3, <2>4 DEF Serve
<1>2. ASSUME NEW r \in Req, Disturb(r) PROVE PendingOK!(z)'
  <2>1. CASE ArriveChat(r)
    BY <2>1 DEF ArriveChat
  <2>2. CASE ArriveResume(r)
    BY <2>2 DEF ArriveResume
    <2>3. CASE Reject(r) \/ PrepareRaises(r) \/ Abort(r)
    BY <2>3 DEF Reject, PrepareRaises, Abort
  <2>4. QED
    BY <1>2, <2>1, <2>2, <2>3 DEF Disturb
<1>3. ASSUME NEW s \in Session, Sessions(s) PROVE PendingOK!(z)'
    <2>1. CASE CreateSession(s) \/ DeleteFlush(s) \/ ScheduleClear(s) \/
            DeleteCommit(s) \/ DeleteRollback(s) \/ ClearMemory(s) \/ Expire(s)
    BY <2>1 DEF CreateSession, DeleteFlush, ScheduleClear, DeleteCommit,
       Outside, DeleteRollback, ClearMemory, Expire
  <2>2. QED
    BY <1>3, <2>1 DEF Sessions
<1>4. CASE Crash
  BY <1>4 DEF Crash
<1>5. CASE UNCHANGED vars
  BY <1>5 DEF vars
<1>6. QED
  BY <1>1, <1>2, <1>3, <1>4, <1>5 DEF Next

\* Tools run once: a decision adds a run only where the preparation deferred it.
LEMMA RunsStep == TypeOK /\ StagesOK /\ RoutesOK /\ HoldersOK /\ RunsOK /\
  [Next]_vars => RunsOK'
<1> SUFFICES ASSUME TypeOK, StagesOK, RoutesOK, HoldersOK, RunsOK, [Next]_vars,
             NEW q \in Req
             PROVE RunsOK!(q)'
  BY DEF RunsOK
<1> USE NoneAssumption, BoundAssumption DEF TypeOK, StagesOK, PC, Running,
        Ended, Routed, Answering, IsChat, ChatKind, Goto, dbVars, memVars,
        reqVars, turnVars, obsVars, RoutesOK, HoldersOK, RunsOK
<1>1. ASSUME NEW r \in Req, Serve(r) PROVE RunsOK!(q)'
  <2>1. CASE Prepare(r)
    BY <2>1 DEF Prepare, RunTools, Route, Defers
  <2>2. CASE Decide(r)
    BY <2>2 DEF Decide, RunsOnDecision
    <2>3. CASE OpenSession(r) \/ OpenSession404(r) \/ SaveUser(r) \/
            OpenResume(r) \/ OpenResume404(r) \/ PopPending(r) \/ PopNothing(r)
            \/ StreamAnswer(r) \/ CommitRead(r) \/ CommitWrite(r) \/
            SaveReply(r)
    BY <2>3 DEF OpenSession, SessionFor, OpenSession404, SaveUser, Stored,
       OpenResume, OpenResume404, PopPending, AfterPop, PopNothing,
       StreamAnswer, CommitRead, CommitWrite, Merged, SaveReply, Stored
  <2>4. QED
    BY <1>1, <2>1, <2>2, <2>3 DEF Serve
<1>2. ASSUME NEW r \in Req, Disturb(r) PROVE RunsOK!(q)'
  <2>1. CASE ArriveChat(r)
    BY <2>1 DEF ArriveChat
  <2>2. CASE ArriveResume(r)
    BY <2>2 DEF ArriveResume
  <2>3. CASE PrepareRaises(r)
    BY <2>3 DEF PrepareRaises, RunTools, Route, Defers
    <2>4. CASE Reject(r) \/ Abort(r)
    BY <2>4 DEF Reject, Abort
  <2>5. QED
    BY <1>2, <2>1, <2>2, <2>3, <2>4 DEF Disturb
<1>3. ASSUME NEW s \in Session, Sessions(s) PROVE RunsOK!(q)'
    <2>1. CASE CreateSession(s) \/ DeleteFlush(s) \/ ScheduleClear(s) \/
            DeleteCommit(s) \/ DeleteRollback(s) \/ ClearMemory(s) \/ Expire(s)
    BY <2>1 DEF CreateSession, DeleteFlush, ScheduleClear, DeleteCommit,
       Outside, DeleteRollback, ClearMemory, Expire
  <2>2. QED
    BY <1>3, <2>1 DEF Sessions
<1>4. CASE Crash
  BY <1>4 DEF Crash
<1>5. CASE UNCHANGED vars
  BY <1>5 DEF vars
<1>6. QED
  BY <1>1, <1>2, <1>3, <1>4, <1>5 DEF Next

\* A live session has the question of every turn that was routed in it.
LEMMA RowsStep == TypeOK /\ StagesOK /\ RowsOK /\ [Next]_vars => RowsOK'
<1> SUFFICES ASSUME TypeOK, StagesOK, RowsOK, [Next]_vars
             PROVE RowsOK'
  BY DEF RowsOK
<1> USE NoneAssumption, BoundAssumption DEF TypeOK, StagesOK, PC, Running,
        Ended, Routed, Answering, IsChat, ChatKind, Goto, dbVars, memVars,
        reqVars, turnVars, obsVars, RowsOK
<1>1. ASSUME NEW r \in Req, Serve(r) PROVE RowsOK'
  <2>1. CASE SaveUser(r)
    BY <2>1 DEF SaveUser, Stored
  <2>2. CASE Prepare(r)
    BY <2>2 DEF Prepare, AfterPrepare
  <2>3. CASE SaveReply(r)
    BY <2>3 DEF SaveReply, Stored
    <2>4. CASE OpenSession(r) \/ OpenSession404(r) \/ OpenResume(r) \/
            OpenResume404(r) \/ PopPending(r) \/ PopNothing(r) \/ Decide(r) \/
            StreamAnswer(r) \/ CommitRead(r) \/ CommitWrite(r)
    BY <2>4 DEF OpenSession, SessionFor, OpenSession404, OpenResume,
       OpenResume404, PopPending, AfterPop, PopNothing, Decide, StreamAnswer,
       CommitRead, CommitWrite, Merged
  <2>5. QED
    BY <1>1, <2>1, <2>2, <2>3, <2>4 DEF Serve
<1>2. ASSUME NEW r \in Req, Disturb(r) PROVE RowsOK'
  <2>1. CASE ArriveChat(r)
    BY <2>1 DEF ArriveChat
  <2>2. CASE ArriveResume(r)
    BY <2>2 DEF ArriveResume
    <2>3. CASE Reject(r) \/ PrepareRaises(r) \/ Abort(r)
    BY <2>3 DEF Reject, PrepareRaises, Abort
  <2>4. QED
    BY <1>2, <2>1, <2>2, <2>3 DEF Disturb
<1>3. ASSUME NEW s \in Session, Sessions(s) PROVE RowsOK'
  <2>1. CASE DeleteCommit(s)
    BY <2>1 DEF DeleteCommit, Outside
    <2>2. CASE CreateSession(s) \/ DeleteFlush(s) \/ ScheduleClear(s) \/
            DeleteRollback(s) \/ ClearMemory(s) \/ Expire(s)
    BY <2>2 DEF CreateSession, DeleteFlush, ScheduleClear, DeleteRollback,
       ClearMemory, Expire
  <2>3. QED
    BY <1>3, <2>1, <2>2 DEF Sessions
<1>4. CASE Crash
  BY <1>4 DEF Crash
<1>5. CASE UNCHANGED vars
  BY <1>5 DEF vars
<1>6. QED
  BY <1>1, <1>2, <1>3, <1>4, <1>5 DEF Next

\* The row of a session is gone when its DELETE has committed.
LEMMA DeletionStep == TypeOK /\ DeletionOK /\ [Next]_vars => DeletionOK'
<1> SUFFICES ASSUME TypeOK, DeletionOK, [Next]_vars, NEW z \in Session
             PROVE DeletionOK!(z)'
  BY DEF DeletionOK
<1> USE NoneAssumption, BoundAssumption DEF TypeOK, StagesOK, PC, Running,
        Ended, Routed, Answering, IsChat, ChatKind, Goto, dbVars, memVars,
        reqVars, turnVars, obsVars, DeletionOK, RowFree
<1>1. ASSUME NEW r \in Req, Serve(r) PROVE DeletionOK!(z)'
    <2>1. CASE OpenSession(r) \/ OpenSession404(r) \/ SaveUser(r) \/ Prepare(r)
            \/ OpenResume(r) \/ OpenResume404(r) \/ PopPending(r) \/
            PopNothing(r) \/ Decide(r) \/ StreamAnswer(r) \/ CommitRead(r) \/
            CommitWrite(r) \/ SaveReply(r)
    BY <2>1 DEF OpenSession, SessionFor, OpenSession404, SaveUser, Stored,
       Prepare, AfterPrepare, Interrupts, OpenResume, OpenResume404,
       PopPending, AfterPop, PopNothing, Decide, StreamAnswer, CommitRead,
       CommitWrite, Merged, SaveReply, Stored
  <2>2. QED
    BY <1>1, <2>1 DEF Serve
<1>2. ASSUME NEW r \in Req, Disturb(r) PROVE DeletionOK!(z)'
  <2>1. CASE ArriveChat(r)
    BY <2>1 DEF ArriveChat
  <2>2. CASE ArriveResume(r)
    BY <2>2 DEF ArriveResume
    <2>3. CASE Reject(r) \/ PrepareRaises(r) \/ Abort(r)
    BY <2>3 DEF Reject, PrepareRaises, Abort
  <2>4. QED
    BY <1>2, <2>1, <2>2, <2>3 DEF Disturb
<1>3. ASSUME NEW s \in Session, Sessions(s) PROVE DeletionOK!(z)'
    <2>1. CASE CreateSession(s) \/ DeleteFlush(s) \/ ScheduleClear(s) \/
            DeleteCommit(s) \/ DeleteRollback(s) \/ ClearMemory(s) \/ Expire(s)
    BY <2>1 DEF CreateSession, DeleteFlush, ScheduleClear, DeleteCommit,
       Outside, DeleteRollback, ClearMemory, Expire
  <2>2. QED
    BY <1>3, <2>1 DEF Sessions
<1>4. CASE Crash
  BY <1>4 DEF Crash
<1>5. CASE UNCHANGED vars
  BY <1>5 DEF vars
<1>6. QED
  BY <1>1, <1>2, <1>3, <1>4, <1>5 DEF Next

\* A turn is remembered because some request committed it.
LEMMA MemoryStep == TypeOK /\ StagesOK /\ MemoryOK /\ [Next]_vars => MemoryOK'
<1> SUFFICES ASSUME TypeOK, StagesOK, MemoryOK, [Next]_vars, NEW z \in Session,
             NEW q \in Req, NEW t \in Req
             PROVE MemoryOK!(z)!(q, t)'
  BY DEF MemoryOK
<1>0. \A w \in Req :
         /\ pc[w] \in {"arrived", "resuming"} => turn[w] = None
         /\ pc[w] \in Running => at[w] \in Session
         /\ pc[w] = "merging" => turn[w] # None
  BY DEF StagesOK, Answering
<1> USE NoneAssumption, <1>0 DEF TypeOK, PC, Running, Ended, Goto, dbVars,
        memVars, reqVars, turnVars, obsVars, MemoryOK
<1>1. ASSUME NEW r \in Req, Serve(r) PROVE MemoryOK!(z)!(q, t)'
  <2>1. CASE OpenSession(r)
    <3>1. UNCHANGED <<memory, snap>> /\ pc[r] = "arrived"
      BY <2>1 DEF OpenSession
    <3>2. \A w \in Req \ {r} : pc'[w] = pc[w] /\ turn'[w] = turn[w]
      BY <2>1 DEF OpenSession
    <3>3. \A w \in Req : turn[w] = t /\ pc[w] \in {"remembered", "done", "failed"}
                         => turn'[w] = t /\ pc'[w] = pc[w]
      BY <3>1, <3>2
    <3>4. QED
      BY <3>1, <3>3
  <2>2. CASE Prepare(r)
    <3>1. UNCHANGED <<memory, snap, turn>> /\ pc[r] = "asked"
      BY <2>2 DEF Prepare
    <3>2. \A w \in Req \ {r} : pc'[w] = pc[w]
      BY <2>2 DEF Prepare
    <3>3. \A w \in Req : turn[w] = t /\ pc[w] \in {"remembered", "done", "failed"}
                         => turn'[w] = t /\ pc'[w] = pc[w]
      BY <3>1, <3>2
    <3>4. t \in memory'[z] \cup snap'[q] => t \in memory[z] \cup snap[q]
      BY <3>1
    <3>5. QED
      BY <3>3, <3>4
  <2>3. CASE PopPending(r)
    BY <2>3 DEF PopPending
  <2>4. CASE CommitRead(r)
    <3>1. /\ UNCHANGED <<memory, turn>> /\ pc[r] = "drafted"
          /\ snap'[q] = IF q = r THEN memory[at[r]] ELSE snap[q]
      BY <2>4 DEF CommitRead
    <3>2. \A w \in Req \ {r} : pc'[w] = pc[w]
      BY <2>4 DEF CommitRead
    <3>3. \A w \in Req : turn[w] = t /\ pc[w] \in {"remembered", "done", "failed"}
                         => turn'[w] = t /\ pc'[w] = pc[w]
      BY <3>1, <3>2
    <3>4. t \in memory'[z] \cup snap'[q]
          => \E x \in Session : t \in memory[x] \cup snap[q]
      BY <3>1
    <3>5. t \in memory'[z] \cup snap'[q]
          => \E w \in Req : /\ turn[w] = t
                           /\ pc[w] \in {"remembered", "done", "failed"}
      BY <3>4
    <3>6. QED
      BY <3>3, <3>5
  <2>5. CASE CommitWrite(r)
    BY <2>5 DEF CommitWrite, Merged
    <2>6. CASE OpenSession404(r) \/ SaveUser(r) \/ OpenResume(r) \/
            OpenResume404(r) \/ PopNothing(r) \/ Decide(r) \/ StreamAnswer(r)
            \/ SaveReply(r)
    BY <2>6 DEF OpenSession404, SaveUser, Stored, OpenResume, OpenResume404,
       PopNothing, Decide, StreamAnswer, SaveReply, Stored
  <2>7. QED
    BY <1>1, <2>1, <2>2, <2>3, <2>4, <2>5, <2>6 DEF Serve
<1>2. ASSUME NEW r \in Req, Disturb(r) PROVE MemoryOK!(z)!(q, t)'
  <2>1. CASE ArriveChat(r)
    BY <2>1 DEF ArriveChat
  <2>2. CASE ArriveResume(r)
    <3>1. UNCHANGED <<memory, snap, turn>> /\ pc[r] = "idle"
      BY <2>2 DEF ArriveResume
    <3>2. \A w \in Req \ {r} : pc'[w] = pc[w]
      BY <2>2 DEF ArriveResume
    <3>3. \A w \in Req : turn[w] = t /\ pc[w] \in {"remembered", "done", "failed"}
                         => turn'[w] = t /\ pc'[w] = pc[w]
      BY <3>1, <3>2
    <3>4. t \in memory'[z] \cup snap'[q] => t \in memory[z] \cup snap[q]
      BY <3>1
    <3>5. QED
      BY <3>3, <3>4
    <2>3. CASE Reject(r) \/ PrepareRaises(r) \/ Abort(r)
    BY <2>3 DEF Reject, PrepareRaises, Abort
  <2>4. QED
    BY <1>2, <2>1, <2>2, <2>3 DEF Disturb
<1>3. ASSUME NEW s \in Session, Sessions(s) PROVE MemoryOK!(z)!(q, t)'
    <2>1. CASE CreateSession(s) \/ DeleteFlush(s) \/ ScheduleClear(s) \/
            DeleteCommit(s) \/ DeleteRollback(s) \/ ClearMemory(s) \/ Expire(s)
    BY <2>1 DEF CreateSession, DeleteFlush, ScheduleClear, DeleteCommit,
       Outside, DeleteRollback, ClearMemory, Expire
  <2>2. QED
    BY <1>3, <2>1 DEF Sessions
<1>4. CASE Crash
  BY <1>4 DEF Crash
<1>5. CASE UNCHANGED vars
  BY <1>5 DEF vars
<1>6. QED
  BY <1>1, <1>2, <1>3, <1>4, <1>5 DEF Next

\* A request that enters a busy session is marked, with those it meets.
LEMMA OverlapStep == TypeOK /\ StagesOK /\ OverlapOK /\ [Next]_vars =>
  OverlapOK'
<1> SUFFICES ASSUME TypeOK, StagesOK, OverlapOK, [Next]_vars, NEW q \in Req,
             NEW z \in Req
             PROVE OverlapOK!(q, z)'
  BY DEF OverlapOK
<1> USE NoneAssumption, BoundAssumption DEF TypeOK, StagesOK, PC, Running,
        Ended, Routed, Answering, IsChat, ChatKind, Goto, dbVars, memVars,
        reqVars, turnVars, obsVars, OverlapOK, Busy, Admit
<1>1. ASSUME NEW r \in Req, Serve(r) PROVE OverlapOK!(q, z)'
  <2>1. CASE OpenSession(r)
    BY <2>1 DEF OpenSession, SessionFor
  <2>2. CASE Prepare(r)
    BY <2>2 DEF Prepare, AfterPrepare
  <2>3. CASE OpenResume(r)
    BY <2>3 DEF OpenResume
    <2>4. CASE OpenSession404(r) \/ SaveUser(r) \/ OpenResume404(r) \/
            PopPending(r) \/ PopNothing(r) \/ Decide(r) \/ StreamAnswer(r) \/
            CommitRead(r) \/ CommitWrite(r) \/ SaveReply(r)
    BY <2>4 DEF OpenSession404, SaveUser, Stored, OpenResume404, PopPending,
       AfterPop, PopNothing, Decide, StreamAnswer, CommitRead, CommitWrite,
       Merged, SaveReply, Stored
  <2>5. QED
    BY <1>1, <2>1, <2>2, <2>3, <2>4 DEF Serve
<1>2. ASSUME NEW r \in Req, Disturb(r) PROVE OverlapOK!(q, z)'
  <2>1. CASE ArriveChat(r)
    BY <2>1 DEF ArriveChat
  <2>2. CASE ArriveResume(r)
    BY <2>2 DEF ArriveResume
    <2>3. CASE Reject(r) \/ PrepareRaises(r) \/ Abort(r)
    BY <2>3 DEF Reject, PrepareRaises, Abort
  <2>4. QED
    BY <1>2, <2>1, <2>2, <2>3 DEF Disturb
<1>3. ASSUME NEW s \in Session, Sessions(s) PROVE OverlapOK!(q, z)'
  <2>1. CASE DeleteFlush(s)
    BY <2>1 DEF DeleteFlush
    <2>2. CASE CreateSession(s) \/ ScheduleClear(s) \/ DeleteCommit(s) \/
            DeleteRollback(s) \/ ClearMemory(s) \/ Expire(s)
    BY <2>2 DEF CreateSession, ScheduleClear, DeleteCommit, Outside,
       DeleteRollback, ClearMemory, Expire
  <2>3. QED
    BY <1>3, <2>1, <2>2 DEF Sessions
<1>4. CASE Crash
  BY <1>4 DEF Crash
<1>5. CASE UNCHANGED vars
  BY <1>5 DEF vars
<1>6. QED
  BY <1>1, <1>2, <1>3, <1>4, <1>5 DEF Next

\* A deletion marks the requests it catches at work, and those that come later
\* while it is open are marked as they enter.
LEMMA CaughtStep == TypeOK /\ StagesOK /\ DeletionOK /\ CaughtOK /\ [Next]_vars
  => CaughtOK'
<1> SUFFICES ASSUME TypeOK, StagesOK, DeletionOK, CaughtOK, [Next]_vars, NEW z
             \in Session, NEW q \in Req
             PROVE CaughtOK!(z)!(q)'
  BY DEF CaughtOK
<1> USE NoneAssumption, BoundAssumption DEF TypeOK, StagesOK, PC, Running,
        Ended, Routed, Answering, IsChat, ChatKind, Goto, dbVars, memVars,
        reqVars, turnVars, obsVars, CaughtOK, DeletionOK, Busy, BeingDeleted,
        Admit, RowFree
<1>1. ASSUME NEW r \in Req, Serve(r) PROVE CaughtOK!(z)!(q)'
  <2>1. CASE OpenSession(r)
    BY <2>1 DEF OpenSession, SessionFor
  <2>2. CASE Prepare(r)
    BY <2>2 DEF Prepare, AfterPrepare
  <2>3. CASE OpenResume(r)
    BY <2>3 DEF OpenResume
    <2>4. CASE OpenSession404(r) \/ SaveUser(r) \/ OpenResume404(r) \/
            PopPending(r) \/ PopNothing(r) \/ Decide(r) \/ StreamAnswer(r) \/
            CommitRead(r) \/ CommitWrite(r) \/ SaveReply(r)
    BY <2>4 DEF OpenSession404, SaveUser, Stored, OpenResume404, PopPending,
       AfterPop, PopNothing, Decide, StreamAnswer, CommitRead, CommitWrite,
       Merged, SaveReply, Stored
  <2>5. QED
    BY <1>1, <2>1, <2>2, <2>3, <2>4 DEF Serve
<1>2. ASSUME NEW r \in Req, Disturb(r) PROVE CaughtOK!(z)!(q)'
  <2>1. CASE ArriveChat(r)
    BY <2>1 DEF ArriveChat
  <2>2. CASE ArriveResume(r)
    BY <2>2 DEF ArriveResume
    <2>3. CASE Reject(r) \/ PrepareRaises(r) \/ Abort(r)
    BY <2>3 DEF Reject, PrepareRaises, Abort
  <2>4. QED
    BY <1>2, <2>1, <2>2, <2>3 DEF Disturb
<1>3. ASSUME NEW s \in Session, Sessions(s) PROVE CaughtOK!(z)!(q)'
  <2>1. CASE DeleteFlush(s)
    BY <2>1 DEF DeleteFlush
    <2>2. CASE CreateSession(s) \/ ScheduleClear(s) \/ DeleteCommit(s) \/
            DeleteRollback(s) \/ ClearMemory(s) \/ Expire(s)
    BY <2>2 DEF CreateSession, ScheduleClear, DeleteCommit, Outside,
       DeleteRollback, ClearMemory, Expire
  <2>3. QED
    BY <1>3, <2>1, <2>2 DEF Sessions
<1>4. CASE Crash
  BY <1>4 DEF Crash
<1>5. CASE UNCHANGED vars
  BY <1>5 DEF vars
<1>6. QED
  BY <1>1, <1>2, <1>3, <1>4, <1>5 DEF Next

\* A commit keeps the turns its snapshot holds, and a turn that met nobody is in
\* every snapshot taken after its own commit.
LEMMA RemembersStep == TypeOK /\ StagesOK /\ OverlapOK /\ RemembersOK /\
  [Next]_vars => RemembersOK'
<1> SUFFICES ASSUME TypeOK, StagesOK, OverlapOK, RemembersOK, [Next]_vars, NEW
             q \in Req
             PROVE RemembersOK!(q)'
  BY DEF RemembersOK
<1> USE NoneAssumption, BoundAssumption DEF TypeOK, StagesOK, PC, Running,
        Ended, Routed, Answering, IsChat, ChatKind, Goto, dbVars, memVars,
        reqVars, turnVars, obsVars, OverlapOK, RemembersOK, Admit
<1>1. ASSUME NEW r \in Req, Serve(r) PROVE RemembersOK!(q)'
  <2>1. CASE OpenSession(r)
    BY <2>1 DEF OpenSession, SessionFor
  <2>2. CASE Prepare(r)
    BY <2>2 DEF Prepare, AfterPrepare
  <2>3. CASE PopPending(r)
    BY <2>3 DEF PopPending
  <2>4. CASE CommitRead(r)
    BY <2>4 DEF CommitRead
  <2>5. CASE CommitWrite(r)
    BY <2>5 DEF CommitWrite, Merged
    <2>6. CASE OpenSession404(r) \/ SaveUser(r) \/ OpenResume(r) \/
            OpenResume404(r) \/ PopNothing(r) \/ Decide(r) \/ StreamAnswer(r)
            \/ SaveReply(r)
    BY <2>6 DEF OpenSession404, SaveUser, Stored, OpenResume, OpenResume404,
       PopNothing, Decide, StreamAnswer, SaveReply, Stored
  <2>7. QED
    BY <1>1, <2>1, <2>2, <2>3, <2>4, <2>5, <2>6 DEF Serve
<1>2. ASSUME NEW r \in Req, Disturb(r) PROVE RemembersOK!(q)'
  <2>1. CASE ArriveChat(r)
    BY <2>1 DEF ArriveChat
  <2>2. CASE ArriveResume(r)
    BY <2>2 DEF ArriveResume
    <2>3. CASE Reject(r) \/ PrepareRaises(r) \/ Abort(r)
    BY <2>3 DEF Reject, PrepareRaises, Abort
  <2>4. QED
    BY <1>2, <2>1, <2>2, <2>3 DEF Disturb
<1>3. ASSUME NEW s \in Session, Sessions(s) PROVE RemembersOK!(q)'
    <2>1. CASE CreateSession(s) \/ DeleteFlush(s) \/ ScheduleClear(s) \/
            DeleteCommit(s) \/ DeleteRollback(s) \/ ClearMemory(s) \/ Expire(s)
    BY <2>1 DEF CreateSession, DeleteFlush, ScheduleClear, DeleteCommit,
       Outside, DeleteRollback, ClearMemory, Expire
  <2>2. QED
    BY <1>3, <2>1 DEF Sessions
<1>4. CASE Crash
  BY <1>4 DEF Crash
<1>5. CASE UNCHANGED vars
  BY <1>5 DEF vars
<1>6. QED
  BY <1>1, <1>2, <1>3, <1>4, <1>5 DEF Next

\* Memory that comes after the deletion of a checkpoint is the commit of a
\* request that the deletion has caught.
LEMMA OrphansStep == TypeOK /\ StagesOK /\ DeletionOK /\ CaughtOK /\ OrphansOK
  /\ [Next]_vars => OrphansOK'
<1> SUFFICES ASSUME TypeOK, StagesOK, DeletionOK, CaughtOK, OrphansOK,
             [Next]_vars, NEW z \in Session
             PROVE OrphansOK!(z)'
  BY DEF OrphansOK
<1> USE NoneAssumption, BoundAssumption DEF TypeOK, StagesOK, PC, Running,
        Ended, Routed, Answering, IsChat, ChatKind, Goto, dbVars, memVars,
        reqVars, turnVars, obsVars, DeletionOK, CaughtOK, OrphansOK,
        BeingDeleted, Admit, RowFree
<1>1. ASSUME NEW r \in Req, Serve(r) PROVE OrphansOK!(z)'
  <2>1. CASE OpenSession(r)
    <3>1. UNCHANGED <<memory, clear, del>> /\ overlap \subseteq overlap'
      BY <2>1 DEF OpenSession
    <3>2. /\ turn[r] = None
          /\ \A w \in Req \ {r} : turn'[w] = turn[w] /\ at'[w] = at[w]
      BY <2>1 DEF OpenSession
    <3>3. QED
      BY <3>1, <3>2
  <2>2. CASE Prepare(r)
    BY <2>2 DEF Prepare, AfterPrepare
  <2>3. CASE PopPending(r)
    BY <2>3 DEF PopPending
  <2>4. CASE CommitWrite(r)
    BY <2>4 DEF CommitWrite, Merged
    <2>5. CASE OpenSession404(r) \/ SaveUser(r) \/ OpenResume(r) \/
            OpenResume404(r) \/ PopNothing(r) \/ Decide(r) \/ StreamAnswer(r)
            \/ CommitRead(r) \/ SaveReply(r)
    BY <2>5 DEF OpenSession404, SaveUser, Stored, OpenResume, OpenResume404,
       PopNothing, Decide, StreamAnswer, CommitRead, SaveReply, Stored
  <2>6. QED
    BY <1>1, <2>1, <2>2, <2>3, <2>4, <2>5 DEF Serve
<1>2. ASSUME NEW r \in Req, Disturb(r) PROVE OrphansOK!(z)'
  <2>1. CASE ArriveChat(r)
    BY <2>1 DEF ArriveChat
  <2>2. CASE ArriveResume(r)
    BY <2>2 DEF ArriveResume
    <2>3. CASE Reject(r) \/ PrepareRaises(r) \/ Abort(r)
    BY <2>3 DEF Reject, PrepareRaises, Abort
  <2>4. QED
    BY <1>2, <2>1, <2>2, <2>3 DEF Disturb
<1>3. ASSUME NEW s \in Session, Sessions(s) PROVE OrphansOK!(z)'
    <2>1. CASE CreateSession(s) \/ DeleteFlush(s) \/ ScheduleClear(s) \/
            DeleteCommit(s) \/ DeleteRollback(s) \/ ClearMemory(s) \/ Expire(s)
    BY <2>1 DEF CreateSession, DeleteFlush, ScheduleClear, DeleteCommit,
       Outside, DeleteRollback, ClearMemory, Expire
  <2>2. QED
    BY <1>3, <2>1 DEF Sessions
<1>4. CASE Crash
  BY <1>4 DEF Crash
<1>5. CASE UNCHANGED vars
  BY <1>5 DEF vars
<1>6. QED
  BY <1>1, <1>2, <1>3, <1>4, <1>5 DEF Next

\* Every step of the system keeps the invariant.
LEMMA InductiveStep == Inductive /\ [Next]_vars => Inductive'
BY TypeStep, StagesStep, RoutesStep, HoldersStep, PendingStep, RunsStep,
   RowsStep, DeletionStep, MemoryStep, OverlapStep, CaughtStep, RemembersStep,
   OrphansStep DEF Inductive

-----------------------------------------------------------------------------
(* Theorems *)

\* The inductive invariant holds in every behaviour of the server.
THEOREM InductiveInvariant == Spec => []Inductive
BY InductiveInit, InductiveStep, PTL DEF Spec

\* Every variable keeps its type.
THEOREM TypeCorrect == Spec => []TypeOK
<1>1. Inductive => TypeOK
  BY DEF Inductive
<1>2. QED
  BY <1>1, InductiveInvariant, PTL

\* However many resumes race for a turn, its tools run at most once
\* (pop_pending in human_loop.py, apply_hitl_tool_decision in graph.py).
THEOREM ToolsRunOnce == Spec => []ToolsRunAtMostOnce
<1>1. Inductive => ToolsRunAtMostOnce
  BY DEF Inductive, RunsOK, ToolsRunAtMostOnce
<1>2. QED
  BY <1>1, InductiveInvariant, PTL

\* A deferred call never runs without the approval of its own turn.
THEOREM ApprovalBeforeTools == Spec => []DeferredToolsNeedApproval
<1>1. Inductive => DeferredToolsNeedApproval
  <2> SUFFICES ASSUME Inductive, NEW t \in Req, path[t] = "legacy",
                      in[t].hitl, runs[t] > 0
               PROVE verdict[t] = "approve"
    BY DEF DeferredToolsNeedApproval
  <2>1. runs[t] # 0
    OBVIOUS
  <2>2. QED
    BY <2>1 DEF Inductive, RunsOK
<1>2. QED
  BY <1>1, InductiveInvariant, PTL

\* A turn is answered and charged at most once, whichever requests work on it.
THEOREM AnsweredOnce == Spec => []TurnAnsweredOnce
<1>1. Inductive => TurnAnsweredOnce
  <2> SUFFICES ASSUME Inductive PROVE TurnAnsweredOnce
    OBVIOUS
  <2>1. ASSUME NEW q \in billed, NEW r \in billed, turn[q] = turn[r]
        PROVE q = r
    <3>1. q \in Req /\ r \in Req /\ pc[q] = "done" /\ pc[r] = "done"
      BY DEF Inductive, TypeOK, RowsOK
    <3>2. turn[q] # None /\ turn[r] # None
      BY <3>1 DEF Inductive, StagesOK, Answering
    <3>3. CASE IsChat(q) /\ IsChat(r)
      BY <3>1, <3>2, <3>3, <2>1 DEF Inductive, StagesOK
    <3>4. CASE ~IsChat(q) /\ ~IsChat(r)
      BY <3>1, <3>2, <3>4, <2>1 DEF Inductive, HoldersOK
    <3>5. ASSUME NEW x \in Req, NEW y \in Req, IsChat(x), ~IsChat(y),
                 turn[x] = turn[y], turn[x] # None, pc[x] = "done"
          PROVE FALSE
      <4>1. turn[y] = x
        BY <3>5 DEF Inductive, StagesOK
      <4>2. pc[x] = "awaiting"
        BY <3>5, <4>1 DEF Inductive, HoldersOK
      <4>3. QED
        BY <4>2, <3>5
    <3>6. QED
      BY <3>1, <3>2, <3>3, <3>4, <3>5, <2>1
  <2>2. replies \subseteq billed
    BY DEF Inductive, RowsOK
  <2>3. QED
    BY <2>1, <2>2 DEF TurnAnsweredOnce
<1>2. QED
  BY <1>1, InductiveInvariant, PTL

\* A turn that waits for approval has been neither answered nor remembered.
THEOREM PendingIsOpen == Spec => []PendingTurnIsOpen
<1>1. Inductive => PendingTurnIsOpen
  <2> SUFFICES ASSUME Inductive, NEW s \in Session, pending[s] # None
               PROVE /\ at[pending[s]] = s
                     /\ pending[s] \notin memory[s]
                     /\ \A r \in Req : turn[r] = pending[s]
                                       => r = pending[s] /\ r \notin billed
    BY DEF PendingTurnIsOpen
  <2> DEFINE t == pending[s]
  <2>1. /\ t \in Req /\ pc[t] = "awaiting" /\ at[t] = s
        /\ \A r \in Req : ~IsChat(r) => turn[r] # t
    BY DEF Inductive, TypeOK, PendingOK
  <2>2. \A r \in Req : turn[r] = t => r = t
    <3> SUFFICES ASSUME NEW r \in Req, turn[r] = t PROVE r = t
      OBVIOUS
    <3>1. IsChat(r) /\ turn[r] # None
      BY <2>1
    <3>2. QED
      BY <3>1 DEF Inductive, StagesOK
  <2>3. t \notin billed
    BY <2>1 DEF Inductive, RowsOK
  <2>4. t \notin memory[s]
    <3> SUFFICES ASSUME t \in memory[s] PROVE FALSE
      OBVIOUS
    <3>1. PICK r \in Req : /\ turn[r] = t
                           /\ pc[r] \in {"remembered", "done", "failed"}
      BY <2>1 DEF Inductive, MemoryOK
    <3>2. QED
      BY <2>1, <2>2, <3>1
  <2>5. QED
    BY <2>1, <2>2, <2>3, <2>4
<1>2. QED
  BY <1>1, InductiveInvariant, PTL

\* An answer in the transcript has its question there too, although add_message
\* stores nothing when it does not find the session.
THEOREM QuestionsStay == Spec => []AnswersHaveQuestions
<1>1. Inductive => AnswersHaveQuestions
  <2> SUFFICES ASSUME Inductive, NEW r \in replies PROVE turn[r] \in said
    BY DEF AnswersHaveQuestions
  <2>1. r \in Req /\ pc[r] = "done" /\ row[at[r]] = "live"
    BY DEF Inductive, TypeOK, RowsOK
  <2>2. turn[r] # None
    BY <2>1 DEF Inductive, StagesOK, Answering
  <2>3. CASE IsChat(r)
    <3>1. turn[r] = r
      BY <2>1, <2>2, <2>3 DEF Inductive, StagesOK
    <3>2. QED
      BY <2>1, <2>3, <3>1 DEF Inductive, RowsOK, Routed, Answering
  <2>4. CASE ~IsChat(r)
    <3>1. /\ turn[r] \in Req /\ pc[turn[r]] = "awaiting"
          /\ at[turn[r]] = at[r]
      BY <2>1, <2>2, <2>4 DEF Inductive, TypeOK, HoldersOK
    <3>2. IsChat(turn[r])
      BY <3>1 DEF Inductive, StagesOK
    <3>3. QED
      BY <2>1, <3>1, <3>2 DEF Inductive, RowsOK, Routed
  <2>5. QED
    BY <2>3, <2>4
<1>2. QED
  BY <1>1, InductiveInvariant, PTL

\* A turn that had its session for itself is not lost by the read-merge-write of
\* commit_agent_state.
THEOREM SequentialUseRemembers == Spec => []RepliesAreRemembered
<1>1. Inductive => RepliesAreRemembered
  <2> SUFFICES ASSUME Inductive, NEW r \in replies, r \notin overlap
               PROVE turn[r] \in memory[at[r]] \cup erased
    BY DEF RepliesAreRemembered
  <2>1. r \in Req /\ pc[r] = "done"
    BY DEF Inductive, TypeOK, RowsOK
  <2>2. QED
    BY <2>1 DEF Inductive, RemembersOK
<1>2. QED
  BY <1>1, InductiveInvariant, PTL

\* Only a request that was at work during the deletion can leave memory behind.
THEOREM OrphansAreOverlaps == Spec => []OrphanMemoryNeedsOverlap
<1>1. Inductive => OrphanMemoryNeedsOverlap
  BY DEF Inductive, DeletionOK, OrphansOK, OrphanMemoryNeedsOverlap
<1>2. QED
  BY <1>1, InductiveInvariant, PTL

-----------------------------------------------------------------------------
(***************************************************************************)
(* ChatTurns implements the approval contract of ToolApproval, for every   *)
(* instance: each of its steps is a step of the contract or leaves the     *)
(* phases and the executed batches alone.                                  *)
(***************************************************************************)


\* The contract's variables, seen in a state of the server.
Phases == [t \in Req |-> PhaseOf(t)]
Ran == [t \in Req |-> path[t] = "legacy" /\ runs[t] > 0]

Contract == [Approval!Next]_(Approval!vars)

\* The phase of a turn by cases.
LEMMA Phase ==
  ASSUME NEW t \in Req, TypeOK
  PROVE /\ ~Deferred(t) => PhaseOf(t) = "open"
        /\ Deferred(t) /\ verdict[t] = "approve" => PhaseOf(t) = "approved"
        /\ Deferred(t) /\ verdict[t] = "reject" => PhaseOf(t) = "refused"
        /\ Deferred(t) /\ verdict[t] = "none" /\ Held(t)
           => PhaseOf(t) = "waiting"
        /\ Deferred(t) /\ verdict[t] = "none" /\ ~Held(t)
           => PhaseOf(t) = "dropped"
        /\ verdict[t] \in {"none", "approve", "reject"}
BY DEF PhaseOf, TypeOK, Verdict

\* The same in the state after a step.
LEMMA PhaseNext ==
  ASSUME NEW t \in Req, TypeOK'
  PROVE /\ ~Deferred(t)' => PhaseOf(t)' = "open"
        /\ Deferred(t)' /\ verdict'[t] = "approve" => PhaseOf(t)' = "approved"
        /\ Deferred(t)' /\ verdict'[t] = "reject" => PhaseOf(t)' = "refused"
        /\ Deferred(t)' /\ verdict'[t] = "none" /\ Held(t)'
           => PhaseOf(t)' = "waiting"
        /\ Deferred(t)' /\ verdict'[t] = "none" /\ ~Held(t)'
           => PhaseOf(t)' = "dropped"
        /\ verdict'[t] \in {"none", "approve", "reject"}
BY DEF PhaseOf, TypeOK, Verdict

\* A step that runs no batch, decides no deferred turn and asks nothing can only
\* let go of turns that were held: the contract drops them, or nothing changes.
LEMMA LetGo ==
  /\ TypeOK /\ TypeOK' /\ Ran' = Ran
  /\ \A t \in Req : /\ Deferred(t)' <=> Deferred(t)
                    /\ Deferred(t) => verdict'[t] = verdict[t]
                    /\ Deferred(t) /\ Held(t)' => Held(t)
  => Contract
<1> SUFFICES ASSUME TypeOK, TypeOK', Ran' = Ran,
                    \A t \in Req : /\ Deferred(t)' <=> Deferred(t)
                                   /\ Deferred(t) => verdict'[t] = verdict[t]
                                   /\ Deferred(t) /\ Held(t)' => Held(t)
             PROVE Contract
  OBVIOUS
<1> DEFINE D == {t \in Req : PhaseOf(t) = "waiting" /\ ~Held(t)'}
<1>1. ASSUME NEW t \in Req
      PROVE PhaseOf(t)' = IF t \in D THEN "dropped" ELSE PhaseOf(t)
  BY Phase, PhaseNext
<1>2. Phases' = [t \in Req |-> IF t \in D THEN "dropped" ELSE Phases[t]]
  BY <1>1 DEF Phases
<1>3. CASE D = {}
  <2>1. Phases' = Phases
    BY <1>2, <1>3 DEF Phases
  <2>2. QED
    BY <2>1 DEF Contract, Approval!vars, Phases, Ran
<1>4. CASE D # {}
  <2>1. D \in SUBSET Approval!Waiting
    BY DEF Approval!Waiting
  <2>2. Approval!Drop
    BY <1>2, <1>4, <2>1 DEF Approval!Drop, Approval!WithDropped, Phases, Ran
  <2>3. QED
    BY <2>2 DEF Contract, Approval!Next
<1>5. QED
  BY <1>3, <1>4

\* Preparing a turn lets go, runs the batch unasked, or asks.
LEMMA ContractPrepare ==
  ASSUME Inductive, Inductive', NEW r \in Req, NEW p \in Path,
         NEW calls \in BOOLEAN, Route(p, calls), pc[r] = "asked",
         path' = [path EXCEPT ![r] = p], RunTools(r, p, calls),
         \/ /\ pending' = [pending EXCEPT ![at[r]] = r]
            /\ Goto(r, "awaiting")
            /\ Interrupts(r, p, calls)
         \/ /\ pending' = pending
            /\ \E l \in PC \ {"awaiting", "popped"} : Goto(r, l)
            /\ Interrupts(r, p, calls) => p # "legacy",
         UNCHANGED <<turn, verdict>>
  PROVE  Contract
<1>1. /\ TypeOK /\ TypeOK' /\ path[r] = "none" /\ runs[r] = 0
      /\ verdict[r] = "none" /\ at[r] \in Session
  BY DEF Inductive, RoutesOK, StagesOK, Routed, Answering, Running
<1>2. /\ pc' \in [Req -> PC] /\ \A t \in Req \ {r} : pc'[t] = pc[t]
      /\ pc'[r] = "awaiting" => Interrupts(r, p, calls)
      /\ p = "legacy" /\ Interrupts(r, p, calls) => pc'[r] = "awaiting"
      /\ pc'[r] # "popped"
  BY <1>1 DEF Goto, TypeOK, Interrupts
<1>3. \A t \in Req \ {r} : /\ Deferred(t)' <=> Deferred(t)
                           /\ Held(t)' => Held(t)
                           /\ path'[t] = path[t] /\ runs'[t] = runs[t]
  BY <1>1, <1>2 DEF Deferred, Held, RunTools, TypeOK
<1>4. ~Deferred(r) /\ (Deferred(r)' <=> p = "legacy" /\ calls /\ in[r].hitl)
  BY <1>1, <1>2 DEF Deferred, Interrupts, TypeOK
<1>5. ~Ran[r] /\ (Ran'[r] <=> p = "legacy" /\ calls /\ ~in[r].hitl)
  <2>1. path'[r] = p /\ runs'[r] = IF calls /\ ~Defers(r, p) THEN 1 ELSE 0
    BY <1>1 DEF RunTools, TypeOK
  <2>2. p = "legacy" => (Defers(r, p) <=> in[r].hitl)
    BY DEF Defers
  <2>3. /\ Ran[r] <=> path[r] = "legacy" /\ runs[r] > 0
        /\ Ran'[r] <=> path'[r] = "legacy" /\ runs'[r] > 0
    BY Zenon DEF Ran
  <2>4. runs'[r] > 0 <=> calls /\ ~Defers(r, p)
    BY <2>1
  <2>5. QED
    BY Zenon, <2>1, <2>2, <2>3, <2>4, <1>1
<1>6. CASE p # "legacy" \/ ~calls
  <2>1. Ran' = Ran
    BY <1>1, <1>3, <1>5, <1>6 DEF Ran
  <2>2. QED
    BY <2>1, <1>1, <1>3, <1>4, <1>6, LetGo
<1>7. CASE p = "legacy" /\ calls /\ ~in[r].hitl
  <2>1. pending' = pending
    BY <1>7 DEF Interrupts
  <2>2. \A t \in Req : Deferred(t) => (Held(t)' <=> Held(t))
    BY <2>1, <1>1, <1>2, <1>4 DEF Held
  <2>3. \A t \in Req : PhaseOf(t)' = PhaseOf(t)
    BY <2>2, <1>1, <1>3, <1>4, <1>7, Phase, PhaseNext
  <2>4. Approval!RunUnasked(r)
    BY <2>3, <1>1, <1>3, <1>4, <1>5, <1>7, Phase
       DEF Approval!RunUnasked, Ran
  <2>5. QED
    BY <2>4 DEF Contract, Approval!Next
<1>8. CASE p = "legacy" /\ calls /\ in[r].hitl
  <2> DEFINE D == {t \in Req : PhaseOf(t) = "waiting" /\ ~Held(t)'}
  <2>1. Held(r)'
    BY <1>1, <1>8 DEF Held, Interrupts, TypeOK
  <2>2. PhaseOf(r)' = "waiting" /\ PhaseOf(r) = "open"
    BY <2>1, <1>1, <1>4, <1>8, Phase, PhaseNext
  <2>3. \A t \in Req \ {r} :
           PhaseOf(t)' = IF t \in D THEN "dropped" ELSE PhaseOf(t)
    BY <1>1, <1>3, Phase, PhaseNext
  <2>4. D \in SUBSET Approval!Waiting /\ r \notin D
    BY <2>1 DEF Approval!Waiting
  <2>5. Ran' = Ran
    BY <1>1, <1>3, <1>5, <1>8 DEF Ran
  <2>6. Phases' = [Approval!WithDropped(D) EXCEPT ![r] = "waiting"]
    BY <2>2, <2>3 DEF Phases, Approval!WithDropped
  <2>7. Approval!Ask(r)
    BY <2>2, <2>4, <2>5, <2>6, <1>5 DEF Approval!Ask, Phases, Ran
  <2>8. QED
    BY <2>7 DEF Contract, Approval!Next
<1>9. QED
  BY <1>6, <1>7, <1>8

\* A decision runs the batch of an approved turn, refuses a rejected one, and
\* leaves a ReAct turn as it is.
LEMMA ContractDecide ==
  ASSUME Inductive, Inductive', NEW r \in Req, Decide(r)
  PROVE  Contract
<1>d. PICK d \in Req : d = turn[r]
  BY DEF Inductive, Decide, TypeOK, StagesOK
<1>1. /\ TypeOK /\ TypeOK' /\ pc[r] = "popped"
      /\ pc[d] = "awaiting" /\ verdict[d] = "none"
      /\ in[r].act \in {"approve", "reject"} /\ Held(d)
  BY <1>d DEF Inductive, Decide, TypeOK, StagesOK, HoldersOK, Held
<1>2. /\ pc' = [pc EXCEPT ![r] = "prepared"]
      /\ verdict' = [verdict EXCEPT ![d] = in[r].act]
      /\ UNCHANGED <<path, pending, turn>>
      /\ runs' = [runs EXCEPT ![d] = @ + RunsOnDecision(d, in[r].act)]
  BY <1>d DEF Decide, Goto, reqVars
<1>3. /\ path[d] = "legacy" => runs[d] = 0
      /\ \A t \in Req : runs[t] \in Nat
  BY <1>1 DEF Inductive, TypeOK, RoutesOK, RunsOK
<1>4. \A t \in Req : Deferred(t)' <=> Deferred(t)
  BY <1>1, <1>2 DEF Deferred, TypeOK
<1>5. \A t \in Req \ {d} : /\ verdict'[t] = verdict[t] /\ runs'[t] = runs[t]
                           /\ Held(t)' <=> Held(t)
  BY <1>d, <1>1, <1>2 DEF Held, TypeOK
<1>6. /\ verdict'[d] = in[r].act /\ path'[d] = path[d]
      /\ runs'[d] = runs[d] + RunsOnDecision(d, in[r].act)
  BY <1>1, <1>2 DEF TypeOK
<1>7. CASE path[d] # "legacy"
  <2>1. ~Deferred(d)
    BY <1>7 DEF Deferred
  <2>2. Ran' = Ran
    BY <1>1, <1>2, <1>5, <1>7 DEF Ran
  <2>3. QED
    BY <2>1, <2>2, <1>1, <1>4, <1>5, LetGo
<1>8. CASE path[d] = "legacy"
  <2>1. Deferred(d) /\ PhaseOf(d) = "waiting"
    BY <1>1, <1>8, Phase DEF Deferred
  <2>2. \A t \in Req \ {d} : PhaseOf(t)' = PhaseOf(t)
    BY <1>1, <1>4, <1>5, Phase, PhaseNext
  <2>3. \A t \in Req \ {d} : Ran'[t] = Ran[t]
    BY <1>2, <1>5 DEF Ran
  <2>4. ~Ran[d]
    <3>1. ~(runs[d] > 0)
      BY <1>3, <1>8
    <3>2. QED
      BY Zenon, <3>1 DEF Ran
  <2>5. CASE in[r].act = "approve"
    <3>1. PhaseOf(d)' = "approved"
      BY <2>1, <2>5, <1>1, <1>4, <1>6, PhaseNext
    <3>2. runs'[d] > 0 /\ path'[d] = "legacy"
      BY <2>5, <1>3, <1>6, <1>8 DEF RunsOnDecision
    <3>3. Ran'[d]
      BY Zenon, <3>2 DEF Ran
    <3>4. Phases' = [Phases EXCEPT ![d] = "approved"]
      BY <3>1, <2>2, <1>1 DEF Phases
    <3>5. Ran' = [Ran EXCEPT ![d] = TRUE]
      BY <3>3, <2>3, <1>1 DEF Ran
    <3>6. Approval!Approve(d)
      BY <3>4, <3>5, <2>1, <2>4, <1>1 DEF Approval!Approve, Phases, Ran
    <3>7. QED
      BY <3>6, <1>1 DEF Contract, Approval!Next
  <2>6. CASE in[r].act = "reject"
    <3>1. PhaseOf(d)' = "refused"
      BY <2>1, <2>6, <1>1, <1>4, <1>6, PhaseNext
    <3>2. runs'[d] = runs[d] /\ path'[d] = path[d]
      BY <2>6, <1>3, <1>6 DEF RunsOnDecision
    <3>3. Ran'[d] = Ran[d]
      BY <3>2, <1>1 DEF Ran
    <3>4. Phases' = [Phases EXCEPT ![d] = "refused"]
      BY <3>1, <2>2, <1>1 DEF Phases
    <3>5. Ran' = Ran
      BY <3>3, <2>3, <1>1 DEF Ran
    <3>6. Approval!Refuse(d)
      BY <3>4, <3>5, <2>1, <1>1 DEF Approval!Refuse, Phases, Ran
    <3>7. QED
      BY <3>6, <1>1 DEF Contract, Approval!Next
  <2>7. QED
    BY <2>5, <2>6, <1>1
<1>9. QED
  BY <1>7, <1>8

-----------------------------------------------------------------------------
(* Every step *)

\* The server starts with nothing asked and nothing run.
LEMMA ContractInit == Init => Approval!Init
BY DEF Init, Approval!Init, PhaseOf, Deferred

\* The steps that neither prepare nor decide only let go.
LEMMA ContractQuiet ==
  ASSUME Inductive, Inductive', UNCHANGED <<path, runs, verdict>>,
         \A t \in Req : pc'[t] = "awaiting" <=> pc[t] = "awaiting",
         \A t \in Req : Held(t)' => Held(t)
  PROVE  Contract
<1>1. TypeOK /\ TypeOK' /\ Ran' = Ran
  BY DEF Inductive, Ran
<1>2. \A t \in Req : Deferred(t)' <=> Deferred(t)
  BY DEF Deferred
<1>3. QED
  BY <1>1, <1>2, LetGo

\* Every step of the system is a step of the contract or none.
LEMMA ContractStep == Inductive /\ Inductive' /\ [Next]_vars => Contract
<1> SUFFICES ASSUME Inductive, Inductive', [Next]_vars PROVE Contract
  OBVIOUS
<1>0. /\ pc \in [Req -> PC] /\ pending \in [Session -> Req \cup {None}]
      /\ turn \in [Req -> Req \cup {None}] /\ at \in [Req -> Session \cup {None}]
      /\ \A w \in Req : pc[w] \in Running => at[w] \in Session
  BY DEF Inductive, TypeOK, StagesOK
<1> USE <1>0 DEF PC, Running, Ended, Goto, Held, dbVars, memVars, reqVars,
        turnVars, obsVars
<1>1. ASSUME NEW r \in Req, Serve(r) PROVE Contract
  <2>1. CASE Prepare(r)
    <3>1. PICK p \in Path, calls \in BOOLEAN :
            /\ Route(p, calls)
            /\ path' = [path EXCEPT ![r] = p]
            /\ RunTools(r, p, calls)
            /\ pending' = IF Interrupts(r, p, calls)
                          THEN [pending EXCEPT ![at[r]] = r] ELSE pending
            /\ Goto(r, AfterPrepare(r, p, calls))
      BY <2>1 DEF Prepare
    <3>2. /\ Interrupts(r, p, calls) => AfterPrepare(r, p, calls) = "awaiting"
          /\ ~Interrupts(r, p, calls)
             => AfterPrepare(r, p, calls) \in {"drafted", "prepared"}
      BY DEF AfterPrepare
    <3>3. pc[r] = "asked" /\ UNCHANGED <<turn, verdict>>
      BY <2>1 DEF Prepare
    <3>4. QED
      BY <3>1, <3>2, <3>3, ContractPrepare
  <2>2. CASE Decide(r)
    BY <2>2, ContractDecide
  <2>3. CASE PopPending(r)
    <3>1. /\ pc[r] = "resuming" /\ pc' = [pc EXCEPT ![r] = "popped"]
          /\ turn' = [turn EXCEPT ![r] = pending[at[r]]]
          /\ pending' = [pending EXCEPT ![at[r]] = None]
          /\ UNCHANGED <<path, runs, verdict>>
      BY <2>3 DEF PopPending, AfterPop
    <3>2. at[r] \in Session
      BY <3>1
    <3>3. \A t \in Req : Held(t)' => Held(t)
      BY <3>1, <3>2, NoneAssumption
    <3>4. \A t \in Req : pc'[t] = "awaiting" <=> pc[t] = "awaiting"
      BY <3>1
    <3>5. QED
      BY <3>1, <3>3, <3>4, ContractQuiet
  <2>4. CASE OpenSession(r) \/ OpenSession404(r) \/ SaveUser(r)
             \/ OpenResume(r) \/ OpenResume404(r) \/ PopNothing(r)
    BY <2>4, ContractQuiet DEF OpenSession, OpenSession404, SaveUser,
       OpenResume, OpenResume404, PopNothing
  <2>5. CASE StreamAnswer(r) \/ CommitRead(r) \/ CommitWrite(r) \/ SaveReply(r)
    BY <2>5, ContractQuiet DEF StreamAnswer, CommitRead, CommitWrite, SaveReply
  <2>6. QED
    BY <1>1, <2>1, <2>2, <2>3, <2>4, <2>5 DEF Serve
<1>2. ASSUME NEW r \in Req, Disturb(r) PROVE Contract
  <2>1. CASE PrepareRaises(r)
    <3>1. PICK p \in Path, calls \in BOOLEAN :
            /\ Route(p, calls)
            /\ calls => p \in {"auto", "react"}
                        \/ (in[r].kind = "plain" /\ ~Interrupts(r, p, calls))
            /\ path' = [path EXCEPT ![r] = p]
            /\ RunTools(r, p, calls)
      BY <2>1 DEF PrepareRaises
    <3>2. /\ pending' = pending /\ Goto(r, "failed") /\ pc[r] = "asked"
          /\ UNCHANGED <<turn, verdict>>
      BY <2>1 DEF PrepareRaises
    <3>3. Interrupts(r, p, calls) => p # "legacy"
      BY <3>1 DEF Interrupts
    <3>4. QED
      BY <3>1, <3>2, <3>3, ContractPrepare
  <2>2. CASE ArriveChat(r) \/ ArriveResume(r) \/ Reject(r) \/ Abort(r)
    BY <2>2, ContractQuiet DEF ArriveChat, ArriveResume, Reject, Abort
  <2>3. QED
    BY <1>2, <2>1, <2>2 DEF Disturb
<1>3. ASSUME NEW s \in Session, Sessions(s) PROVE Contract
  <2>1. /\ UNCHANGED <<path, runs, verdict, pc, turn>>
        /\ pending' = pending \/ pending' = [pending EXCEPT ![s] = None]
    BY <1>3 DEF Sessions, CreateSession, DeleteFlush, ScheduleClear,
       DeleteCommit, DeleteRollback, ClearMemory, Expire
  <2>2. \A t \in Req : Held(t)' => Held(t)
    BY <2>1, NoneAssumption
  <2>3. QED
    BY <2>1, <2>2, ContractQuiet
<1>4. CASE Crash
  <2>1. /\ UNCHANGED <<path, runs, verdict, turn>>
        /\ pending' = [s \in Session |-> None]
        /\ \A w \in Req : pc'[w] = pc[w] \/ pc'[w] = "failed"
        /\ \A w \in Req : pc[w] = "awaiting" => pc'[w] = "awaiting"
    BY <1>4 DEF Crash
  <2>2. \A t \in Req : Held(t)' => Held(t)
    BY <2>1, NoneAssumption
  <2>3. QED
    BY <2>1, <2>2, ContractQuiet
<1>5. CASE UNCHANGED vars
  BY <1>5, ContractQuiet DEF vars
<1>6. QED
  BY <1>1, <1>2, <1>3, <1>4, <1>5 DEF Next

\* The server implements the contract: a deferred batch is asked about once and
\* then run, refused or dropped, whatever requests, deletions and restarts do.
THEOREM ApprovalImplemented == Spec => ApprovalContract
BY ContractInit, ContractStep, InductiveInvariant, PTL
   DEF ApprovalContract, Approval!Spec, Contract, Spec
=============================================================================
