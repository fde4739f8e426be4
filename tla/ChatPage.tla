------------------------------ MODULE ChatPage ------------------------------
(***************************************************************************)
(* The chat page of the browser: AppLayout with the hooks useChatStream    *)
(* and useSessions, the streams it reads and the answers it waits for.     *)
(* State of the hooks is one copy per page; callbacks of streams, answers  *)
(* to getSession, createSession and deleteSession, and clicks run in any   *)
(* order.  A question, its two messages and its stream share one number;   *)
(* a decision on tool calls is a stream of its own number.  Of the server  *)
(* only the turn parked in each session is kept.  The user may click at    *)
(* any time; an observer notes a click made while an answer is awaited.    *)
(***************************************************************************)
EXTENDS Naturals, Sequences, FiniteSets

CONSTANTS
  Session,    \* sessions the server may create
  None,       \* no session
  MaxStreams, \* bound: streams opened
  MaxLoads    \* bound: sessions selected

ASSUME NoneAssumption == None \notin Session
ASSUME BoundAssumption == MaxStreams \in Nat \ {0} /\ MaxLoads \in Nat

VARIABLES
  \* the hooks
  active,    \* activeId
  page,      \* messages: loaded rows and temporary messages, in order
  streaming, phase, error,
  card,      \* hitlPending: number of the question whose calls it shows, or 0
  waiting,   \* hitlLoading
  abortRef,  \* abortRef: number of the stream it aborts, or 0
  target,    \* pendingAssistantIdRef
  again,     \* pendingRetryRef: number of the question to repeat, or 0
  \* calls in flight
  stream,    \* number -> the stream
  loads,     \* sessions whose getSession is in flight
  picked,    \* sessions selected so far
  creating,  \* createSession in flight: "send" for a first question, "new" for the button
  deleting,  \* deleteSession in flight: session and the activeId its handler sees
  \* server
  life,      \* Session -> "free", "live" or "gone"
  parked,    \* Session -> question waiting for approval, or 0
  \* observers
  wrote,     \* question -> sessions whose streams wrote into its answer
  approved,  \* <<question shown, question resumed>>
  repeated,  \* <<failed question, its repetition>>
  missed,    \* a getSession has failed
  hasty      \* the user clicked while something was in flight (Stop excepted)

hookVars == <<active, page, streaming, phase, error, card, waiting, abortRef, target, again>>
callVars == <<stream, loads, picked, creating, deleting>>
serverVars == <<life, parked>>
noted == <<wrote, approved, repeated, missed>>
obsVars == <<noted, hasty>>
vars == <<active, page, streaming, phase, error, card, waiting, abortRef, target, again,
          stream, loads, picked, creating, deleting, life, parked, wrote, approved, repeated, missed, hasty>>

Number == 1..MaxStreams
Live == {"asked", "open", "interrupted"}    \* events may still arrive
Stream == [kind : {"chat", "approve", "reject"}, sess : Session \cup {None},
           msg : 0..MaxStreams, shown : 0..MaxStreams,
           state : {"none"} \cup Live \cup {"closing", "over"}]
NoStream == [kind |-> "chat", sess |-> None, msg |-> 0, shown |-> 0, state |-> "none"]
Entry == [role : {"rows", "user", "assistant"}, sess : Session \cup {None},
          n : 0..MaxStreams, text : BOOLEAN]

TypeOK ==
  /\ active \in Session \cup {None}
  /\ page \in Seq(Entry) /\ \A i \in DOMAIN page : page[i].role = "rows" => i = 1
  /\ streaming \in BOOLEAN /\ error \in BOOLEAN /\ waiting \in BOOLEAN
  /\ phase \in {"idle", "working", "awaiting", "error"}
  /\ card \in 0..MaxStreams /\ abortRef \in 0..MaxStreams
  /\ target \in 0..MaxStreams /\ again \in 0..MaxStreams
  /\ stream \in [Number -> Stream]
  /\ loads \in SUBSET Session /\ picked \in 0..MaxLoads
  /\ creating \in [{"send", "new"} -> Nat]
  /\ deleting \subseteq Session \X (Session \cup {None})
  /\ life \in [Session -> {"free", "live", "gone"}]
  /\ parked \in [Session -> 0..MaxStreams]
  /\ wrote \in [Number -> SUBSET Session]
  /\ approved \subseteq Number \X Number /\ repeated \subseteq Number \X Number
  /\ missed \in BOOLEAN /\ hasty \in BOOLEAN

Init ==
  /\ active = None /\ page = <<>> /\ streaming = FALSE /\ phase = "idle" /\ error = FALSE
  /\ card = 0 /\ waiting = FALSE /\ abortRef = 0 /\ target = 0 /\ again = 0
  /\ stream = [n \in Number |-> NoStream]
  /\ loads = {} /\ picked = 0 /\ creating = [send |-> 0, new |-> 0] /\ deleting = {}
  /\ life = [s \in Session |-> "free"] /\ parked = [s \in Session |-> 0]
  /\ wrote = [n \in Number |-> {}] /\ approved = {} /\ repeated = {}
  /\ missed = FALSE /\ hasty = FALSE

-----------------------------------------------------------------------------
(* Helpers *)

Open == {n \in Number : stream[n].state \in Live}
Busy == {n \in Number : stream[n].state \in Live \cup {"closing"}}
NothingCreated == creating.send = 0 /\ creating.new = 0
InFlight == Busy # {} \/ loads # {} \/ deleting # {} \/ ~NothingCreated
Click == hasty' = (hasty \/ InFlight)

\* The next number, while the bound allows one.
Free == {n \in Number : stream[n].state = "none" /\ \A m \in 1..(n - 1) : stream[m].state # "none"}
Begin(n, kind, s, msg, shown) ==
  stream' = [stream EXCEPT ![n] = [kind |-> kind, sess |-> s, msg |-> msg, shown |-> shown,
                                   state |-> "asked"]]

\* The list without its last k temporary messages.
Cut(list, k) ==
  LET rows == IF list # <<>> /\ list[1].role = "rows" THEN 1 ELSE 0
      keep == IF Len(list) >= rows + k THEN Len(list) - k ELSE rows
  IN SubSeq(list, 1, keep)

\* Mutant: the message a decision's answer goes to is not set anew.
SendMessage_Mutation(n, s, list) ==
  /\ Begin(n, "chat", s, n, 0)
  /\ page' = list \o <<[role |-> "user", sess |-> s, n |-> n, text |-> TRUE],
                       [role |-> "assistant", sess |-> s, n |-> n, text |-> FALSE]>>
  /\ error' = FALSE /\ streaming' = TRUE /\ card' = 0 /\ phase' = "working"
  /\ target' = (IF target = 0 THEN n ELSE target) /\ again' = 0 /\ abortRef' = n
\* sendMessage up to its await, on the given list of messages.
SendMessage(n, s, list) ==
  /\ Begin(n, "chat", s, n, 0)
  /\ page' = list \o <<[role |-> "user", sess |-> s, n |-> n, text |-> TRUE],
                       [role |-> "assistant", sess |-> s, n |-> n, text |-> FALSE]>>
  /\ error' = FALSE /\ streaming' = TRUE /\ card' = 0 /\ phase' = "working"
  /\ target' = n /\ again' = 0 /\ abortRef' = n

-----------------------------------------------------------------------------
(* Clicks *)

\* ChatInput offers sending and Stop according to this flag.
Sending == streaming /\ card = 0

\* handleSend; without an active session it creates one first.
HandleSend ==
  /\ ~Sending /\ Click
  /\ \/ /\ active # None
        /\ \E n \in Free : SendMessage(n, active, page)
        /\ UNCHANGED creating
     \/ /\ active = None /\ creating.send < 2 /\ Free # {}
        /\ creating' = [creating EXCEPT !.send = @ + 1]
        /\ UNCHANGED <<page, streaming, phase, error, card, abortRef, target, again, stream>>
  /\ UNCHANGED <<active, waiting, loads, picked, deleting, serverVars, noted>>

\* handleCreate waits for createSession.
HandleCreate ==
  /\ Click /\ creating.new = 0 /\ (\E s \in Session : life[s] = "free")
  /\ creating' = [creating EXCEPT !.new = 1]
  /\ UNCHANGED <<hookVars, stream, loads, picked, deleting, serverVars, noted>>

HandleSelect(s) ==
  /\ Click /\ life[s] = "live" /\ picked < MaxLoads /\ s \notin loads
  /\ active' = s /\ loads' = loads \cup {s} /\ picked' = picked + 1
  /\ UNCHANGED <<page, streaming, phase, error, card, waiting, abortRef, target, again,
                 stream, creating, deleting, serverVars, noted>>

HandleDelete(s) ==
  /\ Click /\ life[s] = "live" /\ ~\E d \in deleting : d[1] = s
  /\ deleting' = deleting \cup {<<s, active>>}
  /\ UNCHANGED <<hookVars, stream, loads, picked, creating, serverVars, noted>>

\* Mutant: the stream is not aborted.
Stop_Mutation ==
  /\ Sending
  /\ UNCHANGED stream
  /\ abortRef' = 0 /\ streaming' = FALSE /\ phase' = "idle"
  /\ UNCHANGED <<active, page, error, card, waiting, target, again,
                 loads, picked, creating, deleting, serverVars, obsVars>>
\* Mutant: the flags are left to the callbacks, but an abort calls none.
Stop_Trusting ==
  /\ Sending
  /\ IF abortRef # 0 /\ stream[abortRef].state \in Live
     THEN stream' = [stream EXCEPT ![abortRef].state = "closing"] ELSE UNCHANGED stream
  /\ abortRef' = 0 /\ UNCHANGED <<streaming, phase>>
  /\ UNCHANGED <<active, page, error, card, waiting, target, again,
                 loads, picked, creating, deleting, serverVars, obsVars>>
\* stop aborts whatever stream abortRef holds, if any.
Stop ==
  /\ Sending
  /\ IF abortRef # 0 /\ stream[abortRef].state \in Live
     THEN stream' = [stream EXCEPT ![abortRef].state = "closing"] ELSE UNCHANGED stream
  /\ abortRef' = 0 /\ streaming' = FALSE /\ phase' = "idle"
  /\ UNCHANGED <<active, page, error, card, waiting, target, again,
                 loads, picked, creating, deleting, serverVars, obsVars>>

\* Only the answer is cut when it has text: its question stays and is repeated below.
Retry ==
  /\ error /\ again # 0 /\ Click
  /\ \E n \in Free :
       /\ SendMessage(n, active,
            LET last == page[Len(page)]
            IN Cut(page, IF page # <<>> /\ last.role = "assistant" /\ ~last.text THEN 2 ELSE 1))
       /\ repeated' = repeated \cup {<<again, n>>}
  /\ UNCHANGED <<active, waiting, loads, picked, creating, deleting, serverVars,
                 wrote, approved, missed>>

\* The buttons of the card: a decision for the ACTIVE session, whose answer goes to
\* the message of the last question sent.
ResumeHitl(kind) ==
  /\ card # 0 /\ ~waiting /\ Click
  /\ active # None /\ target # 0
  /\ \E n \in Free : Begin(n, kind, active, target, card) /\ abortRef' = n
  /\ error' = FALSE /\ waiting' = TRUE /\ streaming' = TRUE /\ phase' = "working"
  /\ UNCHANGED <<active, page, card, target, again, loads, picked, creating, deleting,
                 serverVars, noted>>

-----------------------------------------------------------------------------
(* Answers to calls *)

\* createSession answers (or fails, and the click had no effect).
CreateAnswered(why) ==
  /\ creating[why] > 0
  /\ creating' = [creating EXCEPT ![why] = @ - 1]
  /\ \/ \E s \in Session :
          /\ life[s] = "free" /\ life' = [life EXCEPT ![s] = "live"]
          /\ active' = s
          /\ \/ why = "send" /\ \E n \in Free : SendMessage(n, s, page)
             \/ /\ why = "new" /\ page' = <<>> /\ error' = FALSE /\ phase' = "idle" /\ card' = 0
                /\ UNCHANGED <<streaming, abortRef, target, again, stream>>
     \/ UNCHANGED <<active, page, streaming, phase, error, card, abortRef, target, again, stream, life>>
  /\ UNCHANGED <<waiting, loads, picked, deleting, parked, obsVars>>

\* Mutant: the rows are added to the list.
LoadAnswered_Appends(s) ==
  /\ s \in loads /\ loads' = loads \ {s}
  /\ page' = Append(page, [role |-> "rows", sess |-> s, n |-> 0, text |-> TRUE])
  /\ error' = FALSE /\ phase' = "idle" /\ card' = 0
  /\ UNCHANGED <<active, streaming, waiting, abortRef, target, again, stream, picked, creating,
                 deleting, serverVars, obsVars>>
\* Mutant: the card of the session that was left stays.
LoadAnswered_Mutation(s) ==
  /\ s \in loads /\ loads' = loads \ {s}
  /\ \/ /\ page' = <<[role |-> "rows", sess |-> s, n |-> 0, text |-> TRUE]>>
        /\ error' = FALSE /\ phase' = "idle" /\ UNCHANGED <<card, missed>>
     \/ missed' = TRUE /\ UNCHANGED <<page, error, phase, card>>
  /\ UNCHANGED <<active, streaming, waiting, abortRef, target, again, stream, picked, creating,
                 deleting, serverVars, wrote, approved, repeated, hasty>>
\* Mutant: the error and the list of the session that was left stay.
LoadAnswered_Kept(s) ==
  /\ s \in loads /\ loads' = loads \ {s}
  /\ phase' = "idle" /\ card' = 0 /\ UNCHANGED <<page, error>>
  /\ UNCHANGED <<active, streaming, waiting, abortRef, target, again, stream, picked, creating,
                 deleting, serverVars, obsVars>>
\* loadSession after its await; a failed call changes nothing.
LoadAnswered(s) ==
  /\ s \in loads /\ loads' = loads \ {s}
  /\ \/ /\ page' = <<[role |-> "rows", sess |-> s, n |-> 0, text |-> TRUE]>>
        /\ error' = FALSE /\ phase' = "idle" /\ card' = 0 /\ UNCHANGED missed
     \/ missed' = TRUE /\ UNCHANGED <<page, error, phase, card>>
  /\ UNCHANGED <<active, streaming, waiting, abortRef, target, again, stream, picked, creating,
                 deleting, serverVars, wrote, approved, repeated, hasty>>

\* handleDelete compares with the activeId of the click.
DeleteAnswered(d) ==
  /\ d \in deleting /\ deleting' = deleting \ {d}
  /\ life' = [life EXCEPT ![d[1]] = "gone"]
  /\ IF d[2] = d[1]
     THEN active' = None /\ page' = <<>> /\ error' = FALSE /\ phase' = "idle" /\ card' = 0
     ELSE UNCHANGED <<active, page, error, phase, card>>
  /\ UNCHANGED <<streaming, waiting, abortRef, target, again, stream, loads, picked, creating,
                 parked, obsVars>>
-----------------------------------------------------------------------------
(* Events of a stream *)

Step(n, from, to) == stream[n].state \in from /\ stream' = [stream EXCEPT ![n].state = to]
Decision(n) == stream[n].kind # "chat"

\* The server accepts the request.  A question without a session opens one; a
\* decision pops the turn its session has parked, whatever the card showed.
ServerAccepts(n) ==
  /\ stream[n].state = "asked"
  /\ \E s \in Session :
       /\ IF stream[n].sess = None THEN life[s] = "free" ELSE s = stream[n].sess /\ life[s] = "live"
       /\ stream' = [stream EXCEPT ![n].state = "open", ![n].sess = s]
       /\ life' = [life EXCEPT ![s] = "live"]
       /\ IF Decision(n)
          THEN /\ parked[s] # 0 /\ parked' = [parked EXCEPT ![s] = 0]
               /\ approved' = approved \cup {<<stream[n].shown, parked[s]>>}
          ELSE UNCHANGED <<parked, approved>>
  /\ UNCHANGED <<hookVars, loads, picked, creating, deleting, wrote, repeated, missed, hasty>>

StatusEvent(n) ==
  /\ stream[n].state = "open" /\ phase' = "working" /\ phase # "working"
  /\ UNCHANGED <<active, page, streaming, error, card, waiting, abortRef, target, again,
                 callVars, serverVars, obsVars>>

\* The first token stands for all of them; it is lost when the message has left the list.
TokenEvent(n) ==
  LET m == stream[n].msg
      at == {i \in DOMAIN page : page[i].role = "assistant" /\ page[i].n = m}
  IN /\ stream[n].state = "open"
     /\ \E i \in at : ~page[i].text \/ stream[n].sess \notin wrote[m]
     /\ page' = [i \in DOMAIN page |-> IF i \in at THEN [page[i] EXCEPT !.text = TRUE] ELSE page[i]]
     /\ wrote' = [wrote EXCEPT ![m] = @ \cup {stream[n].sess}]
     /\ UNCHANGED <<active, streaming, phase, error, card, waiting, abortRef, target, again,
                    callVars, serverVars, approved, repeated, missed, hasty>>

\* The turn waits for approval: the server parks it in place of an older one ...
InterruptEvent(n) ==
  /\ ~Decision(n) /\ Step(n, {"open"}, "interrupted")
  /\ parked' = [parked EXCEPT ![stream[n].sess] = n]
  /\ card' = n /\ phase' = "awaiting"
  /\ UNCHANGED <<active, page, streaming, error, waiting, abortRef, target, again, loads, picked,
                 creating, deleting, life, obsVars>>

\* Mutant: the early return forgets the flag.
AwaitingEvent_Mutation(n) ==
  /\ Step(n, {"interrupted"}, "closing") /\ phase' = "awaiting"
  /\ UNCHANGED <<active, page, streaming, error, card, waiting, abortRef, target, again, loads, picked,
                 creating, deleting, serverVars, obsVars>>
\* ... and ends the stream with done(awaiting_approval).
AwaitingEvent(n) ==
  /\ Step(n, {"interrupted"}, "closing")
  /\ streaming' = FALSE /\ phase' = "awaiting"
  /\ UNCHANGED <<active, page, error, card, waiting, abortRef, target, again, loads, picked,
                 creating, deleting, serverVars, obsVars>>

DoneEvent(n) ==
  /\ Step(n, {"open"}, "closing")
  /\ streaming' = FALSE /\ phase' = "idle" /\ card' = 0
  /\ waiting' = (waiting /\ ~Decision(n))
  /\ UNCHANGED <<active, page, error, abortRef, target, again, loads, picked, creating, deleting,
                 serverVars, obsVars>>

\* An error event, a refused request, or a broken connection.
ErrorEvent(n) ==
  /\ Step(n, Live, "closing")
  /\ error' = TRUE /\ streaming' = FALSE /\ phase' = "error"
  /\ IF Decision(n)
     THEN waiting' = FALSE /\ UNCHANGED <<card, again>>
     ELSE card' = 0 /\ again' = n /\ UNCHANGED waiting
  /\ UNCHANGED <<active, page, abortRef, target, loads, picked, creating, deleting, serverVars, obsVars>>

\* The promise resolves; abortRef is cleared even when it holds a newer stream.
StreamOver(n) ==
  /\ Step(n, {"closing"}, "over") /\ abortRef' = 0
  /\ UNCHANGED <<active, page, streaming, phase, error, card, waiting, target, again, loads, picked,
                 creating, deleting, serverVars, obsVars>>

-----------------------------------------------------------------------------
User == \/ HandleSend \/ HandleCreate \/ Stop \/ Retry
        \/ \E s \in Session : HandleSelect(s) \/ HandleDelete(s)
        \/ \E k \in {"approve", "reject"} : ResumeHitl(k)
Answer == \/ \E why \in {"send", "new"} : CreateAnswered(why)
          \/ \E s \in Session : LoadAnswered(s)
          \/ \E d \in deleting : DeleteAnswered(d)
Ending(n) == \/ AwaitingEvent(n) \/ DoneEvent(n) \/ ErrorEvent(n) \/ StreamOver(n)
Event(n) == \/ ServerAccepts(n) \/ StatusEvent(n) \/ TokenEvent(n) \/ InterruptEvent(n) \/ Ending(n)

Next == User \/ Answer \/ \E n \in Number : Event(n)

\* The server ends every stream with done or an error, or the connection breaks.
Spec == Init /\ [][Next]_vars /\ \A n \in Number : WF_vars(Ending(n))

-----------------------------------------------------------------------------
(* Properties of every use of the page *)

\* Stale callbacks set the flags of newer streams, yet the page never claims to be
\* at work when no stream can change that any more.
StreamingMeansWork == streaming \/ phase = "working" => Open # {}

\* The page does not stay busy: sending becomes possible again after every question.
PageBecomesReady == streaming ~> ~streaming

\* "前端展示 HitlApprovalCard → 用户确认": a card that is shown when nothing is
\* in flight can be answered.  Does not hold for a hasty user (README, section 4).
CardCanBeAnswered == card # 0 /\ ~InFlight => ~waiting

-----------------------------------------------------------------------------
(* Properties for a user who waits *)

\* The user has clicked only while nothing was in flight, and every session
\* that was selected has been loaded.
Undisturbed == ~hasty /\ ~missed

\* What is on the page belongs to the active session.
PageShowsActiveSession ==
  Undisturbed /\ ~InFlight => \A i \in DOMAIN page : page[i].sess = active

\* The turn that continues after a decision is the one whose calls were shown.
DecidedAsShown == Undisturbed => \A p \in approved : p[1] = p[2]

\* An answer holds text of its own session only, also after decisions, and so
\* the answer of a decision is shown below the question it answers.
AnswerUnderItsQuestion ==
  Undisturbed => \A n \in Number :
    /\ wrote[n] \subseteq {stream[n].sess}
    /\ stream[n].state = "open" /\ Decision(n) => stream[n].msg = stream[n].shown

\* A question is repeated in the session in which it failed.
RepeatedInItsSession ==
  Undisturbed => \A p \in repeated : stream[p[1]].sess = stream[p[2]].sess

\* When the page is not streaming no stream writes any more: Stop stopped it.
StopStops == ~hasty /\ ~streaming => Open = {}

-----------------------------------------------------------------------------
(* The inductive invariant *)

\* The numbers that the page and the observers hold are those of streams; a
\* question writes into its own answer, a decision into that of a question.
NumbersFit ==
  /\ \A n \in Number : stream[n].state = "none" => wrote[n] = {}
  /\ \A n \in Number : stream[n].state # "none" => stream[n].msg # 0
  /\ \A n \in Number : stream[n].state # "none" /\ ~Decision(n) => stream[n].msg = n
  /\ \A n \in Number : stream[n].state = "interrupted" => ~Decision(n)
  /\ \A n \in Number : stream[n].state \in {"open", "interrupted"} => stream[n].sess # None
  /\ \A n \in {card, target, again} : n # 0 => stream[n].state # "none"
  /\ \A n \in Number : stream[n].state # "none" /\ Decision(n) =>
       stream[n].shown # 0 /\ stream[stream[n].msg].state # "none"
  /\ \A p \in repeated : stream[p[1]].state # "none" /\ stream[p[2]].state # "none"

\* A user who waits has one thing in flight at a time.
OneAtATime ==
  ~hasty =>
    /\ \A m, n \in Busy : m = n
    /\ Busy # {} => loads = {} /\ deleting = {} /\ NothingCreated
    /\ loads # {} => loads = {active} /\ deleting = {} /\ NothingCreated
    /\ deleting # {} => NothingCreated
    /\ \A d, e \in deleting : d = e /\ d[2] = active
    /\ creating.send + creating.new <= 1
    /\ creating.send > 0 => active = None

\* The stream in flight is the one that Stop aborts, and the page is at its question.
StreamInHand ==
  ~hasty =>
    /\ \A n \in Open : streaming /\ abortRef = n
    /\ \A n \in Open : ~Decision(n) =>
         /\ target = n /\ again = 0
         /\ card = IF stream[n].state = "interrupted" THEN n ELSE 0
    /\ \A n \in Open : Decision(n) =>
         card # 0 /\ stream[n].shown = card /\ stream[n].msg = target
    /\ card # 0 => card = target /\ again = 0
    /\ waiting => \E n \in Open : Decision(n)

\* Undisturbed, page, card and error are those of the active session, but while
\* another one is loaded.
PageAtSession ==
  Undisturbed =>
    /\ \A n \in Number : stream[n].state # "none" => stream[n].sess # None
    /\ \A n \in Busy : stream[n].sess = active
    /\ active = None => page = <<>> /\ ~error
    /\ loads = {} =>
         /\ \A i \in DOMAIN page : page[i].sess = active
         /\ card # 0 => stream[card].sess = active /\ parked[active] \in {0, card}
         /\ error /\ again # 0 => stream[again].sess = active

PageInv ==
  /\ TypeOK /\ NumbersFit /\ StreamingMeansWork
  /\ OneAtATime /\ StreamInHand /\ PageAtSession
  /\ DecidedAsShown /\ AnswerUnderItsQuestion /\ RepeatedInItsSession
=============================================================================
