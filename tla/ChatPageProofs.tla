---------------------------- MODULE ChatPageProofs ----------------------------
(***************************************************************************)
(* The chat page, for any sessions, any number of streams and whatever the *)
(* user does in the meantime. The invariant says where each stream in      *)
(* flight may still write: at most one is in hand, what is streamed is its *)
(* own, and the page is at the session it was last turned to or is on its  *)
(* way there.                                                              *)
(*                                                                         *)
(* The steps of the page change a stream, the messages and a few flags at  *)
(* once. What a step does to each is a lemma of its own, and the lemmas    *)
(* about the invariant's parts use those and not the steps.                *)
(***************************************************************************)
EXTENDS ChatPage, TLAPS

\* A number has been given to a new stream, and no other stream has changed.
Begun(n, kind, s, msg, shown) ==
  /\ n \in Number /\ stream[n].state = "none"
  /\ stream' \in [Number -> Stream]
  /\ stream'[n].kind = kind /\ stream'[n].sess = s /\ stream'[n].msg = msg
  /\ stream'[n].shown = shown /\ stream'[n].state = "asked"
  /\ \A m \in Number \ {n} : stream'[m] = stream[m]

\* A stream has changed its state, and nothing else has.
Stepped(n, from, to) ==
  /\ stream[n].state \in from
  /\ stream' \in [Number -> Stream]
  /\ stream'[n].kind = stream[n].kind /\ stream'[n].sess = stream[n].sess
  /\ stream'[n].msg = stream[n].msg /\ stream'[n].shown = stream[n].shown
  /\ stream'[n].state = to
  /\ \A m \in Number \ {n} : stream'[m] = stream[m]

LEMMA BeginStream ==
  ASSUME stream \in [Number -> Stream], NEW n \in Free, NEW kind \in {"chat", "approve", "reject"},
         NEW s \in Session \cup {None}, NEW msg \in 0..MaxStreams, NEW shown \in 0..MaxStreams,
         Begin(n, kind, s, msg, shown)
  PROVE  Begun(n, kind, s, msg, shown)
BY DEF Begin, Begun, Free, Stream, Live, Number

LEMMA StepStream ==
  ASSUME stream \in [Number -> Stream], NEW n \in Number, NEW from,
         NEW to \in Live \cup {"closing", "over"}, Step(n, from, to)
  PROVE  Stepped(n, from, to)
BY DEF Step, Stepped, Stream, Live

\* Messages stay messages, with the rows first, when the last are cut.
PageOK(list) == list \in Seq(Entry) /\ \A i \in DOMAIN list : list[i].role = "rows" => i = 1

LEMMA CutPage ==
  ASSUME NEW list, PageOK(list), NEW k \in {1, 2}
  PROVE  /\ PageOK(Cut(list, k))
         /\ \A i \in DOMAIN Cut(list, k) : i \in DOMAIN list /\ Cut(list, k)[i] = list[i]
<1> DEFINE rows == IF list # <<>> /\ list[1].role = "rows" THEN 1 ELSE 0
           keep == IF Len(list) >= rows + k THEN Len(list) - k ELSE rows
<1>1. list \in Seq(Entry) /\ Len(list) \in Nat /\ DOMAIN list = 1..Len(list)
  BY DEF PageOK
<1>2. rows \in {0, 1} /\ rows <= Len(list)
  BY <1>1
<1>3. keep \in 0..Len(list)
  BY <1>1, <1>2
<1> HIDE DEF keep
<1>4. Cut(list, k) = SubSeq(list, 1, keep)
  BY DEF Cut, keep
<1>5. SubSeq(list, 1, keep) \in Seq(Entry) /\ Len(SubSeq(list, 1, keep)) = keep
      /\ \A i \in 1..keep : SubSeq(list, 1, keep)[i] = list[i]
  BY <1>1, <1>3
<1> QED BY <1>1, <1>3, <1>4, <1>5 DEF PageOK

LEMMA AddQuestion ==
  ASSUME NEW list, PageOK(list), NEW s \in Session \cup {None}, NEW n \in Number
  PROVE  LET new == list \o <<[role |-> "user", sess |-> s, n |-> n, text |-> TRUE],
                              [role |-> "assistant", sess |-> s, n |-> n, text |-> FALSE]>>
         IN  /\ PageOK(new)
             /\ \A i \in DOMAIN new : (i \in DOMAIN list /\ new[i] = list[i]) \/ new[i].sess = s
<1> DEFINE u == [role |-> "user", sess |-> s, n |-> n, text |-> TRUE]
           a == [role |-> "assistant", sess |-> s, n |-> n, text |-> FALSE]
           new == list \o <<u, a>>
<1>1. list \in Seq(Entry) /\ Len(list) \in Nat /\ DOMAIN list = 1..Len(list)
  BY DEF PageOK
<1>2. u \in Entry /\ a \in Entry /\ u.role # "rows" /\ a.role # "rows" /\ u.sess = s /\ a.sess = s
  BY DEF Entry, Number
<1> HIDE DEF u, a
<1>3. new \in Seq(Entry) /\ Len(new) = Len(list) + 2
  BY <1>1, <1>2
<1>4. \A i \in DOMAIN new : (i \in DOMAIN list /\ new[i] = list[i]) \/ new[i] \in {u, a}
  BY <1>1, <1>3
<1>5. PageOK(new)
  BY <1>1, <1>2, <1>3, <1>4 DEF PageOK
<1> QED BY <1>2, <1>4, <1>5 DEF u, a

\* What sendMessage leaves behind.
Sent(n, s, list) ==
  /\ Begun(n, "chat", s, n, 0)
  /\ PageOK(page')
  /\ \A i \in DOMAIN page' : (i \in DOMAIN list /\ page'[i] = list[i]) \/ page'[i].sess = s
  /\ error' = FALSE /\ streaming' = TRUE /\ card' = 0 /\ phase' = "working"
  /\ target' = n /\ again' = 0 /\ abortRef' = n

LEMMA SendFacts ==
  ASSUME TypeOK, NEW list, PageOK(list), NEW s \in Session \cup {None}, NEW n \in Free,
         SendMessage(n, s, list)
  PROVE  Sent(n, s, list)
<1>1. n \in Number /\ n \in 0..MaxStreams /\ 0 \in 0..MaxStreams
  BY BoundAssumption DEF Free, Number
<1>2. stream \in [Number -> Stream]
  BY DEF TypeOK
<1>3. Begun(n, "chat", s, n, 0)
  BY <1>1, <1>2, BeginStream DEF SendMessage
<1> DEFINE new == list \o <<[role |-> "user", sess |-> s, n |-> n, text |-> TRUE],
                            [role |-> "assistant", sess |-> s, n |-> n, text |-> FALSE]>>
<1>4. /\ PageOK(new)
      /\ \A i \in DOMAIN new : (i \in DOMAIN list /\ new[i] = list[i]) \/ new[i].sess = s
  BY <1>1, AddQuestion
<1>5. page' = new
  BY DEF SendMessage
<1> HIDE DEF new
<1>6. PageOK(page') /\ \A i \in DOMAIN page' : (i \in DOMAIN list /\ page'[i] = list[i]) \/ page'[i].sess = s
  BY <1>4, <1>5 DEF PageOK
<1> QED BY <1>3, <1>6 DEF SendMessage, Sent

\* Retry as it is used below: the page is cut, and the question sent again.
LEMMA RetryFacts ==
  ASSUME TypeOK, Retry
  PROVE  \E n \in Free :
           /\ Begun(n, "chat", active, n, 0)
           /\ PageOK(page')
           /\ \A i \in DOMAIN page' : (i \in DOMAIN page /\ page'[i] = page[i]) \/ page'[i].sess = active
           /\ error' = FALSE /\ streaming' = TRUE /\ card' = 0 /\ phase' = "working"
           /\ target' = n /\ again' = 0 /\ abortRef' = n
           /\ repeated' = repeated \cup {<<again, n>>}
<1> DEFINE k == IF page # <<>> /\ page[Len(page)].role = "assistant" /\ ~page[Len(page)].text
                THEN 2 ELSE 1
           list == Cut(page, k)
<1>1. PICK n \in Free : SendMessage(n, active, list) /\ repeated' = repeated \cup {<<again, n>>}
  BY DEF Retry
<1>2. PageOK(page) /\ active \in Session \cup {None}
  BY DEF TypeOK, PageOK
<1>3. PageOK(list) /\ \A i \in DOMAIN list : i \in DOMAIN page /\ list[i] = page[i]
  BY <1>2, CutPage
<1> HIDE DEF list
<1>4. Sent(n, active, list)
  BY <1>1, <1>2, <1>3, SendFacts
<1>5. \A i \in DOMAIN page' : (i \in DOMAIN page /\ page'[i] = page[i]) \/ page'[i].sess = active
  BY <1>3, <1>4 DEF Sent
<1> QED BY <1>1, <1>4, <1>5 DEF Sent

-----------------------------------------------------------------------------
(* Types *)

\* TypeOK by the parts that are preserved for different reasons.
Flags ==
  /\ streaming \in BOOLEAN /\ error \in BOOLEAN /\ waiting \in BOOLEAN
  /\ missed \in BOOLEAN /\ hasty \in BOOLEAN
Scalars ==
  /\ active \in Session \cup {None}
  /\ phase \in {"idle", "working", "awaiting", "error"}
  /\ card \in 0..MaxStreams /\ abortRef \in 0..MaxStreams
  /\ target \in 0..MaxStreams /\ again \in 0..MaxStreams
  /\ loads \in SUBSET Session /\ picked \in 0..MaxLoads
  /\ deleting \subseteq Session \X (Session \cup {None})
Tables ==
  /\ creating \in [{"send", "new"} -> Nat]
  /\ life \in [Session -> {"free", "live", "gone"}]
  /\ parked \in [Session -> 0..MaxStreams]
  /\ wrote \in [Number -> SUBSET Session]
  /\ approved \subseteq Number \X Number /\ repeated \subseteq Number \X Number

LEMMA Types == TypeOK <=> PageOK(page) /\ Flags /\ Scalars /\ Tables /\ stream \in [Number -> Stream]
BY DEF TypeOK, PageOK, Flags, Scalars, Tables

LEMMA TypesNext ==
  ASSUME PageOK(page'), Flags', Scalars', Tables', stream' \in [Number -> Stream]
  PROVE  TypeOK'
BY DEF TypeOK, PageOK, Flags, Scalars, Tables

LEMMA TypeInit == Init => TypeOK
<1> USE BoundAssumption
<1> SUFFICES ASSUME Init PROVE TypeOK
  OBVIOUS
<1>1. PageOK(page)
  BY DEF Init, PageOK
<1>2. Flags /\ Scalars
  <2>1. Flags
    BY DEF Init, Flags
  <2>2. Scalars
    BY DEF Init, Scalars
  <2> QED BY <2>1, <2>2
<1>3. Tables
  BY DEF Init, Tables
<1>4. stream \in [Number -> Stream]
  BY DEF Init, Number, Stream, NoStream
<1> QED BY <1>1, <1>2, <1>3, <1>4, Types

LEMMA TypeUser == TypeOK /\ User => TypeOK'
<1> SUFFICES ASSUME PageOK(page), Flags, Scalars, Tables, stream \in [Number -> Stream], TypeOK, User
             PROVE  TypeOK'
  BY Types
<1> USE NoneAssumption, BoundAssumption DEF serverVars, noted, obsVars, hookVars, Click
<1>0. active \in Session \cup {None} /\ InFlight \in BOOLEAN
  BY DEF Flags, Scalars, InFlight
<1>1. CASE HandleSend
  <2>1. CASE active # None /\ (\E n \in Free : SendMessage(n, active, page)) /\ UNCHANGED creating
    <3>1. PICK n \in Free : Sent(n, active, page)
      BY <1>0, <2>1, SendFacts
    <3>2. n \in 0..MaxStreams
      BY DEF Free, Number
    <3>3. Flags' /\ Scalars'
      <4>1. Flags'
        BY <1>0, <1>1, <3>1, <3>2 DEF HandleSend, Sent, Flags
      <4>2. Scalars'
        BY <1>0, <1>1, <3>1, <3>2 DEF HandleSend, Sent, Scalars
      <4> QED BY <4>1, <4>2
    <3>4. Tables'
      BY <1>1, <2>1 DEF HandleSend, Tables
    <3> QED BY <3>1, <3>3, <3>4, TypesNext DEF Sent, Begun
  <2>2. CASE active = None /\ creating' = [creating EXCEPT !.send = @ + 1]
             /\ UNCHANGED <<page, streaming, phase, error, card, abortRef, target, again, stream>>
    <3>1. Flags' /\ Scalars'
      <4>1. Flags'
        BY <1>0, <1>1, <2>2 DEF HandleSend, Flags
      <4>2. Scalars'
        BY <1>0, <1>1, <2>2 DEF HandleSend, Scalars
      <4> QED BY <4>1, <4>2
    <3>2. Tables'
      BY <1>1, <2>2 DEF HandleSend, Tables
    <3> QED BY <2>2, <3>1, <3>2, TypesNext DEF PageOK
  <2> QED BY <1>1, <2>1, <2>2 DEF HandleSend
<1>2. CASE HandleCreate
  <2>1. Flags' /\ Scalars' /\ Tables'
    <3>1. Flags'
      BY <1>0, <1>2 DEF HandleCreate, Flags
    <3>2. Scalars'
      BY <1>0, <1>2 DEF HandleCreate, Scalars
    <3>3. Tables'
      BY <1>0, <1>2 DEF HandleCreate, Tables
    <3> QED BY <3>1, <3>2, <3>3
  <2> QED BY <1>2, <2>1, TypesNext DEF HandleCreate, PageOK
<1>3. CASE Stop
  <2>1. stream' \in [Number -> Stream]
    <3>1. CASE abortRef # 0 /\ stream[abortRef].state \in Live
      <4>1. abortRef \in Number /\ stream' = [stream EXCEPT ![abortRef].state = "closing"]
        BY <1>3, <3>1 DEF Stop, Scalars, Number
      <4> QED BY <4>1 DEF Stream
    <3>2. CASE ~(abortRef # 0 /\ stream[abortRef].state \in Live)
      BY <1>3, <3>2 DEF Stop
    <3> QED BY <3>1, <3>2
  <2>2. Flags' /\ Scalars' /\ Tables'
    <3>1. Flags'
      BY <1>3 DEF Stop, Flags
    <3>2. Scalars'
      BY <1>3 DEF Stop, Scalars
    <3>3. Tables'
      BY <1>3 DEF Stop, Tables
    <3> QED BY <3>1, <3>2, <3>3
  <2> QED BY <1>3, <2>1, <2>2, TypesNext DEF Stop, PageOK
<1>4. CASE Retry
  <2>1. PICK n \in Free :
          /\ Begun(n, "chat", active, n, 0) /\ PageOK(page')
          /\ error' = FALSE /\ streaming' = TRUE /\ card' = 0 /\ phase' = "working"
          /\ target' = n /\ again' = 0 /\ abortRef' = n
          /\ repeated' = repeated \cup {<<again, n>>}
    BY <1>4, RetryFacts
  <2>2. n \in 0..MaxStreams /\ n \in Number
    BY DEF Free, Number
  <2>3. again \in Number
    BY <1>4 DEF Retry, Flags, Scalars, Number
  <2>4. Flags' /\ Scalars'
    <3>1. Flags'
      BY <1>0, <1>4, <2>1, <2>2 DEF Retry, Flags
    <3>2. Scalars'
      BY <1>0, <1>4, <2>1, <2>2 DEF Retry, Scalars
    <3> QED BY <3>1, <3>2
  <2>5. Tables'
    BY <1>4, <2>1, <2>2, <2>3 DEF Retry, Tables
  <2> QED BY <2>1, <2>4, <2>5, TypesNext DEF Begun
<1>5. CASE \E s \in Session : HandleSelect(s)
  <2>1. Flags' /\ Scalars' /\ Tables'
    <3>1. Flags'
      BY <1>0, <1>5 DEF HandleSelect, Flags
    <3>2. Scalars'
      BY <1>0, <1>5 DEF HandleSelect, Scalars
    <3>3. Tables'
      BY <1>0, <1>5 DEF HandleSelect, Tables
    <3> QED BY <3>1, <3>2, <3>3
  <2> QED BY <1>5, <2>1, TypesNext DEF HandleSelect, PageOK
<1>6. CASE \E s \in Session : HandleDelete(s)
  <2>1. Flags' /\ Scalars' /\ Tables'
    <3>1. Flags'
      BY <1>0, <1>6 DEF HandleDelete, Flags
    <3>2. Scalars'
      BY <1>0, <1>6 DEF HandleDelete, Scalars
    <3>3. Tables'
      BY <1>0, <1>6 DEF HandleDelete, Tables
    <3> QED BY <3>1, <3>2, <3>3
  <2> QED BY <1>6, <2>1, TypesNext DEF HandleDelete, PageOK
<1>7. CASE \E k \in {"approve", "reject"} : ResumeHitl(k)
  <2>1. PICK k \in {"approve", "reject"} : ResumeHitl(k)
    BY <1>7
  <2>2. PICK n \in Free : Begin(n, k, active, target, card) /\ abortRef' = n
    BY <2>1 DEF ResumeHitl
  <2>3. target \in 0..MaxStreams /\ card \in 0..MaxStreams
    BY DEF Flags, Scalars
  <2>4. Begun(n, k, active, target, card)
    BY <1>0, <2>2, <2>3, BeginStream
  <2>5. n \in 0..MaxStreams
    BY DEF Free, Number
  <2>6. Flags' /\ Scalars' /\ Tables'
    <3>1. Flags'
      BY <1>0, <2>1, <2>2, <2>5 DEF ResumeHitl, Flags
    <3>2. Scalars'
      BY <1>0, <2>1, <2>2, <2>5 DEF ResumeHitl, Scalars
    <3>3. Tables'
      BY <1>0, <2>1, <2>2, <2>5 DEF ResumeHitl, Tables
    <3> QED BY <3>1, <3>2, <3>3
  <2> QED BY <2>1, <2>4, <2>6, TypesNext DEF ResumeHitl, Begun, PageOK
<1> QED BY <1>1, <1>2, <1>3, <1>4, <1>5, <1>6, <1>7 DEF User

LEMMA TypeAnswer == TypeOK /\ Answer => TypeOK'
<1> SUFFICES ASSUME PageOK(page), Flags, Scalars, Tables, stream \in [Number -> Stream], TypeOK, Answer
             PROVE  TypeOK'
  BY Types
<1> USE NoneAssumption, BoundAssumption DEF serverVars, noted, obsVars, hookVars
<1>0. PageOK(<<>>)
  BY DEF PageOK
<1>1. CASE \E why \in {"send", "new"} : CreateAnswered(why)
  <2>1. PICK why \in {"send", "new"} : CreateAnswered(why)
    BY <1>1
  <2>2. creating' \in [{"send", "new"} -> Nat]
    BY <2>1 DEF CreateAnswered, Tables
  <2>3. CASE UNCHANGED <<active, page, streaming, phase, error, card, abortRef, target, again, stream, life>>
    <3>1. Flags' /\ Scalars' /\ Tables'
      <4>1. Flags'
        BY <2>1, <2>2, <2>3 DEF CreateAnswered, Flags
      <4>2. Scalars'
        BY <2>1, <2>2, <2>3 DEF CreateAnswered, Scalars
      <4>3. Tables'
        BY <2>1, <2>2, <2>3 DEF CreateAnswered, Tables
      <4> QED BY <4>1, <4>2, <4>3
    <3> QED BY <2>3, <3>1, TypesNext DEF PageOK
  <2>4. ASSUME NEW s \in Session, life' = [life EXCEPT ![s] = "live"], active' = s,
               NEW n \in Free, SendMessage(n, s, page)
        PROVE  TypeOK'
    <3>1. Sent(n, s, page)
      BY <2>4, SendFacts
    <3>2. n \in 0..MaxStreams
      BY DEF Free, Number
    <3>3. Flags' /\ Scalars'
      <4>1. Flags'
        BY <2>1, <2>4, <3>1, <3>2 DEF CreateAnswered, Sent, Flags
      <4>2. Scalars'
        BY <2>1, <2>4, <3>1, <3>2 DEF CreateAnswered, Sent, Scalars
      <4> QED BY <4>1, <4>2
    <3>4. Tables'
      BY <2>1, <2>2, <2>4 DEF CreateAnswered, Tables
    <3> QED BY <3>1, <3>3, <3>4, TypesNext DEF Sent, Begun
  <2>5. ASSUME NEW s \in Session, life' = [life EXCEPT ![s] = "live"], active' = s,
               page' = <<>>, error' = FALSE, phase' = "idle", card' = 0,
               UNCHANGED <<streaming, abortRef, target, again, stream>>
        PROVE  TypeOK'
    <3>1. Flags' /\ Scalars'
      <4>1. Flags'
        BY <2>1, <2>5 DEF CreateAnswered, Flags
      <4>2. Scalars'
        BY <2>1, <2>5 DEF CreateAnswered, Scalars
      <4> QED BY <4>1, <4>2
    <3>2. Tables'
      BY <2>1, <2>2, <2>5 DEF CreateAnswered, Tables
    <3> QED BY <1>0, <2>5, <3>1, <3>2, TypesNext
  <2> QED BY <2>1, <2>3, <2>4, <2>5 DEF CreateAnswered
<1>2. CASE \E s \in Session : LoadAnswered(s)
  <2>1. PICK s \in Session : LoadAnswered(s)
    BY <1>2
  <2> DEFINE rows == <<[role |-> "rows", sess |-> s, n |-> 0, text |-> TRUE]>>
  <2>2. PageOK(rows)
    <3>1. [role |-> "rows", sess |-> s, n |-> 0, text |-> TRUE] \in Entry
      BY DEF Entry
    <3> QED BY <3>1 DEF PageOK
  <2>3. page' \in {rows, page}
    BY <2>1 DEF LoadAnswered
  <2>4. Flags' /\ Scalars' /\ Tables'
    <3>1. Flags'
      BY <2>1 DEF LoadAnswered, Flags
    <3>2. Scalars'
      BY <2>1 DEF LoadAnswered, Scalars
    <3>3. Tables'
      BY <2>1 DEF LoadAnswered, Tables
    <3> QED BY <3>1, <3>2, <3>3
  <2>5. stream' = stream
    BY <2>1 DEF LoadAnswered
  <2> HIDE DEF rows
  <2>6. PageOK(page')
    BY <2>2, <2>3 DEF PageOK
  <2> QED BY <2>4, <2>5, <2>6, TypesNext
<1>3. CASE \E d \in deleting : DeleteAnswered(d)
  <2>1. PICK d \in deleting : DeleteAnswered(d)
    BY <1>3
  <2>2. Flags' /\ Scalars'
    <3>1. Flags'
      BY <2>1 DEF DeleteAnswered, Flags
    <3>2. Scalars'
      BY <2>1 DEF DeleteAnswered, Scalars
    <3> QED BY <3>1, <3>2
  <2>3. Tables'
    BY <2>1 DEF DeleteAnswered, Tables, Flags, Scalars
  <2>4. page' \in {<<>>, page} /\ stream' = stream
    BY <2>1 DEF DeleteAnswered
  <2>5. PageOK(page')
    BY <1>0, <2>4 DEF PageOK
  <2> QED BY <2>2, <2>3, <2>4, <2>5, TypesNext
<1> QED BY <1>1, <1>2, <1>3 DEF Answer

LEMMA TypeEvent == TypeOK /\ NumbersFit /\ (\E n \in Number : Event(n)) => TypeOK'
<1> SUFFICES ASSUME PageOK(page), Flags, Scalars, Tables, stream \in [Number -> Stream],
                    NumbersFit, NEW n \in Number, Event(n)
             PROVE  TypeOK'
  BY Types
<1> USE NoneAssumption, BoundAssumption DEF serverVars, noted, obsVars, hookVars, callVars
<1>0. {"closing", "over", "interrupted"} \subseteq Live \cup {"closing", "over"} /\ n \in 0..MaxStreams
  BY DEF Live, Number
<1>1. CASE ServerAccepts(n)
  <2>1. PICK s \in Session :
           /\ stream' = [stream EXCEPT ![n].state = "open", ![n].sess = s]
           /\ life' = [life EXCEPT ![s] = "live"]
           /\ IF Decision(n)
              THEN /\ parked[s] # 0 /\ parked' = [parked EXCEPT ![s] = 0]
                   /\ approved' = approved \cup {<<stream[n].shown, parked[s]>>}
              ELSE UNCHANGED <<parked, approved>>
    BY <1>1 DEF ServerAccepts
  <2>2. stream' \in [Number -> Stream]
    BY <2>1 DEF Stream, Live
  <2>3. Flags' /\ Scalars'
    <3>1. Flags'
      BY <1>1 DEF ServerAccepts, Flags
    <3>2. Scalars'
      BY <1>1 DEF ServerAccepts, Scalars
    <3> QED BY <3>1, <3>2
  <2>4. Tables'
    <3>1. stream[n].state = "asked" /\ stream[n].shown \in 0..MaxStreams
      BY <1>1 DEF ServerAccepts, Stream
    <3>2. Decision(n) => stream[n].shown \in Number
      BY <3>1 DEF NumbersFit, Number
    <3>3. parked[s] # 0 => parked[s] \in Number
      BY DEF Tables, Number
    <3>4. creating' \in [{"send", "new"} -> Nat] /\ wrote' \in [Number -> SUBSET Session]
          /\ repeated' \subseteq Number \X Number
      BY <1>1 DEF ServerAccepts, Tables
    <3>5. life' \in [Session -> {"free", "live", "gone"}]
      BY <2>1 DEF Tables
    <3>6. parked' \in [Session -> 0..MaxStreams] /\ approved' \subseteq Number \X Number
      BY <2>1, <3>2, <3>3 DEF Tables
    <3> QED BY <3>4, <3>5, <3>6 DEF Tables
  <2> QED BY <1>1, <2>2, <2>3, <2>4, TypesNext DEF ServerAccepts, PageOK
<1>2. CASE StatusEvent(n)
  <2>1. Flags' /\ Scalars' /\ Tables'
    <3>1. Flags'
      BY <1>2 DEF StatusEvent, Flags
    <3>2. Scalars'
      BY <1>2 DEF StatusEvent, Scalars
    <3>3. Tables'
      BY <1>2 DEF StatusEvent, Tables
    <3> QED BY <3>1, <3>2, <3>3
  <2> QED BY <1>2, <2>1, TypesNext DEF StatusEvent, PageOK
<1>3. CASE TokenEvent(n)
  <2>1. PageOK(page')
    <3> DEFINE at == {i \in DOMAIN page : page[i].role = "assistant" /\ page[i].n = stream[n].msg}
    <3>1. page' = [i \in DOMAIN page |-> IF i \in at THEN [page[i] EXCEPT !.text = TRUE] ELSE page[i]]
      BY <1>3 DEF TokenEvent
    <3>2. page \in Seq(Entry) /\ Len(page) \in Nat /\ DOMAIN page = 1..Len(page)
      BY DEF PageOK
    <3>3. \A i \in DOMAIN page : page[i] \in Entry /\ [page[i] EXCEPT !.text = TRUE] \in Entry
                                 /\ [page[i] EXCEPT !.text = TRUE].role = page[i].role
      <4> SUFFICES ASSUME NEW i \in DOMAIN page
                   PROVE  page[i] \in Entry /\ [page[i] EXCEPT !.text = TRUE] \in Entry
                          /\ [page[i] EXCEPT !.text = TRUE].role = page[i].role
        OBVIOUS
      <4>1. page[i] \in Entry
        BY <3>2
      <4> QED BY <4>1 DEF Entry
    <3> HIDE DEF at
    <3>4. page' \in Seq(Entry) /\ DOMAIN page' = DOMAIN page
      BY <3>1, <3>2, <3>3
    <3>5. \A i \in DOMAIN page : page'[i].role = page[i].role
      BY <3>1, <3>3
    <3> QED BY <3>4, <3>5 DEF PageOK
  <2>2. Flags' /\ Scalars'
    <3>1. Flags'
      BY <1>3 DEF TokenEvent, Flags
    <3>2. Scalars'
      BY <1>3 DEF TokenEvent, Scalars
    <3> QED BY <3>1, <3>2
  <2>3. stream[n].sess \in Session
    <3>1. stream[n].state = "open"
      BY <1>3 DEF TokenEvent
    <3>2. stream[n].sess \in Session \cup {None}
      BY DEF Stream
    <3> QED BY <3>1, <3>2 DEF NumbersFit
  <2>4. Tables'
    BY <1>3, <2>3 DEF TokenEvent, Tables
  <2> QED BY <1>3, <2>1, <2>2, <2>4, TypesNext DEF TokenEvent
<1>4. CASE InterruptEvent(n)
  <2>1. stream' \in [Number -> Stream]
    BY <1>0, <1>4, StepStream DEF InterruptEvent, Stepped
  <2>2. Flags' /\ Scalars' /\ Tables'
    <3>1. Flags'
      BY <1>0, <1>4 DEF InterruptEvent, Flags
    <3>2. Scalars'
      BY <1>0, <1>4 DEF InterruptEvent, Scalars
    <3>3. Tables'
      BY <1>0, <1>4 DEF InterruptEvent, Tables
    <3> QED BY <3>1, <3>2, <3>3
  <2> QED BY <1>4, <2>1, <2>2, TypesNext DEF InterruptEvent, PageOK
<1>5. CASE AwaitingEvent(n)
  <2>1. stream' \in [Number -> Stream]
    BY <1>0, <1>5, StepStream DEF AwaitingEvent, Stepped
  <2>2. Flags' /\ Scalars' /\ Tables'
    <3>1. Flags'
      BY <1>5 DEF AwaitingEvent, Flags
    <3>2. Scalars'
      BY <1>5 DEF AwaitingEvent, Scalars
    <3>3. Tables'
      BY <1>5 DEF AwaitingEvent, Tables
    <3> QED BY <3>1, <3>2, <3>3
  <2> QED BY <1>5, <2>1, <2>2, TypesNext DEF AwaitingEvent, PageOK
<1>6. CASE DoneEvent(n)
  <2>1. stream' \in [Number -> Stream]
    BY <1>0, <1>6, StepStream DEF DoneEvent, Stepped
  <2>2. Flags' /\ Scalars' /\ Tables'
    <3>1. Flags'
      BY <1>6 DEF DoneEvent, Flags, Decision
    <3>2. Scalars'
      BY <1>6 DEF DoneEvent, Scalars
    <3>3. Tables'
      BY <1>6 DEF DoneEvent, Tables
    <3> QED BY <3>1, <3>2, <3>3
  <2> QED BY <1>6, <2>1, <2>2, TypesNext DEF DoneEvent, PageOK
<1>7. CASE ErrorEvent(n)
  <2>1. stream' \in [Number -> Stream]
    BY <1>0, <1>7, StepStream DEF ErrorEvent, Stepped
  <2>2. Flags' /\ Scalars' /\ Tables'
    <3>1. Flags'
      BY <1>0, <1>7 DEF ErrorEvent, Flags
    <3>2. Scalars'
      BY <1>0, <1>7 DEF ErrorEvent, Scalars
    <3>3. Tables'
      BY <1>0, <1>7 DEF ErrorEvent, Tables
    <3> QED BY <3>1, <3>2, <3>3
  <2> QED BY <1>7, <2>1, <2>2, TypesNext DEF ErrorEvent, PageOK
<1>8. CASE StreamOver(n)
  <2>1. stream' \in [Number -> Stream]
    BY <1>0, <1>8, StepStream DEF StreamOver, Stepped
  <2>2. Flags' /\ Scalars' /\ Tables'
    <3>1. Flags'
      BY <1>8 DEF StreamOver, Flags
    <3>2. Scalars'
      BY <1>8 DEF StreamOver, Scalars
    <3>3. Tables'
      BY <1>8 DEF StreamOver, Tables
    <3> QED BY <3>1, <3>2, <3>3
  <2> QED BY <1>8, <2>1, <2>2, TypesNext DEF StreamOver, PageOK
<1> QED BY <1>1, <1>2, <1>3, <1>4, <1>5, <1>6, <1>7, <1>8 DEF Event, Ending

LEMMA TypeStep == TypeOK /\ NumbersFit /\ [Next]_vars => TypeOK'
<1>1. TypeOK /\ UNCHANGED vars => TypeOK'
  BY DEF TypeOK, vars
<1> QED BY <1>1, TypeUser, TypeAnswer, TypeEvent DEF Next

-----------------------------------------------------------------------------
(* Streams *)

\* What may become of a stream in a step.
Starts(n) ==
  /\ stream[n].state = "none" /\ stream'[n].state = "asked" /\ stream'[n].msg # 0
  /\ IF stream'[n].kind = "chat" THEN stream'[n].msg = n
     ELSE stream'[n].shown # 0 /\ stream[stream'[n].msg].state # "none"
GoesOn(n) ==
  /\ stream[n].state # "none" /\ stream'[n].state # "none"
  /\ stream'[n].kind = stream[n].kind /\ stream'[n].msg = stream[n].msg
  /\ stream'[n].shown = stream[n].shown
  /\ stream[n].sess # None => stream'[n].sess = stream[n].sess
  /\ stream'[n].state \in {"open", "interrupted"} => stream'[n].sess # None
  /\ stream'[n].state = "interrupted" => stream[n].kind = "chat"
  /\ stream'[n].state = "open" => stream[n].state \in {"asked", "open"}
Evolves(n) == stream'[n] = stream[n] \/ Starts(n) \/ GoesOn(n)

LEMMA StopStream ==
  ASSUME TypeOK, Stop
  PROVE  UNCHANGED stream \/ (abortRef \in Number /\ Stepped(abortRef, Live, "closing"))
<1>1. stream \in [Number -> Stream] /\ abortRef \in 0..MaxStreams
  BY DEF TypeOK
<1>2. CASE abortRef # 0 /\ stream[abortRef].state \in Live
  <2>1. abortRef \in Number /\ Step(abortRef, Live, "closing")
    BY <1>1, <1>2, BoundAssumption DEF Stop, Step, Number
  <2> QED BY <1>1, <2>1, StepStream
<1>3. CASE ~(abortRef # 0 /\ stream[abortRef].state \in Live)
  BY <1>3 DEF Stop
<1> QED BY <1>2, <1>3

\* A stream that is accepted, in the session that the server found or made.
Accepted(n, s) ==
  /\ stream[n].state = "asked" /\ stream' \in [Number -> Stream]
  /\ stream'[n].kind = stream[n].kind /\ stream'[n].msg = stream[n].msg
  /\ stream'[n].shown = stream[n].shown /\ stream'[n].sess = s /\ stream'[n].state = "open"
  /\ stream[n].sess # None => stream[n].sess = s
  /\ \A m \in Number \ {n} : stream'[m] = stream[m]
  /\ IF Decision(n)
     THEN parked[s] # 0 /\ approved' = approved \cup {<<stream[n].shown, parked[s]>>} /\ parked'[s] = 0
     ELSE UNCHANGED <<parked, approved>>

LEMMA AcceptStream ==
  ASSUME TypeOK, NEW n \in Number, ServerAccepts(n)
  PROVE  \E s \in Session : Accepted(n, s)
<1>1. stream \in [Number -> Stream] /\ parked \in [Session -> 0..MaxStreams]
  BY DEF TypeOK
<1>2. PICK s \in Session :
         /\ IF stream[n].sess = None THEN life[s] = "free" ELSE s = stream[n].sess /\ life[s] = "live"
         /\ stream' = [stream EXCEPT ![n].state = "open", ![n].sess = s]
         /\ IF Decision(n)
            THEN /\ parked[s] # 0 /\ parked' = [parked EXCEPT ![s] = 0]
                 /\ approved' = approved \cup {<<stream[n].shown, parked[s]>>}
            ELSE UNCHANGED <<parked, approved>>
  BY DEF ServerAccepts
<1>3. /\ stream' \in [Number -> Stream]
      /\ stream'[n].kind = stream[n].kind /\ stream'[n].msg = stream[n].msg
      /\ stream'[n].shown = stream[n].shown /\ stream'[n].sess = s /\ stream'[n].state = "open"
      /\ \A m \in Number \ {n} : stream'[m] = stream[m]
  BY <1>1, <1>2 DEF Stream, Live
<1>4. stream[n].state = "asked" /\ (stream[n].sess # None => stream[n].sess = s)
  BY <1>2 DEF ServerAccepts
<1>5. Decision(n) => parked'[s] = 0
  BY <1>1, <1>2
<1> QED BY <1>2, <1>3, <1>4, <1>5 DEF Accepted

\* The buttons of the card begin a decision.
LEMMA ResumeStream ==
  ASSUME TypeOK, NEW k \in {"approve", "reject"}, ResumeHitl(k)
  PROVE  \E n \in Free : Begun(n, k, active, target, card) /\ abortRef' = n
<1>1. PICK n \in Free : Begin(n, k, active, target, card) /\ abortRef' = n
  BY DEF ResumeHitl
<1>2. /\ target \in 0..MaxStreams /\ card \in 0..MaxStreams /\ active \in Session \cup {None}
      /\ stream \in [Number -> Stream]
  BY DEF TypeOK
<1>3. Begun(n, k, active, target, card)
  BY <1>1, <1>2, BeginStream
<1> QED BY <1>1, <1>3

\* The first question of a session without one, when its session has been made.
LEMMA CreateFacts ==
  ASSUME TypeOK, NEW why \in {"send", "new"}, CreateAnswered(why)
  PROVE  \/ UNCHANGED <<active, page, streaming, phase, error, card, abortRef, target, again, stream>>
         \/ \E s \in Session :
              /\ active' = s
              /\ \/ why = "send" /\ \E n \in Free : Sent(n, s, page)
                 \/ /\ page' = <<>> /\ error' = FALSE /\ phase' = "idle" /\ card' = 0
                    /\ UNCHANGED <<streaming, abortRef, target, again, stream>>
<1>1. PageOK(page)
  BY DEF TypeOK, PageOK
<1>2. ASSUME NEW s \in Session, NEW n \in Free, SendMessage(n, s, page) PROVE Sent(n, s, page)
  BY <1>1, <1>2, SendFacts
<1> QED BY <1>2 DEF CreateAnswered

LEMMA UserStreams ==
  ASSUME TypeOK, NumbersFit, User, NEW n \in Number
  PROVE  Evolves(n)
<1> USE DEF Evolves
<1>0. PageOK(page) /\ active \in Session \cup {None} /\ stream \in [Number -> Stream]
      /\ target \in 0..MaxStreams
  BY DEF TypeOK, PageOK
<1>1. ASSUME NEW m \in Number, NEW s, Begun(m, "chat", s, m, 0) PROVE Evolves(n)
  BY <1>1, BoundAssumption DEF Begun, Starts, Number
<1>2. CASE HandleSend
  <2>1. CASE UNCHANGED stream
    BY <2>1
  <2>2. CASE \E m \in Free : SendMessage(m, active, page)
    <3>1. PICK m \in Free : Sent(m, active, page)
      BY <1>0, <2>2, SendFacts
    <3> QED BY <1>1, <3>1 DEF Sent, Free
  <2> QED BY <1>2, <2>1, <2>2 DEF HandleSend
<1>3. CASE UNCHANGED stream
  BY <1>3
<1>4. CASE Stop
  <2>1. CASE UNCHANGED stream
    BY <2>1
  <2>2. CASE abortRef \in Number /\ Stepped(abortRef, Live, "closing")
    BY <2>2 DEF Stepped, GoesOn, Live
  <2> QED BY <1>4, <2>1, <2>2, StopStream
<1>5. CASE Retry
  <2>1. PICK m \in Free : Begun(m, "chat", active, m, 0)
    BY <1>5, RetryFacts
  <2> QED BY <1>1, <2>1 DEF Free
<1>6. CASE \E k \in {"approve", "reject"} : ResumeHitl(k)
  <2>1. PICK k \in {"approve", "reject"} : ResumeHitl(k)
    BY <1>6
  <2>2. PICK m \in Free : Begun(m, k, active, target, card)
    BY <2>1, ResumeStream
  <2>3. card # 0 /\ target # 0 /\ stream[target].state # "none"
    BY <2>1 DEF ResumeHitl, NumbersFit
  <2> QED BY <2>2, <2>3 DEF Begun, Starts
<1> QED BY <1>2, <1>3, <1>4, <1>5, <1>6 DEF User, HandleCreate, HandleSelect, HandleDelete, hookVars

LEMMA AnswerStreams ==
  ASSUME TypeOK, Answer, NEW n \in Number
  PROVE  Evolves(n)
<1>1. CASE \E why \in {"send", "new"} : CreateAnswered(why)
  <2>1. CASE UNCHANGED stream
    BY <2>1 DEF Evolves
  <2>2. CASE \E s \in Session : \E m \in Free : Sent(m, s, page)
    BY <2>2, BoundAssumption DEF Sent, Begun, Starts, Evolves, Number
  <2> QED BY <1>1, <2>1, <2>2, CreateFacts
<1>2. CASE (\E s \in Session : LoadAnswered(s)) \/ (\E d \in deleting : DeleteAnswered(d))
  BY <1>2 DEF LoadAnswered, DeleteAnswered, Evolves
<1> QED BY <1>1, <1>2 DEF Answer

LEMMA EventStreams ==
  ASSUME TypeOK, NumbersFit, NEW m \in Number, Event(m), NEW n \in Number
  PROVE  Evolves(n)
<1>1. stream \in [Number -> Stream] /\ {"closing", "over", "interrupted"} \subseteq Live \cup {"closing", "over"}
  BY DEF TypeOK, Live
<1>2. CASE ServerAccepts(m)
  <2>1. PICK s \in Session : Accepted(m, s)
    BY <1>2, AcceptStream
  <2> QED BY <2>1, NoneAssumption DEF Accepted, GoesOn, Evolves
<1>3. CASE StatusEvent(m) \/ TokenEvent(m)
  BY <1>3 DEF StatusEvent, TokenEvent, callVars, Evolves
<1>4. CASE InterruptEvent(m)
  <2>1. Stepped(m, {"open"}, "interrupted") /\ ~Decision(m)
    BY <1>1, <1>4, StepStream DEF InterruptEvent
  <2>2. stream[m].sess # None
    BY <2>1 DEF Stepped, NumbersFit
  <2> QED BY <2>1, <2>2 DEF Stepped, GoesOn, Evolves, Decision
<1>5. ASSUME NEW from \in {Live, {"open"}, {"interrupted"}, {"closing"}}, NEW to \in {"closing", "over"},
             Step(m, from, to)
      PROVE  Evolves(n)
  <2>1. Stepped(m, from, to)
    BY <1>1, <1>5, StepStream
  <2> QED BY <2>1 DEF Stepped, GoesOn, Evolves, Live
<1> QED BY <1>2, <1>3, <1>4, <1>5 DEF Event, Ending, AwaitingEvent, DoneEvent, ErrorEvent, StreamOver

LEMMA StreamsEvolve ==
  ASSUME TypeOK, NumbersFit, Next
  PROVE  \A n \in Number : Evolves(n)
BY UserStreams, AnswerStreams, EventStreams DEF Next

-----------------------------------------------------------------------------
(* The numbers of the page *)

\* Observers and hooks hold numbers they held before, or those of streams.
NumbersGo ==
  /\ \A n \in Number : wrote'[n] = wrote[n] \/ stream[n].state # "none"
  /\ \A k \in {card', target', again'} :
       k \in {0, card, target, again} \/ (k \in Number /\ stream'[k].state # "none")
  /\ \A p \in repeated' :
       p \in repeated \/ (stream'[p[1]].state # "none" /\ stream'[p[2]].state # "none")

LEMMA NumbersKept ==
  ASSUME TypeOK, stream' \in [Number -> Stream], NumbersFit,
         \A n \in Number : Evolves(n), NumbersGo
  PROVE  NumbersFit'
<1>1. \A n \in Number : stream[n].state # "none" => stream'[n].state # "none"
  BY DEF Evolves, Starts, GoesOn
<1>2. \A n \in Number : stream'[n].state = "none" => wrote'[n] = {}
  BY <1>1 DEF NumbersGo, NumbersFit
<1>3. \A n \in Number : /\ stream'[n].state # "none" => stream'[n].msg # 0
                        /\ stream'[n].state # "none" /\ stream'[n].kind = "chat" => stream'[n].msg = n
  BY DEF Evolves, Starts, GoesOn, NumbersFit, Decision
<1>4. \A n \in Number : /\ stream'[n].state = "interrupted" => stream'[n].kind = "chat"
                        /\ stream'[n].state \in {"open", "interrupted"} => stream'[n].sess # None
  BY DEF Evolves, Starts, GoesOn, NumbersFit, Decision
<1>5. \A k \in {card', target', again'} : k # 0 => stream'[k].state # "none"
  <2>1. \A k \in {card, target, again} : k # 0 => k \in Number /\ stream[k].state # "none"
    BY BoundAssumption DEF TypeOK, NumbersFit, Number
  <2> QED BY <1>1, <2>1 DEF NumbersGo
<1>6. ASSUME NEW n \in Number, stream'[n].state # "none", stream'[n].kind # "chat"
      PROVE  stream'[n].shown # 0 /\ stream'[stream'[n].msg].state # "none"
  <2>1. stream'[n].shown # 0 /\ stream'[n].msg # 0 /\ stream[stream'[n].msg].state # "none"
    BY <1>3, <1>6 DEF Evolves, Starts, GoesOn, NumbersFit, Decision
  <2>2. stream'[n].msg \in Number
    <3>1. stream'[n].msg \in 0..MaxStreams
      BY DEF Stream
    <3> QED BY <2>1, <3>1, BoundAssumption DEF Number
  <2> QED BY <1>1, <2>1, <2>2
<1>7. \A p \in repeated' : stream'[p[1]].state # "none" /\ stream'[p[2]].state # "none"
  <2>1. \A p \in repeated : p[1] \in Number /\ p[2] \in Number
    BY DEF TypeOK
  <2> QED BY <1>1, <2>1 DEF NumbersGo, NumbersFit
<1> QED BY <1>2, <1>3, <1>4, <1>5, <1>6, <1>7 DEF NumbersFit, Decision

LEMMA NumbersUser == TypeOK /\ NumbersFit /\ User => NumbersGo
<1> SUFFICES ASSUME TypeOK, NumbersFit, User PROVE NumbersGo
  OBVIOUS
<1> USE DEF serverVars, noted, obsVars, hookVars
<1>0. PageOK(page) /\ active \in Session \cup {None} /\ wrote' = wrote
  BY DEF TypeOK, PageOK, User, HandleSend, HandleCreate, Stop, Retry, HandleSelect, HandleDelete, ResumeHitl
<1>1. CASE HandleSend
  <2>1. CASE \E m \in Free : SendMessage(m, active, page)
    <3>1. PICK m \in Free : Sent(m, active, page)
      BY <1>0, <2>1, SendFacts
    <3> QED BY <1>0, <1>1, <3>1 DEF Sent, Begun, HandleSend, NumbersGo
  <2>2. CASE UNCHANGED <<card, target, again>>
    BY <1>0, <1>1, <2>2 DEF HandleSend, NumbersGo
  <2> QED BY <1>1, <2>1, <2>2 DEF HandleSend
<1>2. CASE Retry
  <2>1. PICK m \in Free :
          /\ Begun(m, "chat", active, m, 0) /\ card' = 0 /\ target' = m /\ again' = 0
          /\ repeated' = repeated \cup {<<again, m>>}
    BY <1>2, RetryFacts
  <2>2. again \in Number /\ stream[again].state # "none"
    BY <1>2, BoundAssumption DEF Retry, TypeOK, NumbersFit, Number
  <2>3. stream'[again].state # "none" /\ stream'[m].state # "none"
    BY <2>1, <2>2 DEF Begun
  <2>4. \A p \in repeated' : p \in repeated \/ (stream'[p[1]].state # "none" /\ stream'[p[2]].state # "none")
    BY <2>1, <2>3
  <2> QED BY <1>0, <2>1, <2>4 DEF Begun, NumbersGo
<1>3. CASE HandleCreate \/ Stop \/ \E s \in Session : HandleSelect(s) \/ HandleDelete(s)
  BY <1>0, <1>3 DEF HandleCreate, Stop, HandleSelect, HandleDelete, NumbersGo
<1>4. CASE \E k \in {"approve", "reject"} : ResumeHitl(k)
  BY <1>0, <1>4 DEF ResumeHitl, NumbersGo
<1> QED BY <1>1, <1>2, <1>3, <1>4 DEF User

LEMMA NumbersAnswer == TypeOK /\ NumbersFit /\ Answer => NumbersGo
<1> SUFFICES ASSUME TypeOK, NumbersFit, Answer PROVE NumbersGo
  OBVIOUS
<1> USE DEF serverVars, noted, obsVars, hookVars
<1>1. wrote' = wrote /\ repeated' = repeated
  BY DEF Answer, CreateAnswered, LoadAnswered, DeleteAnswered
<1>2. CASE \E why \in {"send", "new"} : CreateAnswered(why)
  BY <1>1, <1>2, CreateFacts DEF Sent, Begun, NumbersGo
<1>3. CASE (\E s \in Session : LoadAnswered(s)) \/ (\E d \in deleting : DeleteAnswered(d))
  <2>1. card' \in {0, card} /\ UNCHANGED <<target, again>>
    BY <1>3 DEF LoadAnswered, DeleteAnswered
  <2> QED BY <1>1, <2>1 DEF NumbersGo
<1> QED BY <1>2, <1>3 DEF Answer

LEMMA NumbersEvent == TypeOK /\ NumbersFit /\ (\E n \in Number : Event(n)) => NumbersGo
<1> SUFFICES ASSUME TypeOK, NumbersFit, NEW n \in Number, Event(n) PROVE NumbersGo
  OBVIOUS
<1> USE DEF serverVars, noted, obsVars, hookVars, callVars
<1>1. repeated' = repeated
  BY DEF Event, Ending, ServerAccepts, StatusEvent, TokenEvent, InterruptEvent, AwaitingEvent,
         DoneEvent, ErrorEvent, StreamOver
<1>2. CASE TokenEvent(n)
  <2>1. stream[stream[n].msg].state # "none"
    BY <1>2 DEF TokenEvent, NumbersFit
  <2>2. \A m \in Number : wrote'[m] = wrote[m] \/ m = stream[n].msg
    BY <1>2 DEF TokenEvent, TypeOK
  <2> QED BY <1>1, <1>2, <2>1, <2>2 DEF TokenEvent, NumbersGo
<1>3. CASE ServerAccepts(n) \/ StatusEvent(n) \/ AwaitingEvent(n) \/ DoneEvent(n) \/ StreamOver(n)
  <2>1. wrote' = wrote /\ card' \in {0, card} /\ UNCHANGED <<target, again>>
    BY <1>3 DEF ServerAccepts, StatusEvent, AwaitingEvent, DoneEvent, StreamOver
  <2> QED BY <1>1, <2>1 DEF NumbersGo
<1>4. CASE InterruptEvent(n) \/ ErrorEvent(n)
  <2>1. wrote' = wrote /\ card' \in {0, card, n} /\ again' \in {again, n} /\ target' = target
    BY <1>4 DEF InterruptEvent, ErrorEvent
  <2>2. stream[n].state # "none" /\ stream'[n].state # "none"
    <3>1. stream \in [Number -> Stream]
      BY DEF TypeOK
    <3>2. Step(n, {"open"}, "interrupted") \/ Step(n, Live, "closing")
      BY <1>4 DEF InterruptEvent, ErrorEvent
    <3>3. Stepped(n, {"open"}, "interrupted") \/ Stepped(n, Live, "closing")
      BY <3>1, <3>2, StepStream DEF Live
    <3> QED BY <3>3 DEF Stepped, Live
  <2> QED BY <1>1, <2>1, <2>2 DEF NumbersGo
<1> QED BY <1>2, <1>3, <1>4 DEF Event, Ending

LEMMA NumbersInit == Init => NumbersFit
BY BoundAssumption DEF Init, NumbersFit, NoStream, Number

LEMMA NumbersStep == TypeOK /\ NumbersFit /\ [Next]_vars => NumbersFit'
<1>1. TypeOK /\ NumbersFit /\ Next => NumbersFit'
  <2> SUFFICES ASSUME TypeOK, NumbersFit, Next PROVE NumbersFit'
    OBVIOUS
  <2>1. NumbersGo
    BY NumbersUser, NumbersAnswer, NumbersEvent DEF Next
  <2>2. stream' \in [Number -> Stream]
    BY TypeStep DEF TypeOK
  <2> QED BY <2>1, <2>2, StreamsEvolve, NumbersKept
<1>2. NumbersFit /\ UNCHANGED vars => NumbersFit'
  BY DEF NumbersFit, Decision, vars
<1> QED BY <1>1, <1>2

-----------------------------------------------------------------------------
(* A page at work has a stream that ends it *)

LEMMA BegunOpen ==
  ASSUME NEW n, NEW kind, NEW s, NEW msg, NEW shown, Begun(n, kind, s, msg, shown)
  PROVE  n \in Open' /\ Open' = Open \cup {n}
BY DEF Begun, Open, Live

LEMMA WorkUser == TypeOK /\ StreamingMeansWork /\ User => StreamingMeansWork'
<1> SUFFICES ASSUME TypeOK, StreamingMeansWork, User PROVE StreamingMeansWork'
  OBVIOUS
<1>0. PageOK(page) /\ active \in Session \cup {None}
  BY DEF TypeOK, PageOK
<1>1. CASE HandleSend /\ \E m \in Free : SendMessage(m, active, page)
  <2>1. PICK m \in Free : Sent(m, active, page)
    BY <1>0, <1>1, SendFacts
  <2> QED BY <2>1, BegunOpen DEF Sent, StreamingMeansWork
<1>2. CASE UNCHANGED <<streaming, phase, stream>>
  BY <1>2 DEF StreamingMeansWork, Open
<1>3. CASE Stop
  BY <1>3 DEF Stop, StreamingMeansWork
<1>4. CASE Retry
  <2>1. PICK m \in Free : Begun(m, "chat", active, m, 0)
    BY <1>4, RetryFacts
  <2> QED BY <2>1, BegunOpen DEF StreamingMeansWork
<1>5. CASE \E k \in {"approve", "reject"} : ResumeHitl(k)
  <2>1. PICK k \in {"approve", "reject"} : ResumeHitl(k)
    BY <1>5
  <2>2. PICK m \in Free : Begun(m, k, active, target, card)
    BY <2>1, ResumeStream
  <2> QED BY <2>2, BegunOpen DEF StreamingMeansWork
<1> QED
  BY <1>1, <1>2, <1>3, <1>4, <1>5 DEF User, HandleSend, HandleCreate, HandleSelect, HandleDelete, hookVars

LEMMA WorkAnswer == TypeOK /\ StreamingMeansWork /\ Answer => StreamingMeansWork'
<1> SUFFICES ASSUME TypeOK, StreamingMeansWork, Answer PROVE StreamingMeansWork'
  OBVIOUS
<1>1. CASE \E why \in {"send", "new"} : CreateAnswered(why)
  <2>1. CASE \E s \in Session : \E m \in Free : Sent(m, s, page)
    <3>1. PICK s \in Session, m \in Free : Sent(m, s, page)
      BY <2>1
    <3> QED BY <3>1, BegunOpen DEF Sent, StreamingMeansWork
  <2>2. CASE UNCHANGED <<streaming, stream>> /\ phase' \in {"idle", phase}
    BY <2>2 DEF StreamingMeansWork, Open
  <2> QED BY <1>1, <2>1, <2>2, CreateFacts
<1>2. CASE (\E s \in Session : LoadAnswered(s)) \/ (\E d \in deleting : DeleteAnswered(d))
  <2>1. UNCHANGED <<streaming, stream>> /\ phase' \in {"idle", phase}
    BY <1>2 DEF LoadAnswered, DeleteAnswered
  <2> QED BY <2>1 DEF StreamingMeansWork, Open
<1> QED BY <1>1, <1>2 DEF Answer

LEMMA WorkEvent == TypeOK /\ StreamingMeansWork /\ (\E n \in Number : Event(n)) => StreamingMeansWork'
<1> SUFFICES ASSUME TypeOK, StreamingMeansWork, NEW n \in Number, Event(n) PROVE StreamingMeansWork'
  OBVIOUS
<1>0. stream \in [Number -> Stream] /\ {"closing", "over", "interrupted"} \subseteq Live \cup {"closing", "over"}
  BY DEF TypeOK, Live
<1>1. CASE ServerAccepts(n)
  <2>1. n \in Open'
    BY <1>1, AcceptStream DEF Accepted, Open, Live
  <2> QED BY <2>1 DEF StreamingMeansWork
<1>2. CASE StatusEvent(n)
  <2>1. n \in Open'
    BY <1>2 DEF StatusEvent, callVars, Open, Live
  <2> QED BY <2>1 DEF StreamingMeansWork
<1>3. CASE TokenEvent(n)
  BY <1>3 DEF TokenEvent, callVars, StreamingMeansWork, Open
<1>4. CASE InterruptEvent(n)
  <2>1. Step(n, {"open"}, "interrupted")
    BY <1>4 DEF InterruptEvent
  <2>2. n \in Open'
    BY <1>0, <2>1, StepStream DEF Stepped, Open, Live
  <2> QED BY <2>2 DEF StreamingMeansWork
<1>5. CASE AwaitingEvent(n) \/ DoneEvent(n) \/ ErrorEvent(n)
  BY <1>5 DEF AwaitingEvent, DoneEvent, ErrorEvent, StreamingMeansWork
<1>6. CASE StreamOver(n)
  <2>1. Step(n, {"closing"}, "over") /\ UNCHANGED <<streaming, phase>>
    BY <1>6 DEF StreamOver
  <2>2. Open' = Open
    BY <1>0, <2>1, StepStream DEF Stepped, Open, Live
  <2> QED BY <2>1, <2>2 DEF StreamingMeansWork
<1> QED BY <1>1, <1>2, <1>3, <1>4, <1>5, <1>6 DEF Event, Ending

LEMMA WorkStep == TypeOK /\ StreamingMeansWork /\ [Next]_vars => StreamingMeansWork'
<1>1. StreamingMeansWork /\ UNCHANGED vars => StreamingMeansWork'
  BY DEF StreamingMeansWork, Open, vars
<1> QED BY <1>1, WorkUser, WorkAnswer, WorkEvent DEF Next

-----------------------------------------------------------------------------
(* A user who waits has one thing in flight *)

\* A click of a user who waits finds nothing in flight.
LEMMA ClickWaits ==
  ASSUME TypeOK, Click, ~hasty'
  PROVE  ~hasty /\ Busy = {} /\ loads = {} /\ deleting = {} /\ NothingCreated
BY DEF Click, InFlight

\* An event touches its own stream alone, and no other call.
LEMMA EventBusy ==
  ASSUME TypeOK, NEW n \in Number, Event(n)
  PROVE  /\ n \in Busy /\ Busy' \subseteq Busy
         /\ UNCHANGED <<active, loads, deleting, creating, missed, hasty, repeated>>
<1> USE DEF serverVars, noted, obsVars, hookVars, callVars
<1>0. stream \in [Number -> Stream] /\ {"closing", "over", "interrupted"} \subseteq Live \cup {"closing", "over"}
  BY DEF TypeOK, Live
<1>1. UNCHANGED <<active, loads, deleting, creating, missed, hasty, repeated>>
  BY DEF Event, Ending, ServerAccepts, StatusEvent, TokenEvent, InterruptEvent, AwaitingEvent,
         DoneEvent, ErrorEvent, StreamOver
<1>2. CASE ServerAccepts(n)
  <2>1. n \in Busy /\ Busy' \subseteq Busy
    BY <1>2, AcceptStream DEF Accepted, Busy, Live
  <2> QED BY <1>1, <2>1
<1>3. CASE StatusEvent(n) \/ TokenEvent(n)
  <2>1. n \in Busy /\ Busy' = Busy
    BY <1>3 DEF StatusEvent, TokenEvent, Busy, Live
  <2> QED BY <1>1, <2>1
<1>4. ASSUME NEW from \in {Live, {"open"}, {"interrupted"}, {"closing"}},
             NEW to \in {"closing", "over", "interrupted"}, Step(n, from, to)
      PROVE  n \in Busy /\ Busy' \subseteq Busy
  <2>1. Stepped(n, from, to)
    BY <1>0, <1>4, StepStream
  <2> QED BY <2>1 DEF Stepped, Busy, Live
<1>5. CASE InterruptEvent(n) \/ AwaitingEvent(n) \/ DoneEvent(n) \/ ErrorEvent(n) \/ StreamOver(n)
  BY <1>1, <1>4, <1>5 DEF InterruptEvent, AwaitingEvent, DoneEvent, ErrorEvent, StreamOver
<1> QED BY <1>2, <1>3, <1>5 DEF Event, Ending

LEMMA BegunBusy ==
  ASSUME NEW n, NEW kind, NEW s, NEW msg, NEW shown, Begun(n, kind, s, msg, shown)
  PROVE  Busy' = Busy \cup {n}
BY DEF Begun, Busy, Live

LEMMA StopBusy == TypeOK /\ Stop => Busy' = Busy
BY StopStream DEF Stepped, Busy, Live

\* What OneAtATime says of a user who waits.
Single ==
  /\ \A m, n \in Busy : m = n
  /\ Busy # {} => loads = {} /\ deleting = {} /\ NothingCreated
  /\ loads # {} => loads = {active} /\ deleting = {} /\ NothingCreated
  /\ deleting # {} => NothingCreated
  /\ \A d, e \in deleting : d = e /\ d[2] = active
  /\ creating.send + creating.new <= 1
  /\ creating.send > 0 => active = None

LEMMA SingleUser ==
  ASSUME TypeOK, ~hasty => Single, User, ~hasty'
  PROVE  Single'
<1>0. PageOK(page) /\ active \in Session \cup {None} /\ creating \in [{"send", "new"} -> Nat]
  BY DEF TypeOK, PageOK
<1>1. ASSUME Click PROVE Busy = {} /\ loads = {} /\ deleting = {} /\ creating.send = 0 /\ creating.new = 0
  BY <1>1, ClickWaits DEF NothingCreated
<1>2. CASE HandleSend
  <2>1. CASE UNCHANGED creating /\ \E m \in Free : SendMessage(m, active, page)
    <3>1. PICK m \in Free : Sent(m, active, page)
      BY <1>0, <2>1, SendFacts
    <3>2. Busy' = {m}
      BY <1>1, <1>2, <3>1, BegunBusy DEF HandleSend, Sent
    <3> QED BY <1>1, <1>2, <2>1, <3>2 DEF HandleSend, Single, NothingCreated
  <2>2. CASE active = None /\ creating' = [creating EXCEPT !.send = @ + 1]
             /\ UNCHANGED <<page, streaming, phase, error, card, abortRef, target, again, stream>>
    <3>1. creating'.send = 1 /\ creating'.new = 0
      BY <1>0, <1>1, <1>2, <2>2 DEF HandleSend
    <3>2. Busy' = {}
      BY <1>1, <1>2, <2>2 DEF HandleSend, Busy
    <3> QED BY <1>1, <1>2, <2>2, <3>1, <3>2 DEF HandleSend, Single, NothingCreated
  <2> QED BY <1>2, <2>1, <2>2 DEF HandleSend
<1>3. CASE HandleCreate
  <2>1. creating'.send = 0 /\ creating'.new = 1
    BY <1>0, <1>1, <1>3 DEF HandleCreate
  <2>2. Busy' = {} /\ loads' = {} /\ deleting' = {}
    BY <1>1, <1>3 DEF HandleCreate, Busy
  <2> QED BY <2>1, <2>2 DEF Single, NothingCreated
<1>4. CASE Stop
  <2>1. Busy' = Busy /\ UNCHANGED <<active, loads, deleting, creating, hasty>>
    BY <1>4, StopBusy DEF Stop, obsVars
  <2> QED BY <2>1 DEF Single, NothingCreated
<1>5. CASE Retry
  <2>1. PICK m \in Free : Begun(m, "chat", active, m, 0)
    BY <1>5, RetryFacts
  <2>2. Busy' = {m} /\ UNCHANGED <<loads, deleting, creating>>
    BY <1>1, <1>5, <2>1, BegunBusy DEF Retry
  <2> QED BY <1>1, <1>5, <2>2 DEF Retry, Single, NothingCreated
<1>6. CASE \E s \in Session : HandleSelect(s)
  <2>1. Busy' = {} /\ deleting' = {} /\ loads' = {active'} /\ creating' = creating
    BY <1>1, <1>6 DEF HandleSelect, Busy
  <2> QED BY <1>1, <1>6, <2>1 DEF HandleSelect, Single, NothingCreated
<1>7. CASE \E s \in Session : HandleDelete(s)
  <2>1. PICK s \in Session : HandleDelete(s)
    BY <1>7
  <2>2. Busy' = {} /\ deleting' = {<<s, active>>} /\ loads' = {} /\ UNCHANGED <<active, creating>>
    BY <1>1, <2>1 DEF HandleDelete, hookVars, Busy
  <2>3. <<s, active>>[2] = active
    OBVIOUS
  <2> QED BY <1>1, <2>1, <2>2, <2>3 DEF HandleDelete, Single, NothingCreated
<1>8. CASE \E k \in {"approve", "reject"} : ResumeHitl(k)
  <2>1. PICK k \in {"approve", "reject"} : ResumeHitl(k)
    BY <1>8
  <2>2. PICK m \in Free : Begun(m, k, active, target, card)
    BY <2>1, ResumeStream
  <2>3. Busy' = {m} /\ UNCHANGED <<loads, deleting, creating>>
    BY <1>1, <2>1, <2>2, BegunBusy DEF ResumeHitl
  <2> QED BY <1>1, <2>1, <2>3 DEF ResumeHitl, Single, NothingCreated
<1> QED BY <1>2, <1>3, <1>4, <1>5, <1>6, <1>7, <1>8 DEF User

LEMMA SingleAnswer ==
  ASSUME TypeOK, Single, Answer
  PROVE  Single'
<1>0. creating \in [{"send", "new"} -> Nat] /\ creating.send \in Nat /\ creating.new \in Nat
  BY DEF TypeOK
<1>1. CASE \E why \in {"send", "new"} : CreateAnswered(why)
  <2>1. PICK why \in {"send", "new"} : CreateAnswered(why)
    BY <1>1
  <2>2. Busy = {} /\ loads = {} /\ deleting = {}
    BY <1>0, <2>1 DEF Single, NothingCreated, CreateAnswered
  <2>3. creating'.send = 0 /\ creating'.new = 0
    BY <1>0, <2>1 DEF Single, CreateAnswered
  <2>4. Busy' = {} \/ \E m \in Number : Busy' = {m}
    <3>1. CASE UNCHANGED stream
      BY <2>2, <3>1 DEF Busy
    <3>2. CASE \E s \in Session : \E m \in Free : Sent(m, s, page)
      <4>1. PICK s \in Session, m \in Free : Sent(m, s, page)
        BY <3>2
      <4> QED BY <2>2, <4>1, BegunBusy DEF Sent, Free
    <3> QED BY <2>1, <3>1, <3>2, CreateFacts
  <2>5. loads' = {} /\ deleting' = {}
    BY <2>1, <2>2 DEF CreateAnswered
  <2> QED BY <2>3, <2>4, <2>5 DEF Single, NothingCreated
<1>2. CASE \E s \in Session : LoadAnswered(s)
  <2>1. loads # {} /\ loads' = {} /\ UNCHANGED <<active, stream, deleting, creating>>
    BY <1>2 DEF LoadAnswered, Single
  <2> QED BY <2>1 DEF Single, NothingCreated, Busy
<1>3. CASE \E d \in deleting : DeleteAnswered(d)
  <2>1. deleting # {} /\ deleting' = {} /\ UNCHANGED <<stream, loads, creating>>
    BY <1>3 DEF DeleteAnswered, Single
  <2>2. Busy = {} /\ loads = {} /\ creating.send = 0 /\ creating.new = 0
    BY <2>1 DEF Single, NothingCreated
  <2> QED BY <2>1, <2>2 DEF Single, NothingCreated, Busy
<1> QED BY <1>1, <1>2, <1>3 DEF Answer

LEMMA OneAtATimeStep == TypeOK /\ OneAtATime /\ [Next]_vars => OneAtATime'
<1> SUFFICES ASSUME TypeOK, ~hasty => Single, [Next]_vars, ~hasty' PROVE Single'
  BY DEF OneAtATime, Single
<1>1. CASE User
  BY <1>1, SingleUser
<1>2. CASE Answer
  <2>1. hasty' = hasty
    BY <1>2 DEF Answer, CreateAnswered, LoadAnswered, DeleteAnswered, obsVars
  <2> QED BY <1>2, <2>1, SingleAnswer
<1>3. CASE \E n \in Number : Event(n)
  <2>1. Busy # {} /\ Busy' \subseteq Busy /\ UNCHANGED <<active, loads, deleting, creating, hasty>>
    BY <1>3, EventBusy
  <2> QED BY <2>1 DEF Single, NothingCreated
<1>4. CASE UNCHANGED vars
  BY <1>4 DEF vars, Single, NothingCreated, Busy
<1> QED BY <1>1, <1>2, <1>3, <1>4 DEF Next

-----------------------------------------------------------------------------
(* The stream of a user who waits is the one in hand *)

\* What StreamInHand says of a user who waits.
InHand ==
  /\ \A n \in Open : streaming /\ abortRef = n
  /\ \A n \in Open : ~Decision(n) =>
       /\ target = n /\ again = 0
       /\ card = IF stream[n].state = "interrupted" THEN n ELSE 0
  /\ \A n \in Open : Decision(n) =>
       card # 0 /\ stream[n].shown = card /\ stream[n].msg = target
  /\ card # 0 => card = target /\ again = 0
  /\ waiting => \E n \in Open : Decision(n)

\* A question that is sent while nothing is in flight.
LEMMA InHandSent ==
  ASSUME InHand, Open = {}, waiting' = waiting, NEW n \in Number, NEW s,
         Begun(n, "chat", s, n, 0), streaming' = TRUE, card' = 0, target' = n, again' = 0,
         abortRef' = n
  PROVE  InHand'
<1>1. Open' = {n}
  BY BegunOpen
<1>2. ~waiting
  BY DEF InHand
<1> QED BY <1>1, <1>2 DEF InHand, Begun, Decision

\* Nothing is in flight, and no stream begins.
LEMMA InHandIdle ==
  ASSUME InHand, Open = {}, Open' = {}, card' \in {0, card}, UNCHANGED <<waiting, target, again>>
  PROVE  InHand'
<1>1. ~waiting
  BY DEF InHand
<1> QED BY <1>1 DEF InHand

LEMMA OpenBusy == Open \subseteq Busy
BY DEF Open, Busy

LEMMA InHandUser ==
  ASSUME TypeOK, ~hasty => InHand, User, ~hasty'
  PROVE  InHand'
<1>0. PageOK(page) /\ active \in Session \cup {None}
  BY DEF TypeOK, PageOK
<1>1. ASSUME Click PROVE Open = {} /\ InHand
  BY <1>1, ClickWaits, OpenBusy
<1>2. CASE HandleSend
  <2>1. CASE \E m \in Free : SendMessage(m, active, page)
    <3>1. PICK m \in Free : Sent(m, active, page)
      BY <1>0, <2>1, SendFacts
    <3>2. waiting' = waiting /\ Click
      BY <1>2 DEF HandleSend
    <3> QED BY <1>1, <3>1, <3>2, InHandSent DEF Sent, Free
  <2>2. CASE UNCHANGED <<page, streaming, phase, error, card, abortRef, target, again, stream>>
    <3>1. Open' = Open /\ waiting' = waiting /\ Click
      BY <1>2, <2>2 DEF HandleSend, Open
    <3> QED BY <1>1, <2>2, <3>1, InHandIdle
  <2> QED BY <1>2, <2>1, <2>2 DEF HandleSend
<1>3. CASE HandleCreate \/ \E s \in Session : HandleSelect(s) \/ HandleDelete(s)
  <2>1. Click /\ Open' = Open /\ UNCHANGED <<card, waiting, target, again>>
    BY <1>3 DEF HandleCreate, HandleSelect, HandleDelete, hookVars, Open
  <2> QED BY <1>1, <2>1, InHandIdle
<1>4. CASE Stop
  <2>1. card = 0 /\ UNCHANGED <<card, waiting, target, again, hasty>>
    BY <1>4 DEF Stop, Sending, obsVars
  <2>2. InHand /\ ~waiting
    BY <2>1 DEF InHand
  <2>3. Open' = {}
    <3>1. CASE Open = {}
      BY <3>1, <1>4, StopStream DEF Stepped, Open, Live
    <3>2. CASE \E n \in Open : TRUE
      <4>1. abortRef \in Open /\ \A n \in Open : n = abortRef
        BY <2>2, <3>2 DEF InHand
      <4>2. stream' = [stream EXCEPT ![abortRef].state = "closing"]
        BY <4>1, <1>4, BoundAssumption DEF Stop, Open, Number
      <4>3. abortRef \in Number /\ stream[abortRef].state \in Live /\ stream \in [Number -> Stream]
        BY <4>1 DEF Open, TypeOK
      <4>4. Stepped(abortRef, Live, "closing")
        BY <4>2, <4>3, StepStream DEF Step
      <4> QED BY <4>1, <4>4 DEF Stepped, Open, Live
    <3> QED BY <3>1, <3>2
  <2> QED BY <2>1, <2>2, <2>3 DEF InHand
<1>5. CASE Retry
  <2>1. PICK m \in Free :
          /\ Begun(m, "chat", active, m, 0)
          /\ streaming' = TRUE /\ card' = 0 /\ target' = m /\ again' = 0 /\ abortRef' = m
    BY <1>5, RetryFacts
  <2>2. waiting' = waiting /\ Click
    BY <1>5 DEF Retry
  <2> QED BY <1>1, <2>1, <2>2, InHandSent DEF Free
<1>6. CASE \E k \in {"approve", "reject"} : ResumeHitl(k)
  <2>1. PICK k \in {"approve", "reject"} : ResumeHitl(k)
    BY <1>6
  <2>2. PICK m \in Free : Begun(m, k, active, target, card) /\ abortRef' = m
    BY <2>1, ResumeStream
  <2>3. InHand /\ Open = {}
    BY <1>1, <2>1 DEF ResumeHitl
  <2>4. Open' = {m}
    BY <2>2, <2>3, BegunOpen
  <2>5. card # 0 /\ streaming' = TRUE /\ waiting' = TRUE /\ UNCHANGED <<card, target, again>>
    BY <2>1 DEF ResumeHitl
  <2>6. stream'[m].kind # "chat" /\ stream'[m].shown = card /\ stream'[m].msg = target
    BY <2>2 DEF Begun
  <2> QED BY <2>2, <2>3, <2>4, <2>5, <2>6 DEF InHand, Decision
<1> QED BY <1>2, <1>3, <1>4, <1>5, <1>6 DEF User

LEMMA InHandAnswer ==
  ASSUME TypeOK, Single, InHand, Answer
  PROVE  InHand'
<1>0. Open = {} /\ waiting' = waiting
  <2>1. ~NothingCreated \/ loads # {} \/ deleting # {}
    BY DEF Answer, CreateAnswered, LoadAnswered, NothingCreated
  <2>2. Busy = {}
    BY <2>1 DEF Single
  <2> QED BY <2>2, OpenBusy DEF Answer, CreateAnswered, LoadAnswered, DeleteAnswered
<1>1. CASE \E why \in {"send", "new"} : CreateAnswered(why)
  <2>1. CASE \E s \in Session : \E m \in Free : Sent(m, s, page)
    <3>1. PICK s \in Session, m \in Free : Sent(m, s, page)
      BY <2>1
    <3> QED BY <1>0, <3>1, InHandSent DEF Sent, Free
  <2>2. CASE UNCHANGED <<target, again, stream>> /\ card' \in {0, card}
    BY <1>0, <2>2, InHandIdle DEF Open
  <2> QED BY <1>1, <2>1, <2>2, CreateFacts
<1>2. CASE (\E s \in Session : LoadAnswered(s)) \/ (\E d \in deleting : DeleteAnswered(d))
  <2>1. UNCHANGED <<target, again, stream>> /\ card' \in {0, card}
    BY <1>2 DEF LoadAnswered, DeleteAnswered
  <2> QED BY <1>0, <2>1, InHandIdle DEF Open
<1> QED BY <1>1, <1>2 DEF Answer

LEMMA InHandEvent ==
  ASSUME TypeOK, NumbersFit, Single, InHand, NEW n \in Number, Event(n)
  PROVE  InHand'
<1> USE DEF serverVars, noted, obsVars, hookVars, callVars
<1>0. stream \in [Number -> Stream] /\ {"closing", "over", "interrupted"} \subseteq Live \cup {"closing", "over"}
      /\ \A m \in Busy : m = n
  BY EventBusy DEF TypeOK, Live, Single
<1>1. \A m \in Open : m = n
  BY <1>0, OpenBusy
<1>2. CASE ServerAccepts(n)
  <2>1. PICK s \in Session : Accepted(n, s)
    BY <1>2, AcceptStream
  <2>2. n \in Open /\ Open' = {n}
    BY <1>1, <2>1 DEF Accepted, Open, Live
  <2>3. UNCHANGED <<streaming, abortRef, target, again, card, waiting>>
    BY <1>2 DEF ServerAccepts
  <2>4. stream[n].state = "asked" /\ stream'[n].state = "open" /\ stream'[n].kind = stream[n].kind
        /\ stream'[n].shown = stream[n].shown /\ stream'[n].msg = stream[n].msg
    BY <2>1 DEF Accepted
  <2> QED BY <1>1, <2>2, <2>3, <2>4 DEF InHand, Decision
<1>3. CASE StatusEvent(n) \/ TokenEvent(n)
  <2>1. UNCHANGED <<stream, streaming, abortRef, target, again, card, waiting>>
    BY <1>3 DEF StatusEvent, TokenEvent
  <2> QED BY <2>1 DEF InHand, Open, Decision
<1>4. CASE InterruptEvent(n)
  <2>1. Stepped(n, {"open"}, "interrupted") /\ ~Decision(n)
    BY <1>0, <1>4, StepStream DEF InterruptEvent
  <2>2. n \in Open /\ Open' = {n}
    BY <1>1, <2>1 DEF Stepped, Open, Live
  <2>3. card' = n /\ UNCHANGED <<streaming, abortRef, target, again, waiting>>
    BY <1>4 DEF InterruptEvent
  <2>4. stream'[n].state = "interrupted" /\ stream'[n].kind = stream[n].kind
    BY <2>1 DEF Stepped
  <2> QED BY <1>1, <2>1, <2>2, <2>3, <2>4 DEF InHand, Decision
<1>5. CASE AwaitingEvent(n)
  <2>1. Stepped(n, {"interrupted"}, "closing")
    BY <1>0, <1>5, StepStream DEF AwaitingEvent
  <2>2. Open = {n} /\ Open' = {}
    BY <1>1, <2>1 DEF Stepped, Open, Live
  <2>3. UNCHANGED <<target, again, card, waiting>>
    BY <1>5 DEF AwaitingEvent
  <2>4. ~Decision(n) /\ ~waiting
    BY <2>1, <2>2 DEF InHand, NumbersFit, Stepped
  <2> QED BY <2>2, <2>3, <2>4 DEF InHand
<1>6. CASE DoneEvent(n)
  <2>1. Stepped(n, {"open"}, "closing")
    BY <1>0, <1>6, StepStream DEF DoneEvent
  <2>2. Open = {n} /\ Open' = {}
    BY <1>1, <2>1 DEF Stepped, Open, Live
  <2>3. card' = 0 /\ waiting' = (waiting /\ ~Decision(n))
    BY <1>6 DEF DoneEvent
  <2>4. ~waiting'
    BY <2>2, <2>3 DEF InHand
  <2> QED BY <2>2, <2>3, <2>4 DEF InHand
<1>7. CASE ErrorEvent(n)
  <2>1. Stepped(n, Live, "closing")
    BY <1>0, <1>7, StepStream DEF ErrorEvent
  <2>2. Open = {n} /\ Open' = {}
    BY <1>1, <2>1 DEF Stepped, Open, Live
  <2>3. target' = target /\ ~waiting' /\ (card' = 0 \/ UNCHANGED <<card, again>>)
    BY <1>7, <2>2 DEF ErrorEvent, InHand
  <2> QED BY <2>2, <2>3 DEF InHand
<1>8. CASE StreamOver(n)
  <2>1. Stepped(n, {"closing"}, "over")
    BY <1>0, <1>8, StepStream DEF StreamOver
  <2>2. Open = {} /\ Open' = {}
    BY <1>1, <2>1 DEF Stepped, Open, Live
  <2>3. UNCHANGED <<target, again, card, waiting>>
    BY <1>8 DEF StreamOver
  <2> QED BY <2>2, <2>3, InHandIdle
<1> QED BY <1>2, <1>3, <1>4, <1>5, <1>6, <1>7, <1>8 DEF Event, Ending

LEMMA StreamInHandStep ==
  TypeOK /\ NumbersFit /\ OneAtATime /\ StreamInHand /\ [Next]_vars => StreamInHand'
<1> SUFFICES ASSUME TypeOK, NumbersFit, ~hasty => Single, ~hasty => InHand, [Next]_vars, ~hasty'
             PROVE  InHand'
  BY DEF StreamInHand, InHand, OneAtATime, Single
<1>1. CASE User
  BY <1>1, InHandUser
<1>2. CASE Answer
  <2>1. hasty' = hasty
    BY <1>2 DEF Answer, CreateAnswered, LoadAnswered, DeleteAnswered, obsVars
  <2> QED BY <1>2, <2>1, InHandAnswer
<1>3. CASE \E n \in Number : Event(n)
  <2>1. PICK n \in Number : Event(n)
    BY <1>3
  <2> QED BY <2>1, EventBusy, InHandEvent
<1>4. CASE UNCHANGED vars
  BY <1>4 DEF vars, InHand, Open, Decision
<1> QED BY <1>1, <1>2, <1>3, <1>4 DEF Next

-----------------------------------------------------------------------------
(* Undisturbed, the page is at the active session *)

\* What PageAtSession says of an undisturbed page.
AtSession ==
  /\ \A n \in Number : stream[n].state # "none" => stream[n].sess # None
  /\ \A n \in Busy : stream[n].sess = active
  /\ active = None => page = <<>> /\ ~error
  /\ loads = {} =>
       /\ \A i \in DOMAIN page : page[i].sess = active
       /\ card # 0 => stream[card].sess = active /\ parked[active] \in {0, card}
       /\ error /\ again # 0 => stream[again].sess = active

\* Streams keep the sessions they have.
SessionsKept ==
  \A n \in Number : stream[n].state # "none" =>
    stream'[n].state # "none" /\ stream'[n].sess = stream[n].sess

LEMMA KeepSessions ==
  ASSUME TypeOK, NumbersFit, AtSession, Next
  PROVE  /\ SessionsKept
         /\ \A n \in Number : stream'[n].state # "none" /\ stream[n].state # "none" => stream'[n].sess # None
         /\ \A n \in {card, again} : n # 0 =>
              n \in Number /\ stream[n].state # "none" /\ stream'[n].sess = stream[n].sess
<1>1. SessionsKept
  BY StreamsEvolve DEF Evolves, Starts, GoesOn, AtSession, SessionsKept
<1>2. \A n \in {card, again} : n # 0 => n \in Number /\ stream[n].state # "none"
  BY BoundAssumption DEF TypeOK, NumbersFit, Number
<1> QED BY <1>1, <1>2 DEF SessionsKept, AtSession

\* A question is sent in the active session while nothing is in flight.
LEMMA AtSessionSent ==
  ASSUME TypeOK, AtSession, Busy = {}, NEW n, NEW s \in Session, Begun(n, "chat", s, n, 0),
         active' = s, error' = FALSE, card' = 0,
         \A i \in DOMAIN page' : page'[i].sess = s
  PROVE  AtSession'
<1>1. Busy' = {n}
  BY BegunBusy
<1>2. \A m \in Number : stream'[m].state # "none" => stream'[m].sess # None
  BY NoneAssumption DEF AtSession, Begun
<1>3. stream'[n].sess = s /\ active' # None
  BY NoneAssumption DEF Begun
<1> QED BY <1>1, <1>2, <1>3 DEF AtSession

LEMMA AtSessionUser ==
  ASSUME TypeOK, NumbersFit, InHand, AtSession, User, ~hasty'
  PROVE  AtSession'
<1>0. PageOK(page) /\ active \in Session \cup {None}
  BY DEF TypeOK, PageOK
<1>1. ASSUME Click PROVE Busy = {} /\ loads = {}
  BY <1>1, ClickWaits
<1>2. CASE HandleSend
  <2>0. Click /\ UNCHANGED <<active, loads, parked>>
    BY <1>2 DEF HandleSend, serverVars
  <2>1. CASE active # None /\ \E m \in Free : SendMessage(m, active, page)
    <3>1. PICK m \in Free : Sent(m, active, page)
      BY <1>0, <2>1, SendFacts
    <3>2. \A i \in DOMAIN page' : page'[i].sess = active
      BY <1>1, <2>0, <3>1 DEF Sent, AtSession
    <3> QED BY <1>0, <1>1, <2>0, <2>1, <3>1, <3>2, AtSessionSent DEF Sent
  <2>2. CASE UNCHANGED <<page, streaming, phase, error, card, abortRef, target, again, stream>>
    BY <2>0, <2>2 DEF AtSession, Busy
  <2> QED BY <1>2, <2>1, <2>2 DEF HandleSend
<1>3. CASE HandleCreate \/ \E s \in Session : HandleDelete(s)
  <2>1. UNCHANGED <<active, page, error, card, again, stream, loads, parked>>
    BY <1>3 DEF HandleCreate, HandleDelete, hookVars, serverVars
  <2> QED BY <2>1 DEF AtSession, Busy
<1>4. CASE Stop
  <2>1. UNCHANGED <<active, page, error, card, again, loads, parked>> /\ Busy' = Busy
    BY <1>4, StopBusy DEF Stop, serverVars
  <2>2. /\ \A n \in Number : stream[n].state # "none" => stream'[n].sess = stream[n].sess
        /\ \A n \in {card, again} : n # 0 => stream'[n].sess = stream[n].sess
    BY <1>4, KeepSessions DEF Next, User, SessionsKept
  <2>3. \A n \in Number : stream'[n].state # "none" => stream'[n].sess # None
    BY <1>4, StopStream DEF Stepped, Live, AtSession
  <2>4. \A n \in Busy : stream'[n].sess = active
    BY <2>2 DEF AtSession, Busy, Live
  <2> QED BY <2>1, <2>2, <2>3, <2>4 DEF AtSession
<1>5. CASE Retry
  <2>1. PICK m \in Free :
          /\ Begun(m, "chat", active, m, 0)
          /\ \A i \in DOMAIN page' : (i \in DOMAIN page /\ page'[i] = page[i]) \/ page'[i].sess = active
          /\ error' = FALSE /\ card' = 0
    BY <1>5, RetryFacts
  <2>2. Click /\ UNCHANGED <<active, loads, parked>> /\ error
    BY <1>5 DEF Retry, serverVars
  <2>3. active \in Session
    BY <1>0, <2>2 DEF AtSession
  <2>4. \A i \in DOMAIN page' : page'[i].sess = active
    BY <1>1, <2>1, <2>2 DEF AtSession
  <2> QED BY <1>1, <2>1, <2>2, <2>3, <2>4, AtSessionSent
<1>6. CASE \E s \in Session : HandleSelect(s)
  <2>1. Busy' = {} /\ loads' # {} /\ active' # None /\ stream' = stream
    BY <1>1, <1>6, NoneAssumption DEF HandleSelect, Busy
  <2> QED BY <2>1 DEF AtSession
<1>7. CASE \E k \in {"approve", "reject"} : ResumeHitl(k)
  <2>1. PICK k \in {"approve", "reject"} : ResumeHitl(k)
    BY <1>7
  <2>2. PICK m \in Free : Begun(m, k, active, target, card)
    BY <2>1, ResumeStream
  <2>3. active # None /\ error' = FALSE /\ UNCHANGED <<active, page, card, loads, parked>>
        /\ Busy = {} /\ loads = {}
    BY <1>1, <2>1 DEF ResumeHitl, serverVars
  <2>4. Busy' = {m} /\ stream'[m].sess = active
    BY <2>2, <2>3, BegunBusy DEF Begun
  <2>5. \A n \in Number : stream'[n].state # "none" => stream'[n].sess # None
    BY <2>2, <2>3 DEF AtSession, Begun
  <2>6. card # 0 => stream'[card].sess = stream[card].sess
    BY <1>7, KeepSessions DEF Next, User
  <2> QED BY <2>3, <2>4, <2>5, <2>6 DEF AtSession
<1> QED BY <1>2, <1>3, <1>4, <1>5, <1>6, <1>7 DEF User

LEMMA AtSessionAnswer ==
  ASSUME TypeOK, Single, AtSession, Answer, ~missed'
  PROVE  AtSession'
<1>0. Busy = {}
  <2>1. ~NothingCreated \/ loads # {} \/ deleting # {}
    BY DEF Answer, CreateAnswered, LoadAnswered, NothingCreated
  <2> QED BY <2>1 DEF Single
<1>1. CASE \E why \in {"send", "new"} : CreateAnswered(why)
  <2>1. PICK why \in {"send", "new"} : CreateAnswered(why)
    BY <1>1
  <2>2. UNCHANGED <<loads, parked>> /\ (why = "send" => active = None)
    BY <2>1 DEF CreateAnswered, Single
  <2>3. CASE UNCHANGED <<active, page, streaming, phase, error, card, abortRef, target, again, stream>>
    BY <2>2, <2>3 DEF AtSession, Busy
  <2>4. ASSUME NEW s \in Session, active' = s, page' = <<>>, error' = FALSE, card' = 0,
               UNCHANGED <<again, stream>>
        PROVE  AtSession'
    BY <1>0, <2>4, NoneAssumption DEF AtSession, Busy
  <2>5. ASSUME NEW s \in Session, active' = s, why = "send", NEW m \in Free, Sent(m, s, page)
        PROVE  AtSession'
    <3>1. page = <<>>
      BY <2>2, <2>5 DEF AtSession
    <3>2. \A i \in DOMAIN page' : page'[i].sess = s
      BY <2>5, <3>1 DEF Sent
    <3> QED BY <1>0, <2>5, <3>2, AtSessionSent DEF Sent
  <2> QED BY <2>1, <2>3, <2>4, <2>5, CreateFacts
<1>2. CASE \E s \in Session : LoadAnswered(s)
  <2>1. PICK s \in Session : LoadAnswered(s)
    BY <1>2
  <2>2. s = active /\ stream' = stream /\ active' = active
    BY <2>1 DEF LoadAnswered, Single
  <2>3. page' = <<[role |-> "rows", sess |-> s, n |-> 0, text |-> TRUE]>> /\ error' = FALSE /\ card' = 0
    BY <2>1 DEF LoadAnswered
  <2>4. \A i \in DOMAIN page' : page'[i].sess = s
    BY <2>3
  <2> QED BY <1>0, <2>2, <2>3, <2>4, NoneAssumption DEF AtSession, Busy
<1>3. CASE \E d \in deleting : DeleteAnswered(d)
  <2>1. \/ active' = None /\ page' = <<>> /\ error' = FALSE /\ card' = 0
        \/ UNCHANGED <<active, page, error, card>>
    BY <1>3 DEF DeleteAnswered
  <2>2. UNCHANGED <<stream, loads, parked, again>>
    BY <1>3 DEF DeleteAnswered
  <2> QED BY <1>0, <2>1, <2>2 DEF AtSession, Busy
<1> QED BY <1>1, <1>2, <1>3 DEF Answer

LEMMA AtSessionEvent ==
  ASSUME TypeOK, NumbersFit, Single, InHand, AtSession, NEW n \in Number, Event(n)
  PROVE  AtSession'
<1> USE DEF serverVars, noted, obsVars, hookVars, callVars
<1>0. stream \in [Number -> Stream] /\ parked \in [Session -> 0..MaxStreams]
      /\ {"closing", "over", "interrupted"} \subseteq Live \cup {"closing", "over"}
  BY DEF TypeOK, Live
<1>1. n \in Busy /\ Busy' \subseteq Busy /\ UNCHANGED <<active, loads>> /\ loads = {}
  BY EventBusy DEF Single
<1>2. stream[n].sess = active /\ active \in Session
  <2>1. stream[n].sess \in Session \cup {None} /\ stream[n].state # "none"
    BY <1>0, <1>1 DEF Stream, Busy, Live
  <2> QED BY <1>1, <2>1 DEF AtSession
<1>3. /\ \A m \in Number : stream[m].state # "none" => stream'[m].sess = stream[m].sess
      /\ \A m \in {card, again} : m # 0 => stream'[m].sess = stream[m].sess
  BY KeepSessions DEF Next, SessionsKept
<1>4. \A m \in Busy' : stream'[m].sess = active'
  BY <1>1, <1>3 DEF AtSession, Busy, Live
<1>5. \A m \in Number : stream'[m].state # "none" => stream'[m].sess # None
  <2>1. ASSUME NEW m \in Number, stream'[m].state # "none" PROVE stream[m].state # "none"
    <3>1. Evolves(m)
      BY EventStreams
    <3>2. ~Starts(m)
      BY <1>1 DEF Starts, Busy, Live
    <3> QED BY <2>1, <3>1, <3>2 DEF Evolves, GoesOn
  <2> QED BY <1>3, <2>1 DEF AtSession
<1>6. ASSUME \A i \in DOMAIN page' : page'[i].sess = active,
             card' # 0 => stream'[card'].sess = active /\ parked'[active] \in {0, card'},
             error' /\ again' # 0 => stream'[again'].sess = active
      PROVE  AtSession'
  BY <1>1, <1>2, <1>4, <1>5, <1>6, NoneAssumption DEF AtSession
<1>7. /\ \A i \in DOMAIN page : page[i].sess = active
      /\ card # 0 => stream'[card].sess = active /\ parked[active] \in {0, card}
      /\ error /\ again # 0 => stream'[again].sess = active
  BY <1>1, <1>3 DEF AtSession
<1>8. CASE ServerAccepts(n)
  <2>1. PICK s \in Session : Accepted(n, s)
    BY <1>8, AcceptStream
  <2>2. s = active
    BY <1>2, <2>1, NoneAssumption DEF Accepted
  <2>3. parked'[active] \in {0, parked[active]} /\ UNCHANGED <<page, card, error, again>>
    BY <1>8, <2>1, <2>2 DEF Accepted, ServerAccepts
  <2> QED BY <1>6, <1>7, <2>3
<1>9. CASE TokenEvent(n)
  <2>1. UNCHANGED <<parked, card, error, again>>
    BY <1>9 DEF TokenEvent
  <2>2. \A i \in DOMAIN page' : page'[i].sess = active
    <3> DEFINE at == {i \in DOMAIN page : page[i].role = "assistant" /\ page[i].n = stream[n].msg}
    <3>1. page' = [i \in DOMAIN page |-> IF i \in at THEN [page[i] EXCEPT !.text = TRUE] ELSE page[i]]
      BY <1>9 DEF TokenEvent
    <3>2. ASSUME NEW i \in DOMAIN page PROVE [page[i] EXCEPT !.text = TRUE].sess = page[i].sess
      <4>1. page[i] \in Entry
        BY DEF TypeOK
      <4> QED BY <4>1 DEF Entry
    <3> HIDE DEF at
    <3> QED BY <1>7, <3>1, <3>2
  <2> QED BY <1>6, <1>7, <2>1, <2>2
<1>10. CASE InterruptEvent(n)
  <2>1. card' = n /\ parked'[active] = n /\ UNCHANGED <<page, error, again>>
    BY <1>0, <1>2, <1>10 DEF InterruptEvent
  <2>2. stream'[n].sess = active
    BY <1>1, <1>2, <1>3 DEF Busy, Live
  <2> QED BY <1>6, <1>7, <2>1, <2>2
<1>11. CASE StatusEvent(n) \/ AwaitingEvent(n) \/ StreamOver(n)
  <2>1. UNCHANGED <<page, parked, card, error, again>>
    BY <1>11 DEF StatusEvent, AwaitingEvent, StreamOver
  <2> QED BY <1>6, <1>7, <2>1
<1>12. CASE DoneEvent(n)
  <2>1. card' = 0 /\ UNCHANGED <<page, error, again>>
    BY <1>12 DEF DoneEvent
  <2> QED BY <1>6, <1>7, <2>1
<1>13. CASE ErrorEvent(n)
  <2>1. UNCHANGED <<page, parked>>
    BY <1>13 DEF ErrorEvent
  <2>2. CASE Decision(n)
    <3>1. n \in Open
      BY <1>13 DEF ErrorEvent, Step, Open
    <3>2. again = 0 /\ UNCHANGED <<card, again>>
      BY <1>13, <2>2, <3>1 DEF ErrorEvent, InHand
    <3> QED BY <1>6, <1>7, <2>1, <3>2
  <2>3. CASE ~Decision(n)
    <3>1. card' = 0 /\ again' = n
      BY <1>13, <2>3 DEF ErrorEvent
    <3>2. stream'[n].sess = active
      BY <1>1, <1>2, <1>3 DEF Busy, Live
    <3> QED BY <1>6, <1>7, <2>1, <3>1, <3>2
  <2> QED BY <2>2, <2>3
<1> QED BY <1>8, <1>9, <1>10, <1>11, <1>12, <1>13 DEF Event, Ending

LEMMA UndisturbedBefore ==
  ASSUME TypeOK, [Next]_vars
  PROVE  Undisturbed' => Undisturbed
<1> USE DEF serverVars, noted, obsVars, hookVars, callVars
<1>1. CASE User
  <2>1. missed' = missed
    BY <1>1 DEF User, HandleSend, HandleCreate, Stop, Retry, HandleSelect, HandleDelete, ResumeHitl
  <2>2. Click \/ hasty' = hasty
    BY <1>1 DEF User, HandleSend, HandleCreate, Stop, Retry, HandleSelect, HandleDelete, ResumeHitl
  <2> QED BY <2>1, <2>2 DEF Click, Undisturbed
<1>2. CASE Answer
  <2>1. hasty' = hasty /\ (missed => missed')
    BY <1>2 DEF Answer, CreateAnswered, LoadAnswered, DeleteAnswered
  <2> QED BY <2>1 DEF Undisturbed
<1>3. CASE \E n \in Number : Event(n)
  BY <1>3, EventBusy DEF Undisturbed
<1>4. CASE UNCHANGED vars
  BY <1>4 DEF vars, Undisturbed
<1> QED BY <1>1, <1>2, <1>3, <1>4 DEF Next

LEMMA PageAtSessionStep ==
  TypeOK /\ NumbersFit /\ OneAtATime /\ StreamInHand /\ PageAtSession /\ [Next]_vars => PageAtSession'
<1> SUFFICES ASSUME TypeOK, NumbersFit, OneAtATime, StreamInHand, PageAtSession, [Next]_vars,
                    Undisturbed'
             PROVE  AtSession'
  BY DEF PageAtSession, AtSession
<1>1. Undisturbed /\ AtSession /\ Single /\ InHand
  BY UndisturbedBefore DEF Undisturbed, PageAtSession, AtSession, OneAtATime, Single, StreamInHand, InHand
<1>2. CASE User
  BY <1>1, <1>2, AtSessionUser DEF Undisturbed
<1>3. CASE Answer
  BY <1>1, <1>3, AtSessionAnswer DEF Undisturbed
<1>4. CASE \E n \in Number : Event(n)
  BY <1>1, <1>4, AtSessionEvent
<1>5. CASE UNCHANGED vars
  BY <1>1, <1>5 DEF vars, AtSession, Busy
<1> QED BY <1>2, <1>3, <1>4, <1>5 DEF Next

-----------------------------------------------------------------------------
(* Undisturbed, decisions, answers and repetitions go where they belong *)

LEMMA DecidedStep ==
  PageInv /\ [Next]_vars => DecidedAsShown'
<1> SUFFICES ASSUME TypeOK, NumbersFit, OneAtATime, StreamInHand, PageAtSession, DecidedAsShown,
                    [Next]_vars, Undisturbed'
             PROVE  \A p \in approved' : p[1] = p[2]
  BY DEF PageInv, DecidedAsShown
<1> USE DEF serverVars, noted, obsVars, hookVars, callVars
<1>1. Undisturbed /\ AtSession /\ Single /\ InHand /\ \A p \in approved : p[1] = p[2]
  BY UndisturbedBefore DEF Undisturbed, PageAtSession, AtSession, OneAtATime, Single, StreamInHand,
     InHand, DecidedAsShown
<1>2. ASSUME NEW n \in Number, ServerAccepts(n) PROVE \A p \in approved' : p[1] = p[2]
  <2>1. PICK s \in Session : Accepted(n, s)
    BY <1>2, AcceptStream
  <2>2. CASE Decision(n)
    <3>1. n \in Open /\ n \in Busy
      BY <1>2 DEF ServerAccepts, Open, Busy, Live
    <3>2. loads = {} /\ s = active
      BY <1>1, <2>1, <3>1, NoneAssumption DEF Single, AtSession, Accepted, Busy, Live
    <3>3. card # 0 /\ stream[n].shown = card
      BY <1>1, <2>2, <3>1 DEF InHand
    <3>4. parked[s] = card
      BY <1>1, <2>1, <2>2, <3>2, <3>3 DEF AtSession, Accepted
    <3>5. approved' = approved \cup {<<card, card>>}
      BY <2>1, <2>2, <3>3, <3>4 DEF Accepted
    <3> QED BY <1>1, <3>5
  <2>3. CASE ~Decision(n)
    BY <1>1, <2>1, <2>3 DEF Accepted
  <2> QED BY <2>2, <2>3
<1>3. CASE approved' = approved
  BY <1>1, <1>3
<1>4. User \/ Answer \/ UNCHANGED vars => approved' = approved
  BY DEF vars, User, HandleSend, HandleCreate, Stop, Retry, HandleSelect, HandleDelete, ResumeHitl,
     Answer, CreateAnswered, LoadAnswered, DeleteAnswered
<1>5. \A n \in Number : Event(n) => ServerAccepts(n) \/ approved' = approved
  BY DEF Event, Ending, StatusEvent, TokenEvent, InterruptEvent, AwaitingEvent, DoneEvent, ErrorEvent,
     StreamOver
<1> QED BY <1>2, <1>3, <1>4, <1>5 DEF Next

LEMMA AnswerStep ==
  PageInv /\ [Next]_vars => AnswerUnderItsQuestion'
<1> SUFFICES ASSUME PageInv, [Next]_vars, Undisturbed', NEW n \in Number
             PROVE  /\ wrote'[n] \subseteq {stream'[n].sess}
                    /\ stream'[n].state = "open" /\ Decision(n)' => stream'[n].msg = stream'[n].shown
  BY DEF AnswerUnderItsQuestion
<1> USE DEF serverVars, noted, obsVars, hookVars, callVars
<1>1. Undisturbed /\ AtSession /\ Single /\ InHand /\ TypeOK /\ NumbersFit
  BY UndisturbedBefore DEF Undisturbed, PageInv, PageAtSession, AtSession, OneAtATime, Single,
     StreamInHand, InHand
<1>2. /\ wrote[n] \subseteq {stream[n].sess}
      /\ stream[n].state = "open" /\ Decision(n) => stream[n].msg = stream[n].shown
  BY <1>1 DEF PageInv, AnswerUnderItsQuestion
<1>3. CASE UNCHANGED vars
  BY <1>2, <1>3 DEF vars, Decision
<1>4. CASE Next
  <2>1. Evolves(n) /\ SessionsKept
    BY <1>1, <1>4, StreamsEvolve, KeepSessions
  <2>2. wrote[n] \subseteq {stream'[n].sess}
    BY <1>1, <1>2, <2>1 DEF SessionsKept, NumbersFit
  <2>3. wrote'[n] \subseteq {stream'[n].sess}
    <3>1. CASE wrote' = wrote
      BY <2>2, <3>1
    <3>2. ASSUME NEW m \in Number, TokenEvent(m), n = stream[m].msg PROVE wrote'[n] \subseteq {stream'[n].sess}
      <4>1. m \in Open /\ m \in Busy
        BY <3>2 DEF TokenEvent, Open, Busy, Live
      <4>2. stream[m].sess = active /\ loads = {}
        BY <1>1, <4>1 DEF AtSession, Single
      <4>3. stream[n].sess = active /\ stream[n].state # "none"
        <5>1. CASE Decision(m)
          <6>1. n = card /\ card # 0
            BY <1>1, <3>2, <4>1, <5>1 DEF InHand
          <6> QED BY <1>1, <4>2, <6>1 DEF AtSession, NumbersFit
        <5>2. CASE ~Decision(m)
          <6>1. n = m
            BY <1>1, <3>2, <4>1, <5>2 DEF NumbersFit, Open, Live
          <6> QED BY <4>1, <4>2, <6>1 DEF Open, Live
        <5> QED BY <5>1, <5>2
      <4>4. wrote'[n] = wrote[n] \cup {active} /\ stream' = stream
        BY <1>1, <3>2, <4>2 DEF TokenEvent, TypeOK
      <4> QED BY <2>2, <4>3, <4>4
    <3>3. ASSUME NEW m \in Number, TokenEvent(m), n # stream[m].msg PROVE wrote'[n] = wrote[n]
      BY <1>1, <3>3 DEF TokenEvent, TypeOK
    <3>4. User \/ Answer => wrote' = wrote
      BY DEF User, HandleSend, HandleCreate, Stop, Retry, HandleSelect, HandleDelete, ResumeHitl,
         Answer, CreateAnswered, LoadAnswered, DeleteAnswered
    <3>5. \A m \in Number : Event(m) => TokenEvent(m) \/ wrote' = wrote
      BY DEF Event, Ending, ServerAccepts, StatusEvent, InterruptEvent, AwaitingEvent, DoneEvent,
         ErrorEvent, StreamOver
    <3> QED BY <1>4, <2>2, <3>1, <3>2, <3>3, <3>4, <3>5 DEF Next
  <2>4. stream'[n].state = "open" /\ stream'[n].kind # "chat" => stream'[n].msg = stream'[n].shown
    <3>1. ASSUME stream'[n].state = "open", stream'[n].kind # "chat", stream[n].state # "open"
          PROVE  stream'[n].msg = stream'[n].shown
      <4>1. stream[n].state = "asked" /\ stream'[n].kind = stream[n].kind
            /\ stream'[n].shown = stream[n].shown /\ stream'[n].msg = stream[n].msg
        BY <2>1, <3>1 DEF Evolves, Starts, GoesOn
      <4>2. n \in Open
        BY <4>1 DEF Open, Live
      <4>4. stream[n].shown = card /\ card # 0 /\ stream[n].msg = target /\ target = card
        BY <1>1, <3>1, <4>1, <4>2 DEF InHand, Decision
      <4> QED BY <4>1, <4>4
    <3>2. ASSUME stream'[n].kind # "chat", stream[n].state = "open"
          PROVE  stream'[n].msg = stream'[n].shown
      BY <1>2, <2>1, <3>2 DEF Evolves, Starts, GoesOn, Decision
    <3> QED BY <3>1, <3>2
  <2> QED BY <2>3, <2>4 DEF Decision
<1> QED BY <1>3, <1>4

LEMMA RepeatedStep ==
  PageInv /\ [Next]_vars => RepeatedInItsSession'
<1> SUFFICES ASSUME PageInv, [Next]_vars, Undisturbed'
             PROVE  \A p \in repeated' : stream'[p[1]].sess = stream'[p[2]].sess
  BY DEF RepeatedInItsSession
<1> USE DEF serverVars, noted, obsVars, hookVars, callVars
<1>1. Undisturbed /\ AtSession /\ Single /\ InHand /\ TypeOK /\ NumbersFit
  BY UndisturbedBefore DEF Undisturbed, PageInv, PageAtSession, AtSession, OneAtATime, Single,
     StreamInHand, InHand
<1>2. \A p \in repeated : stream[p[1]].sess = stream[p[2]].sess
  BY <1>1 DEF PageInv, RepeatedInItsSession
<1>3. CASE UNCHANGED vars
  BY <1>2, <1>3 DEF vars
<1>4. CASE Next
  <2>1. SessionsKept
    BY <1>1, <1>4, KeepSessions
  <2>2. \A p \in repeated : stream'[p[1]].sess = stream'[p[2]].sess
    <3>1. \A p \in repeated : p[1] \in Number /\ p[2] \in Number
                              /\ stream[p[1]].state # "none" /\ stream[p[2]].state # "none"
      BY <1>1 DEF TypeOK, NumbersFit
    <3> QED BY <1>2, <2>1, <3>1 DEF SessionsKept
  <2>3. CASE repeated' = repeated
    BY <2>2, <2>3
  <2>4. CASE Retry
    <3>1. PICK m \in Free : Begun(m, "chat", active, m, 0) /\ repeated' = repeated \cup {<<again, m>>}
      BY <1>1, <2>4, RetryFacts
    <3>2. loads = {} /\ error /\ again # 0
      <4>1. Click /\ ~hasty' /\ error /\ again # 0
        BY <2>4 DEF Retry, Undisturbed
      <4> QED BY <1>1, <4>1, ClickWaits
    <3>3. stream[again].sess = active
      BY <1>1, <3>2 DEF AtSession
    <3>4. stream'[again].sess = active
      BY <1>1, <1>4, <3>2, <3>3, KeepSessions
    <3>5. stream'[m].sess = active
      BY <3>1 DEF Begun
    <3> QED BY <2>2, <3>1, <3>4, <3>5
  <2>5. User => Retry \/ repeated' = repeated
    BY DEF User, HandleSend, HandleCreate, Stop, HandleSelect, HandleDelete, ResumeHitl
  <2>6. Answer \/ (\E n \in Number : Event(n)) => repeated' = repeated
    BY <1>1, EventBusy DEF Answer, CreateAnswered, LoadAnswered, DeleteAnswered
  <2> QED BY <1>4, <2>3, <2>4, <2>5, <2>6 DEF Next
<1> QED BY <1>3, <1>4

-----------------------------------------------------------------------------
(* The theorems *)

LEMMA InitInv == Init => PageInv
<1> SUFFICES ASSUME Init PROVE PageInv
  OBVIOUS
<1>1. TypeOK /\ NumbersFit
  BY TypeInit, NumbersInit
<1>2. Open = {} /\ Busy = {} /\ ~streaming /\ phase = "idle"
  BY DEF Init, Open, Busy, NoStream, Live
<1>3. OneAtATime /\ StreamInHand /\ StreamingMeansWork
  BY <1>2 DEF Init, OneAtATime, StreamInHand, StreamingMeansWork, NothingCreated
<1>4. PageAtSession
  BY <1>2 DEF Init, PageAtSession, NoStream
<1>5. DecidedAsShown /\ AnswerUnderItsQuestion /\ RepeatedInItsSession
  BY DEF Init, DecidedAsShown, AnswerUnderItsQuestion, RepeatedInItsSession, NoStream
<1> QED BY <1>1, <1>3, <1>4, <1>5 DEF PageInv

LEMMA StepInv == PageInv /\ [Next]_vars => PageInv'
<1> SUFFICES ASSUME PageInv, [Next]_vars PROVE PageInv'
  OBVIOUS
<1>1. TypeOK' /\ NumbersFit' /\ StreamingMeansWork'
  BY TypeStep, NumbersStep, WorkStep DEF PageInv
<1>2. OneAtATime' /\ StreamInHand' /\ PageAtSession'
  BY OneAtATimeStep, StreamInHandStep, PageAtSessionStep DEF PageInv
<1>3. DecidedAsShown' /\ AnswerUnderItsQuestion' /\ RepeatedInItsSession'
  BY DecidedStep, AnswerStep, RepeatedStep
<1> QED BY <1>1, <1>2, <1>3 DEF PageInv

\* Whatever the user clicks and the calls answer, the hooks hold values of their
\* types and numbers of real streams, and a page that claims to be at work has a
\* stream; for one who waits, one thing is in flight and the hooks are at it.
THEOREM PageInvariant == Spec => []PageInv
<1> QED BY InitInv, StepInv, PTL DEF Spec

\* When nothing is in flight, every message on an undisturbed page belongs to the
\* active session (handleSelect, handleDelete, handleSend of AppLayout).
THEOREM ShowsActiveSession == Spec => []PageShowsActiveSession
<1>1. PageInv => PageShowsActiveSession
  BY DEF PageInv, PageAtSession, PageShowsActiveSession, InFlight
<1> QED BY <1>1, PageInvariant, PTL

\* The turn that a click on the card continues is the one whose calls it shows.
THEOREM DecisionIsForTheCard == Spec => []DecidedAsShown
<1>1. PageInv => DecidedAsShown
  BY DEF PageInv
<1> QED BY <1>1, PageInvariant, PTL

\* Tokens go into the answer below their own question, also after a decision.
THEOREM AnswersAreBelowTheirQuestions == Spec => []AnswerUnderItsQuestion
<1>1. PageInv => AnswerUnderItsQuestion
  BY DEF PageInv
<1> QED BY <1>1, PageInvariant, PTL

\* retryLast repeats a question in the session in which it failed.
THEOREM RetryStaysInItsSession == Spec => []RepeatedInItsSession
<1>1. PageInv => RepeatedInItsSession
  BY DEF PageInv
<1> QED BY <1>1, PageInvariant, PTL

\* A page that says it is idle has no stream that could still write into it.
THEOREM StopStopsTheStream == Spec => []StopStops
<1>1. PageInv => StopStops
  BY DEF PageInv, StreamInHand, StopStops
<1> QED BY <1>1, PageInvariant, PTL
===============================================================================
