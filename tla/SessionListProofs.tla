-------------------------- MODULE SessionListProofs ---------------------------
(***************************************************************************)
(* The session list and the titles, for any sessions, titles and orders of *)
(* requests and answers. A rename stands because a turn that reads the     *)
(* title before it writes one holds the row, or read it before the rename  *)
(* began. That the list is current, while no search overlaps another read, *)
(* needs to know which of the pending reads is the last one: Orderly.      *)
(***************************************************************************)
EXTENDS SessionList, TLAPS

-----------------------------------------------------------------------------
(* What the steps do to turns and renames *)

TurnRecord == [at : {"none", "sent", "read", "flushed", "streaming", "ended"},
               seen : Title \cup {"none"}, search : BOOLEAN]
RenameRecord == [at : {"idle", "sent", "read", "flushed", "committed"},
                 of : Chat \cup {"none"}, to : Title \cup {"none"},
                 seen : Title \cup {"none"}, answered : BOOLEAN]

\* One turn, or one rename, has changed to the given values.
TurnSet(s, at, seen, search) ==
  /\ turn' \in [Chat -> TurnRecord]
  /\ turn'[s].at = at /\ turn'[s].seen = seen /\ turn'[s].search = search
  /\ \A u \in Chat \ {s} : turn'[u] = turn[u]
RenameSet(c, at, of, to, seen, answered) ==
  /\ rename' \in [Client -> RenameRecord]
  /\ rename'[c].at = at /\ rename'[c].of = of /\ rename'[c].to = to
  /\ rename'[c].seen = seen /\ rename'[c].answered = answered
  /\ \A d \in Client \ {c} : rename'[d] = rename[d]
RenameOver(c) == RenameSet(c, "idle", "none", "none", "none", FALSE)

LEMMA TurnToFacts ==
  ASSUME turn \in [Chat -> TurnRecord], NEW s \in Chat, NEW at \in {"flushed", "streaming", "ended"},
         TurnTo(s, at)
  PROVE  TurnSet(s, at, turn[s].seen, turn[s].search)
BY DEF TurnTo, TurnSet, TurnRecord

LEMMA SendFacts ==
  ASSUME turn \in [Chat -> TurnRecord], query \in BOOLEAN, NEW s \in Chat, SendQuestion(s)
  PROVE  TurnSet(s, "sent", "none", query)
BY DEF SendQuestion, TurnSet, TurnRecord

LEMMA ReadSessionFacts ==
  ASSUME turn \in [Chat -> TurnRecord], NEW s \in Chat, ReadSession(s)
  PROVE  IF Alive(s) THEN TurnSet(s, "read", title[s], turn[s].search)
         ELSE TurnSet(s, "streaming", turn[s].seen, turn[s].search)
<1>1. CASE Alive(s)
  <2>1. turn' = [turn EXCEPT ![s] = [@ EXCEPT !.at = "read", !.seen = title[s]]]
    BY <1>1 DEF ReadSession
  <2>2. title[s] \in Title
    BY <1>1 DEF Alive
  <2> QED BY <1>1, <2>1, <2>2 DEF TurnSet, TurnRecord
<1>2. CASE ~Alive(s)
  <2>1. turn' = [turn EXCEPT ![s] = [@ EXCEPT !.at = "streaming"]]
    BY <1>2 DEF ReadSession
  <2> QED BY <1>2, <2>1 DEF TurnSet, TurnRecord
<1> QED BY <1>1, <1>2

LEMMA AskFacts ==
  ASSUME rename \in [Client -> RenameRecord], NEW c \in Client, NEW s \in Chat,
         NEW t \in Own \cup {Default}, AskRename(c, s, t)
  PROVE  RenameSet(c, "sent", s, t, "none", FALSE)
BY DEF AskRename, RenameSet, RenameRecord, Title

LEMMA OverFacts ==
  ASSUME rename \in [Client -> RenameRecord], NEW c \in Client, rename' = [rename EXCEPT ![c] = NoRename]
  PROVE  RenameOver(c)
BY DEF RenameSet, RenameOver, RenameRecord, NoRename

LEMMA ReadTitleFacts ==
  ASSUME rename \in [Client -> RenameRecord], NEW c \in Client, ReadTitle(c)
  PROVE  IF Alive(rename[c].of)
         THEN RenameSet(c, "read", rename[c].of, rename[c].to, title[rename[c].of], rename[c].answered)
         ELSE RenameOver(c)
<1>1. CASE Alive(rename[c].of)
  <2>1. rename' = [rename EXCEPT ![c] = [@ EXCEPT !.at = "read", !.seen = title[rename[c].of]]]
    BY <1>1 DEF ReadTitle
  <2>2. title[rename[c].of] \in Title
    BY <1>1 DEF Alive
  <2> QED BY <1>1, <2>1, <2>2 DEF RenameSet, RenameRecord
<1>2. CASE ~Alive(rename[c].of)
  <2>1. rename' = [rename EXCEPT ![c] = NoRename]
    BY <1>2 DEF ReadTitle
  <2> QED BY <1>2, <2>1, OverFacts
<1> QED BY <1>1, <1>2

LEMMA FlushFacts ==
  ASSUME rename \in [Client -> RenameRecord], NEW c \in Client, FlushRename(c)
  PROVE  IF Alive(rename[c].of)
         THEN RenameSet(c, "flushed", rename[c].of, rename[c].to, rename[c].seen, rename[c].answered)
         ELSE RenameOver(c)
<1>1. CASE Alive(rename[c].of)
  <2>1. rename' = [rename EXCEPT ![c].at = "flushed"]
    BY <1>1 DEF FlushRename
  <2> QED BY <1>1, <2>1 DEF RenameSet, RenameRecord
<1>2. CASE ~Alive(rename[c].of)
  BY <1>2, OverFacts DEF FlushRename
<1> QED BY <1>1, <1>2

LEMMA CommitFacts ==
  ASSUME rename \in [Client -> RenameRecord], NEW c \in Client, CommitRename(c)
  PROVE  IF rename[c].answered THEN RenameOver(c)
         ELSE RenameSet(c, "committed", rename[c].of, rename[c].to, rename[c].seen, FALSE)
<1>1. CASE rename[c].answered
  <2>1. rename' = [rename EXCEPT ![c] = NoRename]
    BY <1>1 DEF CommitRename
  <2> QED BY <1>1, <2>1, OverFacts
<1>2. CASE ~rename[c].answered
  <2>1. rename' = [rename EXCEPT ![c] = [@ EXCEPT !.at = "committed"]]
    BY <1>2 DEF CommitRename
  <2> QED BY <1>2, <2>1 DEF RenameSet, RenameRecord
<1> QED BY <1>1, <1>2

LEMMA AnsweredFacts ==
  ASSUME rename \in [Client -> RenameRecord], NEW c \in Client, RenameAnswered(c)
  PROVE  IF rename[c].at = "committed" THEN RenameOver(c)
         ELSE RenameSet(c, "flushed", rename[c].of, rename[c].to, rename[c].seen, TRUE)
<1>1. CASE rename[c].at = "committed"
  <2>1. rename' = [rename EXCEPT ![c] = NoRename]
    BY <1>1 DEF RenameAnswered
  <2> QED BY <1>1, <2>1, OverFacts
<1>2. CASE rename[c].at # "committed"
  <2>1. rename' = [rename EXCEPT ![c] = [@ EXCEPT !.answered = TRUE]] /\ rename[c].at = "flushed"
    BY <1>2 DEF RenameAnswered
  <2> QED BY <1>2, <2>1 DEF RenameSet, RenameRecord
<1> QED BY <1>1, <1>2

-----------------------------------------------------------------------------
(* Types *)

\* ListTypeOK by parts.
TitlesOK ==
  /\ title \in [Chat -> Title \cup {"none", "gone"}]
  /\ asked \subseteq Chat /\ locked \subseteq Chat /\ late \subseteq Chat
FlagsOK == query \in BOOLEAN /\ timer \in BOOLEAN /\ listed \in BOOLEAN /\ overlapped \in BOOLEAN
ListRecord == [id : 1..MaxLists, search : BOOLEAN, at : {"sent", "read"}, rows : Rows]
PageOK == removing \in Chat \cup {"none"} /\ shown \in [Chat -> Title \cup {"none"}]
CountsOK == renames \in 0..MaxRenames /\ types \in 0..MaxTypes /\ asks \in 0..MaxLists

LEMMA Types ==
  ListTypeOK <=> /\ TitlesOK /\ FlagsOK /\ PageOK /\ CountsOK
                 /\ turn \in [Chat -> TurnRecord] /\ rename \in [Client -> RenameRecord]
                 /\ lists \subseteq ListRecord
BY DEF ListTypeOK, TitlesOK, FlagsOK, PageOK, CountsOK, TurnRecord, RenameRecord, ListRecord

LEMMA TypesNext ==
  ASSUME TitlesOK', FlagsOK', PageOK', CountsOK', turn' \in [Chat -> TurnRecord],
         rename' \in [Client -> RenameRecord], lists' \subseteq ListRecord
  PROVE  ListTypeOK'
BY DEF ListTypeOK, TitlesOK, FlagsOK, PageOK, CountsOK, TurnRecord, RenameRecord, ListRecord

LEMMA ListTypeInit == ListInit => ListTypeOK
<1> SUFFICES ASSUME ListInit PROVE ListTypeOK
  OBVIOUS
<1>1. TitlesOK
  BY DEF ListInit, TitlesOK, Title
<1>2. FlagsOK
  BY DEF ListInit, FlagsOK
<1>3. PageOK
  BY DEF ListInit, PageOK, Title
<1>4. CountsOK
  BY CountAssumption DEF ListInit, CountsOK
<1>5. turn \in [Chat -> TurnRecord]
  BY DEF ListInit, TurnRecord
<1>6. rename \in [Client -> RenameRecord]
  BY DEF ListInit, RenameRecord, NoRename
<1>7. lists \subseteq ListRecord
  BY DEF ListInit
<1> QED BY <1>1, <1>2, <1>3, <1>4, <1>5, <1>6, <1>7, Types

\* The rows of a list are titles of living sessions.
LEMMA RowsOfList ==
  ASSUME TitlesOK, NEW search \in BOOLEAN
  PROVE  ListSessions(search) \in Rows
<1> DEFINE found == {s \in Chat : IF search THEN Found(s) ELSE Alive(s)}
<1>1. \A s \in found : title[s] \in Title
  BY DEF Found, Alive
<1>2. ListSessions(search) \in [found -> Title]
  BY <1>1 DEF ListSessions
<1>3. found \in SUBSET Chat
  OBVIOUS
<1> HIDE DEF found
<1> QED BY <1>2, <1>3 DEF Rows

LEMMA RefreshLists ==
  ASSUME lists \subseteq ListRecord, asks \in 0..MaxLists, NEW search \in BOOLEAN, Refresh(search)
  PROVE  /\ asks' \in 0..MaxLists /\ lists' \subseteq ListRecord
         /\ \A l \in lists' : l \in lists \/ (l.search = search /\ l.at = "sent")
         /\ lists' # {} /\ (lists = {} => \A k, l \in lists' : k = l)
<1> DEFINE e == [id |-> asks + 1, search |-> search, at |-> "sent", rows |-> [s \in {} |-> Default]]
<1>1. [s \in {} |-> Default] \in [{} -> Title]
  BY DEF Title
<1>2. [s \in {} |-> Default] \in Rows
  BY <1>1 DEF Rows
<1>3. asks' = asks + 1 /\ asks + 1 \in 1..MaxLists /\ lists' = lists \cup {e}
  BY CountAssumption DEF Refresh
<1>4. e \in ListRecord /\ e.search = search /\ e.at = "sent"
  BY <1>2, <1>3 DEF ListRecord
<1> HIDE DEF e
<1> QED BY <1>3, <1>4, CountAssumption

LEMMA BoxTypes ==
  ASSUME ListTypeOK, \/ Type \/ Debounced \/ RemovalAnswered
                     \/ \E l \in lists : ReadList(l) \/ ShowList(l)
  PROVE  ListTypeOK'
<1> USE DEF server, box
<1>0. /\ TitlesOK /\ FlagsOK /\ PageOK /\ CountsOK
      /\ turn \in [Chat -> TurnRecord] /\ rename \in [Client -> RenameRecord]
      /\ lists \subseteq ListRecord
  BY Types
<1>1. TitlesOK' /\ turn' \in [Chat -> TurnRecord] /\ rename' \in [Client -> RenameRecord]
  BY <1>0 DEF TitlesOK, Type, Debounced, RemovalAnswered, ReadList, ShowList
<1>2. CASE Type
  <2>1. FlagsOK'
    BY <1>0, <1>2 DEF FlagsOK, Type, Noting
  <2>2. PageOK' /\ lists' = lists
    BY <1>0, <1>2 DEF PageOK, Type
  <2>3. CountsOK'
    BY <1>0, <1>2, CountAssumption DEF CountsOK, Type
  <2> QED BY <1>0, <1>1, <2>1, <2>2, <2>3, TypesNext
<1>3. CASE Debounced
  <2>1. FlagsOK'
    BY <1>0, <1>3 DEF FlagsOK, Debounced, Noting
  <2>2. PageOK' /\ UNCHANGED <<renames, types>>
    BY <1>0, <1>3 DEF PageOK, Debounced
  <2>3. query \in BOOLEAN /\ asks \in 0..MaxLists /\ Refresh(query)
    BY <1>0, <1>3 DEF FlagsOK, CountsOK, Debounced
  <2>4. asks' \in 0..MaxLists /\ lists' \subseteq ListRecord
    BY <1>0, <2>3, RefreshLists
  <2>5. CountsOK'
    BY <1>0, <2>2, <2>4 DEF CountsOK
  <2> QED BY <1>1, <2>1, <2>2, <2>4, <2>5, TypesNext
<1>4. CASE RemovalAnswered
  <2>1. PageOK'
    BY <1>0, <1>4 DEF PageOK, RemovalAnswered
  <2>2. FlagsOK' /\ CountsOK' /\ lists' = lists
    BY <1>0, <1>4 DEF FlagsOK, CountsOK, RemovalAnswered
  <2> QED BY <1>0, <1>1, <2>1, <2>2, TypesNext
<1>5. ASSUME NEW l \in lists, ReadList(l) PROVE ListTypeOK'
  <2>1. FlagsOK' /\ CountsOK' /\ PageOK'
    BY <1>0, <1>5 DEF FlagsOK, CountsOK, PageOK, ReadList
  <2>2. l \in ListRecord
    BY <1>0
  <2>3. ListSessions(l.search) \in Rows
    BY <1>0, <2>2, RowsOfList DEF ListRecord
  <2>4. [l EXCEPT !.at = "read", !.rows = ListSessions(l.search)] \in ListRecord
    BY <2>2, <2>3 DEF ListRecord
  <2>5. lists' \subseteq ListRecord
    BY <1>0, <1>5, <2>4 DEF ReadList
  <2> QED BY <1>1, <2>1, <2>5, TypesNext
<1>6. ASSUME NEW l \in lists, ShowList(l) PROVE ListTypeOK'
  <2>1. CountsOK' /\ lists' \subseteq ListRecord /\ removing' = removing
    BY <1>0, <1>6 DEF CountsOK, ShowList
  <2>2. l.search \in BOOLEAN /\ l.rows \in Rows
    BY <1>0 DEF ListRecord
  <2>3. FlagsOK'
    BY <1>0, <1>6, <2>2 DEF FlagsOK, ShowList
  <2>4. \A s \in DOMAIN l.rows : l.rows[s] \in Title
    BY <2>2 DEF Rows
  <2>5. shown' \in [Chat -> Title \cup {"none"}]
    BY <1>6, <2>4 DEF ShowList
  <2> QED BY <1>0, <1>1, <2>1, <2>3, <2>5, TypesNext DEF PageOK
<1> QED BY <1>2, <1>3, <1>4, <1>5, <1>6

LEMMA ChatTypes ==
  ASSUME ListTypeOK, NEW s \in Chat,
         \/ CreateSession(s) \/ DeleteSession(s)
         \/ SendQuestion(s) \/ ReadSession(s) \/ AddMessage(s) \/ CommitQuestion(s) \/ EndTurn(s)
  PROVE  ListTypeOK'
<1> USE DEF server, box
<1>0. /\ TitlesOK /\ FlagsOK /\ PageOK /\ CountsOK
      /\ turn \in [Chat -> TurnRecord] /\ rename \in [Client -> RenameRecord]
      /\ lists \subseteq ListRecord
  BY Types
<1>1. rename' = rename
  BY DEF CreateSession, DeleteSession, SendQuestion, ReadSession, AddMessage, CommitQuestion, EndTurn
<1>2. FlagsOK'
  <2>1. UNCHANGED <<query, timer, listed>>
    BY DEF CreateSession, DeleteSession, SendQuestion, ReadSession, AddMessage, CommitQuestion, EndTurn
  <2>2. overlapped' = overlapped \/ \E o \in BOOLEAN : overlapped' = (overlapped \/ o)
    BY DEF CreateSession, DeleteSession, SendQuestion, ReadSession, AddMessage, CommitQuestion, EndTurn,
           Noting, Awaited, Requesting
  <2> QED BY <1>0, <2>1, <2>2 DEF FlagsOK
<1>3. CASE CreateSession(s)
  <2>1. TitlesOK'
    BY <1>0, <1>3 DEF TitlesOK, CreateSession, Title
  <2>2. PageOK'
    BY <1>0, <1>3 DEF PageOK, CreateSession, Title
  <2>3. CountsOK' /\ turn' = turn /\ lists' = lists
    BY <1>0, <1>3 DEF CountsOK, CreateSession
  <2> QED BY <1>0, <1>1, <1>2, <2>1, <2>2, <2>3, TypesNext
<1>4. CASE DeleteSession(s)
  <2>1. TitlesOK' /\ PageOK'
    BY <1>0, <1>4 DEF TitlesOK, PageOK, DeleteSession
  <2>2. CountsOK' /\ turn' = turn /\ lists' = lists
    BY <1>0, <1>4 DEF CountsOK, DeleteSession
  <2> QED BY <1>0, <1>1, <1>2, <2>1, <2>2, TypesNext
<1>5. CASE SendQuestion(s) \/ ReadSession(s)
  <2>1. TitlesOK' /\ PageOK' /\ CountsOK' /\ lists' = lists
    BY <1>0, <1>5 DEF TitlesOK, PageOK, CountsOK, SendQuestion, ReadSession
  <2>2. turn' \in [Chat -> TurnRecord]
    BY <1>0, <1>5, SendFacts, ReadSessionFacts DEF TurnSet, FlagsOK
  <2> QED BY <1>0, <1>1, <1>2, <2>1, <2>2, TypesNext
<1>6. CASE AddMessage(s)
  <2>1. TitlesOK' /\ PageOK' /\ CountsOK' /\ lists' = lists
    BY <1>0, <1>6 DEF TitlesOK, PageOK, CountsOK, AddMessage
  <2>2. turn' \in [Chat -> TurnRecord]
    BY <1>0, <1>6, TurnToFacts DEF TurnSet, AddMessage
  <2> QED BY <1>0, <1>1, <1>2, <2>1, <2>2, TypesNext
<1>7. CASE CommitQuestion(s)
  <2>1. TitlesOK'
    BY <1>0, <1>7 DEF TitlesOK, CommitQuestion, AutoTitle, Title
  <2>2. PageOK' /\ CountsOK' /\ lists' = lists
    BY <1>0, <1>7 DEF PageOK, CountsOK, CommitQuestion
  <2>3. turn' \in [Chat -> TurnRecord]
    BY <1>0, <1>7, TurnToFacts DEF TurnSet, CommitQuestion
  <2> QED BY <1>0, <1>1, <1>2, <2>1, <2>2, <2>3, TypesNext
<1>8. CASE EndTurn(s)
  <2>1. TitlesOK' /\ PageOK' /\ UNCHANGED <<renames, types>>
    BY <1>0, <1>8 DEF TitlesOK, PageOK, EndTurn
  <2>2. turn' \in [Chat -> TurnRecord]
    BY <1>0, <1>8, TurnToFacts DEF TurnSet, EndTurn
  <2>3. turn[s].search \in BOOLEAN /\ asks \in 0..MaxLists /\ Refresh(turn[s].search)
    BY <1>0, <1>8 DEF CountsOK, TurnRecord, EndTurn
  <2>4. asks' \in 0..MaxLists /\ lists' \subseteq ListRecord
    BY <1>0, <2>3, RefreshLists
  <2>5. CountsOK'
    BY <1>0, <2>1, <2>4 DEF CountsOK
  <2> QED BY <1>0, <1>1, <1>2, <2>1, <2>2, <2>4, <2>5, TypesNext
<1> QED BY <1>3, <1>4, <1>5, <1>6, <1>7, <1>8

LEMMA RenameTypes ==
  ASSUME ListTypeOK, RowsHeld, NEW c \in Client,
         \/ ReadTitle(c) \/ FlushRename(c) \/ CommitRename(c) \/ RenameAnswered(c)
         \/ \E s \in Chat, t \in Own \cup {Default} : AskRename(c, s, t)
  PROVE  ListTypeOK'
<1> USE DEF server, box
<1>0. /\ TitlesOK /\ FlagsOK /\ PageOK /\ CountsOK
      /\ turn \in [Chat -> TurnRecord] /\ rename \in [Client -> RenameRecord]
      /\ lists \subseteq ListRecord
  BY Types
<1>1. UNCHANGED <<turn, lists, removing, types, asks, query, timer, listed>>
  BY DEF ReadTitle, FlushRename, CommitRename, RenameAnswered, AskRename
<1>2. FlagsOK'
  <2>1. overlapped' = overlapped \/ \E o \in BOOLEAN : overlapped' = (overlapped \/ o)
    BY DEF ReadTitle, FlushRename, CommitRename, RenameAnswered, AskRename, Noting, Awaited, Requesting
  <2> QED BY <1>0, <1>1, <2>1 DEF FlagsOK
<1>3. rename' \in [Client -> RenameRecord]
  BY <1>0, AskFacts, ReadTitleFacts, FlushFacts, CommitFacts, AnsweredFacts DEF RenameSet, RenameOver
<1>4. CASE \E s \in Chat, t \in Own \cup {Default} : AskRename(c, s, t)
  <2>1. TitlesOK' /\ PageOK'
    BY <1>0, <1>4 DEF TitlesOK, PageOK, AskRename
  <2>2. CountsOK'
    BY <1>0, <1>1, <1>4, CountAssumption DEF CountsOK, AskRename
  <2> QED BY <1>0, <1>1, <1>2, <1>3, <2>1, <2>2, TypesNext
<1>5. CASE ReadTitle(c)
  <2>1. TitlesOK' /\ PageOK' /\ CountsOK'
    BY <1>0, <1>5 DEF TitlesOK, PageOK, CountsOK, ReadTitle
  <2> QED BY <1>0, <1>1, <1>2, <1>3, <2>1, TypesNext
<1>6. CASE FlushRename(c)
  <2>1. locked' \subseteq Chat
    BY <1>0, <1>6 DEF TitlesOK, FlushRename, RowsHeld
  <2>2. TitlesOK' /\ PageOK' /\ CountsOK'
    BY <1>0, <1>6, <2>1 DEF TitlesOK, PageOK, CountsOK, FlushRename
  <2> QED BY <1>0, <1>1, <1>2, <1>3, <2>2, TypesNext
<1>7. CASE CommitRename(c)
  <2>1. rename[c].of \in Chat /\ rename[c].to \in Title
    BY <1>7 DEF CommitRename, RowsHeld, Title
  <2>2. TitlesOK'
    BY <1>0, <1>7, <2>1 DEF TitlesOK, CommitRename
  <2>3. PageOK' /\ CountsOK'
    BY <1>0, <1>7 DEF PageOK, CountsOK, CommitRename
  <2> QED BY <1>0, <1>1, <1>2, <1>3, <2>2, <2>3, TypesNext
<1>8. CASE RenameAnswered(c)
  <2>1. rename[c].of \in Chat /\ rename[c].to \in Title
    BY <1>8 DEF RenameAnswered, RowsHeld, Title
  <2>2. PageOK'
    BY <1>0, <1>8, <2>1 DEF PageOK, RenameAnswered
  <2>3. TitlesOK' /\ CountsOK'
    BY <1>0, <1>8 DEF TitlesOK, CountsOK, RenameAnswered
  <2> QED BY <1>0, <1>1, <1>2, <1>3, <2>2, <2>3, TypesNext
<1> QED BY <1>4, <1>5, <1>6, <1>7, <1>8

LEMMA ListTypeStep == ListTypeOK /\ RowsHeld /\ [ListNext]_list => ListTypeOK'
<1>1. ListTypeOK /\ UNCHANGED list => ListTypeOK'
  BY DEF ListTypeOK, list, server, box
<1> QED BY <1>1, BoxTypes, ChatTypes, RenameTypes DEF ListNext

-----------------------------------------------------------------------------
(* Rows are held by one flush *)

\* What RowsHeld says of one turn and of one rename.
TurnHeld(s) == turn[s].at = "flushed" => s \in locked /\ Alive(s)
RenameFits(c) ==
  /\ rename[c].at # "idle" => rename[c].of \in Chat /\ rename[c].to \in Own \cup {Default}
  /\ rename[c].answered => rename[c].at = "flushed"
RenameHeld(c) ==
  rename[c].at = "flushed" =>
    /\ rename[c].of \in locked /\ Alive(rename[c].of) /\ turn[rename[c].of].at # "flushed"
    /\ \A d \in Client \ {c} : rename[d].at = "flushed" => rename[d].of # rename[c].of

LEMMA HeldParts ==
  RowsHeld <=> (\A s \in Chat : TurnHeld(s)) /\ (\A c \in Client : RenameFits(c) /\ RenameHeld(c))
BY DEF RowsHeld, TurnHeld, RenameFits, RenameHeld, Alive

\* A title that the step leaves or replaces by a title.
LEMMA TitleAfter ==
  ASSUME title \in [Chat -> Title \cup {"none", "gone"}], NEW s \in Chat, NEW t \in Title \cup {"none", "gone"},
         title' = [title EXCEPT ![s] = t]
  PROVE  /\ title'[s] = t
         /\ \A u \in Chat \ {s} : title'[u] = title[u] /\ (title'[u] \in Title <=> title[u] \in Title)
BY DEF Alive

LEMMA HeldBox ==
  ASSUME RowsHeld, UNCHANGED <<title, locked, turn, rename>>
  PROVE  RowsHeld'
BY DEF RowsHeld, Alive

LEMMA HeldChat ==
  ASSUME ListTypeOK, RowsHeld, NEW s \in Chat,
         \/ CreateSession(s) \/ DeleteSession(s)
         \/ SendQuestion(s) \/ ReadSession(s) \/ AddMessage(s) \/ CommitQuestion(s) \/ EndTurn(s)
  PROVE  RowsHeld'
<1> USE DEF server, box
<1>0. /\ TitlesOK /\ FlagsOK /\ turn \in [Chat -> TurnRecord] /\ rename' = rename
      /\ title \in [Chat -> Title \cup {"none", "gone"}]
  BY Types DEF TitlesOK, CreateSession, DeleteSession, SendQuestion, ReadSession, AddMessage,
     CommitQuestion, EndTurn
<1>1. (\A u \in Chat : TurnHeld(u)) /\ (\A c \in Client : RenameFits(c) /\ RenameHeld(c))
  BY HeldParts
<1>2. \A c \in Client : RenameFits(c)'
  BY <1>0, <1>1 DEF RenameFits
<1>3. \A c \in Client : rename[c].at = "flushed" => rename[c].of \in Chat
  BY <1>1 DEF RenameFits
<1>4. ASSUME \A u \in Chat : TurnHeld(u)',
             \A c \in Client : rename[c].at = "flushed" =>
               LET u == rename[c].of IN u \in locked' /\ title'[u] \in Title /\ turn'[u].at # "flushed"
      PROVE  RowsHeld'
  <2>1. \A c \in Client : RenameHeld(c)'
    BY <1>0, <1>1, <1>4 DEF RenameHeld, Alive
  <2> QED BY <1>2, <1>4, <2>1 DEF RowsHeld, TurnHeld, RenameFits, RenameHeld, Alive
<1>5. CASE CreateSession(s)
  <2>1. UNCHANGED <<locked, turn>> /\ title' = [title EXCEPT ![s] = Default]
    BY <1>5 DEF CreateSession
  <2>2. title'[s] \in Title /\ \A u \in Chat \ {s} : (title'[u] \in Title <=> title[u] \in Title)
    BY <1>0, <2>1, TitleAfter DEF Title
  <2>3. \A u \in Chat : TurnHeld(u)'
    BY <1>1, <2>1, <2>2 DEF TurnHeld, Alive
  <2>4. \A c \in Client : rename[c].at = "flushed" =>
          LET u == rename[c].of IN u \in locked' /\ title'[u] \in Title /\ turn'[u].at # "flushed"
    BY <1>1, <1>3, <2>1, <2>2 DEF RenameHeld, Alive
  <2> QED BY <1>4, <2>3, <2>4
<1>6. CASE DeleteSession(s)
  <2>1. UNCHANGED <<locked, turn>> /\ s \notin locked
        /\ (title' = [title EXCEPT ![s] = "gone"] \/ title' = title)
    BY <1>6 DEF DeleteSession
  <2>2. \A u \in Chat \ {s} : (title'[u] \in Title <=> title[u] \in Title)
    BY <1>0, <2>1, TitleAfter DEF Alive
  <2>3. \A u \in Chat : TurnHeld(u)'
    BY <1>1, <2>1, <2>2 DEF TurnHeld, Alive
  <2>4. \A c \in Client : rename[c].at = "flushed" =>
          LET u == rename[c].of IN u \in locked' /\ title'[u] \in Title /\ turn'[u].at # "flushed"
    BY <1>1, <1>3, <2>1, <2>2 DEF RenameHeld, Alive
  <2> QED BY <1>4, <2>3, <2>4
<1>7. CASE SendQuestion(s) \/ ReadSession(s) \/ EndTurn(s)
  <2>1. UNCHANGED <<title, locked>>
    BY <1>7 DEF SendQuestion, ReadSession, EndTurn
  <2>2. turn'[s].at # "flushed" /\ \A u \in Chat \ {s} : turn'[u] = turn[u]
    BY <1>0, <1>7, SendFacts, ReadSessionFacts, TurnToFacts DEF TurnSet, EndTurn, FlagsOK
  <2>3. \A u \in Chat : TurnHeld(u)'
    BY <1>1, <2>1, <2>2 DEF TurnHeld, Alive
  <2>4. \A c \in Client : rename[c].at = "flushed" =>
          LET u == rename[c].of IN u \in locked' /\ title'[u] \in Title /\ turn'[u].at # "flushed"
    BY <1>1, <1>3, <2>1, <2>2 DEF RenameHeld, Alive
  <2> QED BY <1>4, <2>3, <2>4
<1>8. CASE AddMessage(s)
  <2>1. s \notin locked /\ title' = title /\ locked \subseteq locked'
    BY <1>8 DEF AddMessage
  <2>2. \A u \in Chat \ {s} : turn'[u] = turn[u]
    BY <1>0, <1>8, TurnToFacts DEF TurnSet, AddMessage
  <2>3. turn'[s].at = "flushed" => s \in locked' /\ Alive(s)
    <3>1. CASE Alive(s)
      BY <1>8, <3>1 DEF AddMessage
    <3>2. CASE ~Alive(s)
      BY <1>0, <1>8, <3>2, TurnToFacts DEF TurnSet, AddMessage
    <3> QED BY <3>1, <3>2
  <2>4. \A u \in Chat : TurnHeld(u)'
    BY <1>1, <2>1, <2>2, <2>3 DEF TurnHeld, Alive
  <2>5. \A c \in Client : rename[c].at = "flushed" =>
          LET u == rename[c].of IN u \in locked' /\ title'[u] \in Title /\ turn'[u].at # "flushed"
    BY <1>1, <1>3, <2>1, <2>2 DEF RenameHeld, Alive
  <2> QED BY <1>4, <2>4, <2>5
<1>9. CASE CommitQuestion(s)
  <2>1. turn[s].at = "flushed" /\ locked' = locked \ {s}
    BY <1>9 DEF CommitQuestion
  <2>2. turn'[s].at # "flushed" /\ \A u \in Chat \ {s} : turn'[u] = turn[u]
    BY <1>0, <1>9, TurnToFacts DEF TurnSet, CommitQuestion
  <2>3. \A u \in Chat \ {s} : (title'[u] \in Title <=> title[u] \in Title)
    BY <1>0, <1>9 DEF CommitQuestion, AutoTitle, Alive
  <2>4. \A u \in Chat : TurnHeld(u)'
    BY <1>1, <2>1, <2>2, <2>3 DEF TurnHeld, Alive
  <2>5. \A c \in Client : rename[c].at = "flushed" =>
          LET u == rename[c].of IN u \in locked' /\ title'[u] \in Title /\ turn'[u].at # "flushed"
    BY <1>1, <1>3, <2>1, <2>2, <2>3 DEF RenameHeld, Alive
  <2> QED BY <1>4, <2>4, <2>5
<1> QED BY <1>5, <1>6, <1>7, <1>8, <1>9

LEMMA HeldRename ==
  ASSUME ListTypeOK, RowsHeld, NEW c \in Client,
         \/ ReadTitle(c) \/ FlushRename(c) \/ CommitRename(c) \/ RenameAnswered(c)
         \/ \E s \in Chat, t \in Own \cup {Default} : AskRename(c, s, t)
  PROVE  RowsHeld'
<1> USE DEF server, box
<1>0. /\ TitlesOK /\ turn' = turn /\ rename \in [Client -> RenameRecord]
      /\ title \in [Chat -> Title \cup {"none", "gone"}]
  BY Types DEF TitlesOK, ReadTitle, FlushRename, CommitRename, RenameAnswered, AskRename
<1>1. (\A u \in Chat : TurnHeld(u)) /\ (\A d \in Client : RenameFits(d) /\ RenameHeld(d))
  BY HeldParts
<1>2. CASE \E s \in Chat, t \in Own \cup {Default} : AskRename(c, s, t)
  <2>1. PICK s \in Chat, t \in Own \cup {Default} : AskRename(c, s, t)
    BY <1>2
  <2>2. RenameSet(c, "sent", s, t, "none", FALSE)
    BY <1>0, <2>1, AskFacts
  <2>3. UNCHANGED <<title, locked>>
    BY <2>1 DEF AskRename
  <2>4. \A d \in Client : RenameFits(d)' /\ RenameHeld(d)'
    BY <1>0, <1>1, <2>2, <2>3 DEF RenameSet, RenameFits, RenameHeld, Alive
  <2> QED BY <1>0, <1>1, <2>3, <2>4 DEF RowsHeld, TurnHeld, RenameFits, RenameHeld, Alive
<1>3. CASE ReadTitle(c)
  <2>1. UNCHANGED <<title, locked>> /\ rename[c].at = "sent"
    BY <1>3 DEF ReadTitle
  <2>2. RenameOver(c) \/ RenameSet(c, "read", rename[c].of, rename[c].to, title[rename[c].of], rename[c].answered)
    BY <1>0, <1>3, ReadTitleFacts
  <2>3. \A d \in Client : RenameFits(d)' /\ RenameHeld(d)'
    BY <1>0, <1>1, <2>1, <2>2 DEF RenameSet, RenameOver, RenameFits, RenameHeld, Alive
  <2> QED BY <1>0, <1>1, <2>1, <2>3 DEF RowsHeld, TurnHeld, RenameFits, RenameHeld, Alive
<1>4. CASE FlushRename(c)
  <2>1. title' = title /\ rename[c].at = "read" /\ rename[c].of \notin locked /\ locked \subseteq locked'
    BY <1>4 DEF FlushRename
  <2>2. CASE ~Alive(rename[c].of)
    <3>1. RenameOver(c)
      BY <1>0, <1>4, <2>2, FlushFacts
    <3>2. \A d \in Client : RenameFits(d)' /\ RenameHeld(d)'
      BY <1>0, <1>1, <2>1, <3>1 DEF RenameSet, RenameOver, RenameFits, RenameHeld, Alive
    <3> QED BY <1>0, <1>1, <2>1, <3>2 DEF RowsHeld, TurnHeld, RenameFits, RenameHeld, Alive
  <2>3. CASE Alive(rename[c].of)
    <3>1. RenameSet(c, "flushed", rename[c].of, rename[c].to, rename[c].seen, rename[c].answered)
      BY <1>0, <1>4, <2>3, FlushFacts
    <3>2. rename[c].of \in Chat /\ rename[c].of \in locked' /\ turn[rename[c].of].at # "flushed"
      BY <1>1, <1>4, <2>1, <2>3 DEF FlushRename, RenameFits, TurnHeld, Alive
    <3>3. \A d \in Client \ {c} : rename[d].at = "flushed" => rename[d].of # rename[c].of
      BY <1>1, <2>1 DEF RenameHeld, Alive
    <3>4. \A d \in Client : RenameFits(d)' /\ RenameHeld(d)'
      BY <1>0, <1>1, <2>1, <2>3, <3>1, <3>2, <3>3 DEF RenameSet, RenameFits, RenameHeld, Alive
    <3> QED BY <1>0, <1>1, <2>1, <3>4 DEF RowsHeld, TurnHeld, RenameFits, RenameHeld, Alive
  <2> QED BY <2>2, <2>3
<1>5. CASE CommitRename(c)
  <2> DEFINE s == rename[c].of
             t == IF rename[c].to = rename[c].seen THEN title[s] ELSE rename[c].to
  <2>1. rename[c].at = "flushed" /\ locked' = locked \ {s} /\ title' = [title EXCEPT ![s] = t]
    BY <1>5 DEF CommitRename
  <2>2. s \in Chat /\ rename[c].to \in Title /\ turn[s].at # "flushed" /\ Alive(s)
        /\ \A d \in Client \ {c} : rename[d].at = "flushed" => rename[d].of # s
    BY <1>1, <2>1 DEF RenameFits, RenameHeld, Title, Alive
  <2>3. t \in Title
    BY <2>2 DEF Alive
  <2> HIDE DEF t
  <2>4. title'[s] \in Title /\ \A u \in Chat \ {s} : (title'[u] \in Title <=> title[u] \in Title)
    BY <1>0, <2>1, <2>2, <2>3, TitleAfter
  <2>5. RenameOver(c) \/ RenameSet(c, "committed", rename[c].of, rename[c].to, rename[c].seen, FALSE)
    BY <1>0, <1>5, CommitFacts
  <2>6. \A u \in Chat : TurnHeld(u)'
    BY <1>0, <1>1, <2>1, <2>2, <2>4 DEF TurnHeld, Alive
  <2>7. \A d \in Client : RenameFits(d)'
    BY <1>1, <2>2, <2>1, <2>5 DEF RenameFits, RenameSet, RenameOver
  <2>8. \A d \in Client : RenameHeld(d)'
    <3>1. ASSUME NEW d \in Client \ {c}, rename[d].at = "flushed" PROVE RenameHeld(d)'
      <4>1. rename[d].of \in Chat \ {s} /\ rename'[d] = rename[d] /\ rename'[c].at # "flushed"
        BY <1>1, <2>2, <2>5, <3>1 DEF RenameFits, RenameSet, RenameOver
      <4>2. \A e \in Client \ {d} : rename'[e].at = "flushed" => rename'[e].of # rename'[d].of
        BY <1>1, <2>5, <3>1, <4>1 DEF RenameHeld, RenameSet, RenameOver, Alive
      <4> QED BY <1>0, <1>1, <2>1, <2>4, <3>1, <4>1, <4>2 DEF RenameHeld, Alive
    <3>2. RenameHeld(c)'
      BY <2>5 DEF RenameHeld, RenameSet, RenameOver, Alive
    <3>3. \A d \in Client \ {c} : rename[d].at # "flushed" => RenameHeld(d)'
      BY <2>5 DEF RenameHeld, RenameSet, RenameOver, Alive
    <3> QED BY <3>1, <3>2, <3>3
  <2> QED BY <2>6, <2>7, <2>8 DEF RowsHeld, TurnHeld, RenameFits, RenameHeld, Alive
<1>6. CASE RenameAnswered(c)
  <2>1. UNCHANGED <<title, locked>> /\ rename[c].at \in {"committed", "flushed"}
    BY <1>6 DEF RenameAnswered
  <2>2. \/ RenameOver(c)
        \/ rename[c].at = "flushed" /\ RenameSet(c, "flushed", rename[c].of, rename[c].to, rename[c].seen, TRUE)
    BY <1>0, <1>6, <2>1, AnsweredFacts
  <2>3. \A d \in Client : RenameFits(d)' /\ RenameHeld(d)'
    BY <1>0, <1>1, <2>1, <2>2 DEF RenameSet, RenameOver, RenameFits, RenameHeld, Alive
  <2> QED BY <1>0, <1>1, <2>1, <2>3 DEF RowsHeld, TurnHeld, RenameFits, RenameHeld, Alive
<1> QED BY <1>2, <1>3, <1>4, <1>5, <1>6

LEMMA RowsHeldStep == ListTypeOK /\ RowsHeld /\ [ListNext]_list => RowsHeld'
<1>1. \/ Type \/ Debounced \/ RemovalAnswered \/ UNCHANGED list
      \/ \E l \in lists : ReadList(l) \/ ShowList(l)
      => UNCHANGED <<title, locked, turn, rename>>
  BY DEF list, server, Type, Debounced, RemovalAnswered, ReadList, ShowList
<1> QED BY <1>1, HeldBox, HeldChat, HeldRename DEF ListNext

-----------------------------------------------------------------------------
(* A rename is lost only to a turn that had read the title before *)

\* What a step does to the title of a session.
LEMMA TitleChanges ==
  ASSUME ListTypeOK, RowsHeld, ListNext, NEW s \in Chat
  PROVE  \/ title'[s] = title[s]
         \/ title'[s] \in {Default, "gone"}
         \/ CommitQuestion(s) /\ turn[s].seen = Default /\ title'[s] = Automatic
         \/ \E c \in Client : CommitRename(c) /\ rename[c].of = s /\ title'[s] \in Own \cup {Default}
<1> USE DEF server, box
<1>0. title \in [Chat -> Title \cup {"none", "gone"}]
  BY Types DEF TitlesOK
<1>1. CASE title' = title
  BY <1>1
<1>2. ASSUME NEW u \in Chat, CreateSession(u) \/ DeleteSession(u) PROVE title'[s] \in {title[s], Default, "gone"}
  BY <1>0, <1>2 DEF CreateSession, DeleteSession
<1>3. ASSUME NEW u \in Chat, CommitQuestion(u)
      PROVE  title'[s] = title[s] \/ (u = s /\ turn[s].seen = Default /\ title'[s] = Automatic)
  BY <1>0, <1>3 DEF CommitQuestion, AutoTitle
<1>4. ASSUME NEW c \in Client, CommitRename(c)
      PROVE  title'[s] = title[s] \/ (rename[c].of = s /\ title'[s] \in Own \cup {Default})
  <2>1. rename[c].to \in Own \cup {Default}
    BY <1>4 DEF CommitRename, RowsHeld
  <2>2. title' = [title EXCEPT ![rename[c].of] = IF rename[c].to = rename[c].seen THEN @ ELSE rename[c].to]
    BY <1>4 DEF CommitRename
  <2> QED BY <1>0, <2>1, <2>2
<1>5. \/ title' = title
      \/ \E u \in Chat : CreateSession(u) \/ DeleteSession(u) \/ CommitQuestion(u)
      \/ \E c \in Client : CommitRename(c)
  BY DEF ListNext, Type, Debounced, RemovalAnswered, ReadList, ShowList, SendQuestion, ReadSession,
     AddMessage, EndTurn, ReadTitle, FlushRename, RenameAnswered, AskRename
<1> QED BY <1>1, <1>2, <1>3, <1>4, <1>5

\* What a step does to the turn of a session.
LEMMA TurnChanges ==
  ASSUME ListTypeOK, ListNext, NEW s \in Chat
  PROVE  \/ turn'[s] = turn[s]
         \/ turn'[s].at \in {"sent", "streaming", "ended"}
         \/ title'[s] = title[s] /\ turn'[s].at = "read" /\ turn'[s].seen = title[s]
         \/ /\ title'[s] = title[s] /\ late' = late
            /\ turn[s].at = "read" /\ turn'[s].at = "flushed" /\ turn'[s].seen = turn[s].seen
<1> USE DEF server, box
<1>0. turn \in [Chat -> TurnRecord] /\ query \in BOOLEAN
  BY Types DEF FlagsOK
<1>1. CASE turn' = turn
  BY <1>1
<1>2. ASSUME NEW u \in Chat, SendQuestion(u) PROVE turn'[s] = turn[s] \/ turn'[s].at = "sent"
  BY <1>0, <1>2, SendFacts DEF TurnSet
<1>3. ASSUME NEW u \in Chat, CommitQuestion(u) \/ EndTurn(u)
      PROVE  turn'[s] = turn[s] \/ turn'[s].at \in {"streaming", "ended"}
  BY <1>0, <1>3, TurnToFacts DEF TurnSet, CommitQuestion, EndTurn
<1>4. ASSUME NEW u \in Chat, ReadSession(u)
      PROVE  \/ turn'[s] = turn[s] \/ turn'[s].at = "streaming"
             \/ title'[s] = title[s] /\ turn'[s].at = "read" /\ turn'[s].seen = title[s]
  <2>1. title' = title
    BY <1>4 DEF ReadSession
  <2> QED BY <1>0, <1>4, <2>1, ReadSessionFacts DEF TurnSet
<1>5. ASSUME NEW u \in Chat, AddMessage(u)
      PROVE  \/ turn'[s] = turn[s] \/ turn'[s].at = "streaming"
             \/ /\ title'[s] = title[s] /\ late' = late
                /\ turn[s].at = "read" /\ turn'[s].at = "flushed" /\ turn'[s].seen = turn[s].seen
  <2>1. UNCHANGED <<title, late>> /\ turn[u].at = "read"
    BY <1>5 DEF AddMessage
  <2>2. TurnTo(u, "flushed") \/ TurnTo(u, "streaming")
    BY <1>5 DEF AddMessage
  <2> QED BY <1>0, <2>1, <2>2, TurnToFacts DEF TurnSet
<1>6. \/ turn' = turn
      \/ \E u \in Chat : SendQuestion(u) \/ ReadSession(u) \/ AddMessage(u) \/ CommitQuestion(u) \/ EndTurn(u)
  BY DEF ListNext, Type, Debounced, RemovalAnswered, ReadList, ShowList, CreateSession, DeleteSession,
     ReadTitle, FlushRename, CommitRename, RenameAnswered, AskRename
<1> QED BY <1>1, <1>2, <1>3, <1>4, <1>5, <1>6

LEMMA ReadBeforeStep == ListTypeOK /\ RowsHeld /\ ReadBefore /\ [ListNext]_list => ReadBefore'
<1> SUFFICES ASSUME ListTypeOK, RowsHeld, ReadBefore, ListNext, NEW s \in Chat,
                    turn'[s].at \in {"read", "flushed"}, turn'[s].seen = Default, title'[s] \in Own
             PROVE  s \in late'
  <2>1. ReadBefore /\ UNCHANGED list => ReadBefore'
    BY DEF ReadBefore, list, server
  <2> QED BY <2>1 DEF ReadBefore
<1> USE DEF server, box
<1>1. late \subseteq late'
  BY DEF ListNext, Type, Debounced, RemovalAnswered, ReadList, ShowList, CreateSession, DeleteSession,
     SendQuestion, ReadSession, AddMessage, CommitQuestion, EndTurn,
     ReadTitle, FlushRename, CommitRename, RenameAnswered, AskRename
<1>2. Default \notin Own /\ "gone" \notin Own /\ Automatic \notin Own
  BY TitleAssumption
<1>3. turn[s].at \in {"read", "flushed"} /\ turn[s].seen = Default /\ (turn'[s] = turn[s] \/ title'[s] = title[s])
  BY <1>2, TurnChanges
<1>4. CASE title'[s] = title[s]
  BY <1>1, <1>3, <1>4 DEF ReadBefore
<1>5. CASE title'[s] # title[s]
  <2>1. PICK c \in Client : CommitRename(c) /\ rename[c].of = s
    BY <1>2, <1>5, TitleChanges
  <2>2. turn[s].at # "flushed"
    BY <2>1 DEF CommitRename, RowsHeld
  <2> QED BY <1>3, <2>1, <2>2 DEF CommitRename
<1> QED BY <1>4, <1>5

LEMMA RenameInvInit == ListInit => RenameInv
<1> SUFFICES ASSUME ListInit PROVE RenameInv
  OBVIOUS
<1>1. RowsHeld
  BY DEF ListInit, RowsHeld, NoRename
<1>2. ReadBefore
  BY DEF ListInit, ReadBefore
<1> QED BY <1>1, <1>2, ListTypeInit DEF RenameInv

LEMMA RenameInvStep == RenameInv /\ [ListNext]_list => RenameInv'
BY ListTypeStep, RowsHeldStep, ReadBeforeStep DEF RenameInv

\* Rows are held by one flush at a time, and whoever waits to write an automatic
\* title over one of the user's read the session before that was committed.
THEOREM RenameInvariant == ListSpec => []RenameInv
<1> QED BY RenameInvInit, RenameInvStep, PTL DEF ListSpec

\* auto_title_from_message replaces a title of the user's only if the rename was
\* committed between the turn's read and its flush.
THEOREM RenamesStand == ListSpec => RenameStands
<1>1. ASSUME RenameInv, [ListNext]_list, NEW s \in Chat, title[s] \in Own, title'[s] = Automatic
      PROVE  s \in late
  <2>1. Default \notin Own /\ "gone" \notin Own /\ Automatic \notin Own /\ Automatic \notin {Default, "gone"}
    BY TitleAssumption DEF Default, Automatic
  <2>2. title'[s] # title[s] /\ ListNext
    BY <1>1, <2>1 DEF list, server
  <2>3. CommitQuestion(s) /\ turn[s].seen = Default
    BY <1>1, <2>1, <2>2, TitleChanges DEF RenameInv
  <2> QED BY <1>1, <2>3 DEF CommitQuestion, RenameInv, ReadBefore
<1>2. RenameInv /\ [ListNext]_list => [\A s \in Chat : title[s] \in Own /\ title'[s] = Automatic => s \in late]_list
  BY <1>1
<1> QED BY <1>2, RenameInvariant, PTL DEF ListSpec, RenameStands

-----------------------------------------------------------------------------
(* Without overlap the page is complete and current *)

\* The parts of Orderly as they are used: of a rename only the page's, and
\* titles by their values.
LEMMA OrderlyParts ==
  ASSUME ListTypeOK, RowsHeld, Orderly
  PROVE  /\ OneRequest /\ ListComing /\ RenameComing /\ TitlesShown /\ NoneMissing
         /\ rename["tab"].at = "idle"
         /\ Requesting <=> removing # "none" \/ rename["page"].at # "idle"
         /\ rename["page"].at \in {"idle", "sent", "read"} => ~rename["page"].answered
         /\ Requesting => lists = {} /\ ~timer
         /\ Answering => lists = {} /\ ~timer
BY DEF Orderly, OneRequest, Requesting, RowsHeld, Client

LEMMA NoneIsNoTitle == "none" \notin Title /\ "gone" \notin Title /\ Default \in Title /\ Automatic \in Title
BY TitleAssumption DEF Title, Default, Automatic

LEMMA OrderlyType ==
  ASSUME ListTypeOK, RowsHeld, Orderly, Type, ~overlapped'
  PROVE  Orderly'
<1> USE DEF server, box
<1>1. ~Answering /\ lists = {} /\ ~Requesting
  BY OrderlyParts DEF Type, Noting, Awaited
<1>2. timer' /\ UNCHANGED <<title, turn, rename, removing, shown, lists, listed, asked>>
  BY DEF Type
<1>3. OneRequest'
  BY <1>1, <1>2, OrderlyParts DEF OneRequest, Requesting, Answering, Runs, Alive
<1>4. ListComing' /\ RenameComing'
  BY <1>1, <1>2, OrderlyParts DEF ListComing, RenameComing
<1>5. TitlesShown'
  BY <1>1, <1>2, OrderlyParts DEF TitlesShown, Runs
<1>6. NoneMissing'
  BY <1>1, <1>2 DEF NoneMissing, Answering, Runs
<1> QED BY <1>3, <1>4, <1>5, <1>6 DEF Orderly

\* A list is asked for while nothing else is in flight.
LEMMA OrderlyRefresh ==
  ASSUME ListTypeOK, RowsHeld, Orderly, lists = {}, ~Requesting, ~timer', \A s \in Chat : ~Runs(s)',
         UNCHANGED <<title, rename, removing, query>>, Refresh(query)
  PROVE  Orderly'
<1>1. rename["page"].at = "idle" /\ removing = "none" /\ rename["tab"].at = "idle"
  BY OrderlyParts
<1>2. \A k, l \in lists' : k = l
  BY Types, RefreshLists DEF FlagsOK, CountsOK
<1>3. lists' # {} /\ \A l \in lists' : l.search = query /\ l.at = "sent"
  BY Types, RefreshLists DEF FlagsOK, CountsOK
<1>4. OneRequest'
  BY <1>1 DEF OneRequest, Requesting, Answering, Client
<1>5. ListComing' /\ RenameComing'
  BY <1>1, <1>2, <1>3 DEF ListComing, RenameComing
<1>6. TitlesShown' /\ NoneMissing'
  BY <1>3 DEF TitlesShown, NoneMissing
<1> QED BY <1>4, <1>5, <1>6 DEF Orderly

LEMMA OrderlyDebounced ==
  ASSUME ListTypeOK, RowsHeld, Orderly, Debounced, ~overlapped'
  PROVE  Orderly'
<1>1. lists = {} /\ ~Requesting /\ ~Answering
  BY DEF Debounced, Noting, Orderly, OneRequest
<1>2. ~timer' /\ UNCHANGED <<title, turn, rename, removing, query>> /\ Refresh(query)
  BY DEF Debounced, server
<1>3. \A s \in Chat : ~Runs(s)'
  BY <1>1, <1>2 DEF Answering, Runs
<1> QED BY <1>1, <1>2, <1>3, OrderlyRefresh

LEMMA OrderlyEnd ==
  ASSUME ListTypeOK, RowsHeld, Orderly, NEW s \in Chat, EndTurn(s), ~overlapped'
  PROVE  Orderly'
<1>1. lists = {} /\ ~Requesting /\ Runs(s)
  BY DEF EndTurn, Noting, Runs
<1>2. UNCHANGED <<title, rename, removing, query, timer>> /\ Refresh(turn[s].search) /\ TurnTo(s, "ended")
  BY DEF EndTurn
<1>3. turn[s].search = query /\ ~timer
  BY <1>1 DEF Orderly, OneRequest, Answering
<1>4. turn'[s].at = "ended" /\ \A u \in Chat \ {s} : turn'[u] = turn[u]
  BY <1>2, Types, TurnToFacts DEF TurnSet
<1>5. \A u \in Chat : ~Runs(u)'
  BY <1>1, <1>4 DEF Orderly, OneRequest, Runs
<1> QED BY <1>1, <1>2, <1>3, <1>5, OrderlyRefresh

LEMMA OrderlyRemoved ==
  ASSUME ListTypeOK, RowsHeld, Orderly, RemovalAnswered
  PROVE  Orderly'
<1> USE DEF server, box
<1>0. shown \in [Chat -> Title \cup {"none"}] /\ removing \in Chat \cup {"none"}
  BY Types DEF PageOK
<1>1. lists = {} /\ ~timer /\ rename["page"].at = "idle" /\ ~Alive(removing) /\ removing # "none"
  BY OrderlyParts DEF RemovalAnswered, OneRequest
<1>2. removing' = "none" /\ UNCHANGED <<title, asked, turn, rename, query, timer, lists, listed>>
  BY DEF RemovalAnswered
<1>3. shown'[removing] = "none" /\ \A s \in Chat \ {removing} : shown'[s] = shown[s]
  BY <1>0, <1>1 DEF RemovalAnswered
<1>4. OneRequest'
  BY <1>1, <1>2, OrderlyParts DEF OneRequest, Requesting, Answering, Runs
<1>5. ListComing' /\ RenameComing'
  BY <1>1, <1>2 DEF ListComing, RenameComing
<1>6. TitlesShown'
  BY <1>1, <1>2, <1>3, OrderlyParts DEF TitlesShown, Runs
<1>7. NoneMissing'
  BY <1>1, <1>2, <1>3, OrderlyParts DEF NoneMissing, Runs, Alive, Found
<1> QED BY <1>4, <1>5, <1>6, <1>7 DEF Orderly

LEMMA OrderlyRead ==
  ASSUME ListTypeOK, RowsHeld, Orderly, NEW l \in lists, ReadList(l)
  PROVE  Orderly'
<1> USE DEF server, box
<1> DEFINE r == [l EXCEPT !.at = "read", !.rows = ListSessions(l.search)]
<1>0. l \in ListRecord
  BY Types
<1>1. lists = {l} /\ l.search = query
  BY OrderlyParts DEF ListComing
<1>2. lists' = {r}
  BY <1>1 DEF ReadList
<1>3. UNCHANGED <<title, asked, turn, rename, removing, shown, query, timer, listed>>
  BY DEF ReadList
<1>4. r.search = query /\ r.rows = ListSessions(query)
  BY <1>0, <1>1 DEF ListRecord
<1> HIDE DEF r
<1>5. ListSessions(query)' = ListSessions(query)
  BY <1>3 DEF ListSessions, Found, Alive
<1>6. ListComing'
  BY <1>2, <1>3, <1>4, <1>5 DEF ListComing
<1>7. OneRequest'
  BY <1>1, <1>3, OrderlyParts DEF OneRequest, Requesting, Answering, Runs, Alive
<1>8. RenameComing'
  BY <1>3, OrderlyParts DEF RenameComing, Runs, Alive
<1>9. TitlesShown'
  BY <1>2 DEF TitlesShown
<1>10. NoneMissing'
  BY <1>2, <1>3, OrderlyParts DEF NoneMissing, Runs, Alive
<1> QED BY <1>6, <1>7, <1>8, <1>9, <1>10 DEF Orderly

LEMMA OrderlyShow ==
  ASSUME ListTypeOK, RowsHeld, Orderly, NEW l \in lists, ShowList(l)
  PROVE  Orderly'
<1> USE DEF server, box
<1>1. lists = {l} /\ l.search = query /\ l.rows = ListSessions(query)
  BY OrderlyParts DEF ListComing, ShowList
<1>2. ~Requesting /\ ~Answering /\ ~timer
  BY OrderlyParts DEF OneRequest
<1>3. lists' = {} /\ listed' = query /\ UNCHANGED <<title, asked, turn, rename, removing, query, timer>>
  BY <1>1 DEF ShowList
<1> DEFINE found == {s \in Chat : IF query THEN Found(s) ELSE Alive(s)}
<1>4. DOMAIN l.rows = found /\ \A s \in found : l.rows[s] = title[s]
  BY <1>1 DEF ListSessions
<1>5. \A s \in Chat : shown'[s] = IF s \in found THEN title[s] ELSE "none"
  BY <1>4 DEF ShowList
<1>6. \A s \in Chat : Alive(s) /\ (query => Found(s)) => shown'[s] # "none"
  BY <1>5, NoneIsNoTitle DEF Alive
<1>7. OneRequest'
  BY <1>2, <1>3, OrderlyParts DEF OneRequest, Requesting, Answering, Runs, Alive
<1>8. ListComing' /\ RenameComing'
  BY <1>2, <1>3, OrderlyParts DEF ListComing, RenameComing
<1>9. TitlesShown'
  BY <1>3, <1>5 DEF TitlesShown
<1>10. NoneMissing'
  BY <1>2, <1>3, <1>6 DEF NoneMissing, Answering, Runs, Alive, Found
<1> QED BY <1>7, <1>8, <1>9, <1>10 DEF Orderly

LEMMA OrderlyCreate ==
  ASSUME ListTypeOK, RowsHeld, Orderly, NEW s \in Chat, CreateSession(s), ~overlapped'
  PROVE  Orderly'
<1> USE DEF server, box
<1>0. title \in [Chat -> Title \cup {"none", "gone"}] /\ shown \in [Chat -> Title \cup {"none"}]
  BY Types DEF TitlesOK, PageOK
<1>1. lists = {} /\ ~timer /\ ~Requesting /\ rename["page"].at = "idle" /\ removing = "none"
  BY OrderlyParts DEF CreateSession, Noting, Awaited
<1>2. UNCHANGED <<asked, turn, rename, removing, query, timer, lists, listed>>
  BY DEF CreateSession
<1>3. title'[s] = Default /\ shown'[s] = Default
  BY <1>0 DEF CreateSession
<1>4. \A u \in Chat \ {s} : title'[u] = title[u] /\ shown'[u] = shown[u]
  BY <1>0 DEF CreateSession
<1>5. OneRequest'
  BY <1>1, <1>2, OrderlyParts DEF OneRequest, Requesting, Answering, Runs
<1>6. ListComing' /\ RenameComing'
  BY <1>1, <1>2 DEF ListComing, RenameComing
<1>7. TitlesShown'
  BY <1>1, <1>2, <1>3, <1>4, OrderlyParts DEF TitlesShown, Runs
<1>8. NoneMissing'
  BY <1>1, <1>2, <1>3, <1>4, OrderlyParts, NoneIsNoTitle DEF NoneMissing, Runs, Alive, Found
<1> QED BY <1>5, <1>6, <1>7, <1>8 DEF Orderly

LEMMA OrderlyDelete ==
  ASSUME ListTypeOK, RowsHeld, Orderly, NEW s \in Chat, DeleteSession(s), ~overlapped'
  PROVE  Orderly'
<1> USE DEF server, box
<1>0. title \in [Chat -> Title \cup {"none", "gone"}] /\ "none" \notin Chat
  BY Types, ChatAssumption DEF TitlesOK
<1>1. lists = {} /\ ~timer /\ ~Requesting /\ rename["page"].at = "idle" /\ removing = "none"
  BY OrderlyParts DEF DeleteSession, Noting, Awaited
<1>2. UNCHANGED <<asked, turn, rename, shown, query, timer, lists, listed>>
  BY DEF DeleteSession
<1>3. CASE Alive(s)
  <2>1. removing' = s /\ title'[s] = "gone"
    BY <1>0, <1>3 DEF DeleteSession
  <2>2. \A u \in Chat \ {s} : title'[u] = title[u]
    BY <1>0, <1>3 DEF DeleteSession
  <2>3. OneRequest'
    BY <1>1, <1>2, <2>1, OrderlyParts, NoneIsNoTitle DEF OneRequest, Requesting, Answering, Runs, Alive
  <2>4. ListComing' /\ RenameComing'
    BY <1>1, <1>2 DEF ListComing, RenameComing
  <2>5. TitlesShown'
    BY <1>0, <1>1, <1>2, <2>1, <2>2, OrderlyParts DEF TitlesShown, Runs
  <2>6. NoneMissing'
    BY <1>1, <1>2, <2>1, <2>2, OrderlyParts, NoneIsNoTitle DEF NoneMissing, Runs, Alive, Found
  <2> QED BY <2>3, <2>4, <2>5, <2>6 DEF Orderly
<1>4. CASE ~Alive(s)
  <2>1. UNCHANGED <<title, removing>>
    BY <1>4 DEF DeleteSession
  <2>2. OneRequest' /\ ListComing' /\ RenameComing'
    BY <1>1, <1>2, <2>1, OrderlyParts DEF OneRequest, Requesting, Answering, Runs, Alive, ListComing, RenameComing
  <2>3. TitlesShown' /\ NoneMissing'
    BY <1>1, <1>2, <2>1, OrderlyParts DEF TitlesShown, NoneMissing, Runs, Alive, Found
  <2> QED BY <2>2, <2>3 DEF Orderly
<1> QED BY <1>3, <1>4

LEMMA OrderlySend ==
  ASSUME ListTypeOK, RowsHeld, Orderly, NEW s \in Chat, SendQuestion(s), ~overlapped'
  PROVE  Orderly'
<1> USE DEF server, box
<1>1. lists = {} /\ ~timer /\ ~Requesting /\ rename["page"].at = "idle" /\ removing = "none"
  BY OrderlyParts DEF SendQuestion, Noting, Awaited
<1>2. UNCHANGED <<title, asked, rename, removing, shown, query, timer, lists, listed>>
  BY DEF SendQuestion
<1>3. shown[s] # "none" /\ \A u \in Chat : ~Runs(u)
  BY DEF SendQuestion, Answering
<1>4. TurnSet(s, "sent", "none", query)
  BY Types, SendFacts DEF FlagsOK
<1>5. turn'[s].search = query /\ \A u \in Chat \ {s} : turn'[u].at \in {"none", "ended"}
  BY <1>3, <1>4 DEF TurnSet, Runs
<1>6. OneRequest'
  BY <1>1, <1>2, <1>5, OrderlyParts DEF OneRequest, Requesting, Answering, Runs
<1>7. ListComing' /\ RenameComing'
  BY <1>1, <1>2 DEF ListComing, RenameComing
<1>8. TitlesShown'
  BY <1>1, <1>2, <1>3, OrderlyParts DEF TitlesShown
<1>9. NoneMissing'
  BY <1>1, <1>2, <1>3, <1>5, OrderlyParts DEF NoneMissing, Runs, Alive, Found
<1> QED BY <1>6, <1>7, <1>8, <1>9 DEF Orderly

\* Until its question is committed a turn changes nothing the page shows.
LEMMA OrderlyTurn ==
  ASSUME ListTypeOK, RowsHeld, Orderly, NEW s \in Chat, ReadSession(s) \/ AddMessage(s)
  PROVE  Orderly'
<1> USE DEF server, box
<1>1. lists = {} /\ ~timer /\ Runs(s)
  BY OrderlyParts DEF ReadSession, AddMessage, Answering, Runs
<1>2. UNCHANGED <<title, asked, rename, removing, shown, query, timer, lists, listed>>
  BY DEF ReadSession, AddMessage
<1>3. \A u \in Chat : turn'[u].search = turn[u].search /\ (turn'[u].at \in {"none", "ended"} <=> turn[u].at \in {"none", "ended"})
  <2>1. turn \in [Chat -> TurnRecord] /\ (AddMessage(s) => TurnTo(s, "flushed") \/ TurnTo(s, "streaming"))
    BY Types DEF AddMessage
  <2>2. \E at \in {"read", "flushed", "streaming"}, seen \in Title \cup {"none"} : TurnSet(s, at, seen, turn[s].search)
    BY <2>1, ReadSessionFacts, TurnToFacts DEF TurnRecord, Alive
  <2> QED BY <1>1, <2>2 DEF TurnSet, Runs
<1>4. OneRequest'
  BY <1>1, <1>2, <1>3, OrderlyParts DEF OneRequest, Requesting, Answering, Runs, Alive
<1>5. ListComing' /\ RenameComing'
  <2>1. rename["page"].at # "idle" => rename["page"].of \in Chat
    BY DEF RowsHeld, Client
  <2> QED BY <1>1, <1>2, <1>3, <2>1, OrderlyParts DEF ListComing, RenameComing, Runs, Alive
<1>6. TitlesShown'
  BY <1>1, <1>2, <1>3, OrderlyParts DEF TitlesShown, Runs
<1>7. NoneMissing'
  BY <1>1, <1>2, <1>3, OrderlyParts DEF NoneMissing, Runs, Alive, Found
<1> QED BY <1>4, <1>5, <1>6, <1>7 DEF Orderly

LEMMA OrderlyCommit ==
  ASSUME ListTypeOK, RowsHeld, Orderly, NEW s \in Chat, CommitQuestion(s)
  PROVE  Orderly'
<1> USE DEF server, box
<1>0. title \in [Chat -> Title \cup {"none", "gone"}] /\ turn \in [Chat -> TurnRecord]
  BY Types DEF TitlesOK
<1>1. lists = {} /\ ~timer /\ Runs(s)
  BY OrderlyParts DEF CommitQuestion, Answering, Runs
<1>2. UNCHANGED <<rename, removing, shown, query, timer, lists, listed>> /\ asked' = asked \cup {s}
  BY DEF CommitQuestion
<1>3. TurnSet(s, "streaming", turn[s].seen, turn[s].search)
  BY <1>0, TurnToFacts DEF CommitQuestion
<1>4. \A u \in Chat : turn'[u].search = turn[u].search /\ (turn'[u].at \in {"none", "ended"} <=> turn[u].at \in {"none", "ended"})
  BY <1>1, <1>3 DEF TurnSet, Runs
<1>5. Alive(s) /\ title'[s] \in Title /\ shown[s] # "none"
  BY <1>0, <1>1, OrderlyParts, NoneIsNoTitle
     DEF CommitQuestion, AutoTitle, RowsHeld, Alive, NoneMissing
<1>6. \A u \in Chat \ {s} : title'[u] = title[u]
  BY <1>0 DEF CommitQuestion, AutoTitle
<1>7. OneRequest'
  BY <1>1, <1>2, <1>4, <1>5, <1>6, ChatAssumption, OrderlyParts, Types DEF OneRequest, Requesting, Answering, Runs, Alive, PageOK
<1>8. ListComing'
  BY <1>1, <1>2 DEF ListComing
<1>9. RenameComing'
  <2>1. rename["page"].at # "idle" => rename["page"].of \in Chat
    BY DEF RowsHeld, Client
  <2> QED BY <1>1, <1>2, <1>4, <1>5, <1>6, <2>1, OrderlyParts DEF RenameComing, Runs, Alive
<1>10. TitlesShown'
  BY <1>1, <1>2, <1>4, <1>6, OrderlyParts DEF TitlesShown, Runs
<1>11. NoneMissing'
  BY <1>1, <1>2, <1>4, <1>5, <1>6, OrderlyParts DEF NoneMissing, Runs, Alive, Found
<1> QED BY <1>7, <1>8, <1>9, <1>10, <1>11 DEF Orderly

\* Up to its flush a rename changes nothing but itself.
LEMMA OrderlyBefore ==
  ASSUME ListTypeOK, RowsHeld, Orderly, lists = {}, ~timer, removing = "none", RenameComing',
         rename'["tab"].at = "idle",
         rename["page"].at # "committed", ~rename["page"].answered,
         UNCHANGED <<title, asked, turn, removing, shown, query, timer, lists, listed>>
  PROVE  Orderly'
<1>1. OneRequest'
  BY OrderlyParts DEF OneRequest, Answering, Runs
<1>2. ListComing'
  BY DEF ListComing
<1>3. TitlesShown'
  BY OrderlyParts DEF TitlesShown, Runs
<1>4. NoneMissing'
  BY OrderlyParts DEF NoneMissing, Runs, Alive, Found
<1> QED BY <1>1, <1>2, <1>3, <1>4 DEF Orderly

LEMMA OrderlyAsk ==
  ASSUME ListTypeOK, RowsHeld, Orderly, NEW c \in Client, NEW s \in Chat, NEW t \in Own \cup {Default},
         AskRename(c, s, t), ~overlapped'
  PROVE  Orderly'
<1> USE DEF server, box
<1>1. c = "page"
  BY DEF Client, AskRename, Noting
<1>2. lists = {} /\ ~timer /\ ~Requesting /\ removing = "none" /\ rename["page"].at = "idle" /\ rename["tab"].at = "idle"
  BY OrderlyParts DEF AskRename, Noting, Awaited
<1>3. UNCHANGED <<title, asked, turn, removing, shown, query, timer, lists, listed>> /\ shown[s] # "none"
  BY <1>1 DEF AskRename
<1>4. RenameSet("page", "sent", s, t, "none", FALSE)
  BY <1>1, AskFacts, Types
<1>5. rename'["tab"].at = "idle"
  BY <1>2, <1>4 DEF RenameSet, Client
<1>6. RenameComing'
  BY <1>3, <1>4 DEF RenameSet, RenameComing
<1> QED BY <1>2, <1>3, <1>5, <1>6, OrderlyParts, OrderlyBefore

LEMMA OrderlyTitleRead ==
  ASSUME ListTypeOK, RowsHeld, Orderly, NEW c \in Client, ReadTitle(c) \/ FlushRename(c)
  PROVE  Orderly'
<1> USE DEF server, box
<1> DEFINE r == rename["page"]
<1>1. c = "page" /\ r.at \in {"sent", "read"} /\ rename["tab"].at = "idle"
  BY OrderlyParts DEF Client, ReadTitle, FlushRename
<1>2. lists = {} /\ ~timer /\ removing = "none" /\ ~r.answered
  BY <1>1, OrderlyParts DEF OneRequest
<1>3. UNCHANGED <<title, asked, turn, removing, shown, query, timer, lists, listed>>
  BY DEF ReadTitle, FlushRename
<1>4. Alive(r.of) => shown[r.of] # "none"
  BY <1>1, OrderlyParts DEF RenameComing
<1>5. r.at = "read" /\ ~Runs(r.of) => Alive(r.of) /\ title[r.of] = r.seen
  BY OrderlyParts DEF RenameComing
<1>6. rename \in [Client -> RenameRecord]
  BY Types
<1>7. \/ RenameOver("page")
      \/ RenameSet("page", "read", r.of, r.to, title[r.of], r.answered) /\ Alive(r.of)
      \/ RenameSet("page", "flushed", r.of, r.to, r.seen, r.answered) /\ Alive(r.of) /\ r.at = "read"
  BY <1>1, <1>6, ReadTitleFacts, FlushFacts DEF FlushRename
<1>8. rename'["tab"].at = "idle"
  BY <1>1, <1>7 DEF RenameSet, RenameOver, Client
<1>9. RenameComing'
  BY <1>2, <1>3, <1>4, <1>5, <1>7 DEF RenameSet, RenameOver, RenameComing, Runs, Alive
<1> QED BY <1>1, <1>2, <1>3, <1>8, <1>9, OrderlyBefore

LEMMA OrderlyRenamed ==
  ASSUME ListTypeOK, RowsHeld, Orderly, NEW c \in Client, CommitRename(c)
  PROVE  Orderly'
<1> USE DEF server, box
<1> DEFINE r == rename["page"]
<1>0. title \in [Chat -> Title \cup {"none", "gone"}] /\ rename \in [Client -> RenameRecord]
  BY Types DEF TitlesOK
<1>1. c = "page" /\ r.at = "flushed" /\ rename["tab"].at = "idle"
  BY OrderlyParts DEF Client, CommitRename
<1>2. lists = {} /\ ~timer /\ removing = "none"
  BY <1>1, OrderlyParts DEF OneRequest
<1>3. UNCHANGED <<asked, turn, removing, shown, query, timer, lists, listed>>
  BY DEF CommitRename
<1>4. r.of \in Chat /\ r.to \in Title /\ Alive(r.of) /\ shown[r.of] # "none"
  BY <1>1, OrderlyParts DEF RowsHeld, RenameComing, Title
<1>5. title' = [title EXCEPT ![r.of] = IF r.to = r.seen THEN @ ELSE r.to]
  BY <1>1 DEF CommitRename
<1>6. title'[r.of] \in Title /\ \A u \in Chat \ {r.of} : title'[u] = title[u]
  BY <1>0, <1>4, <1>5 DEF Alive
<1>7. ~Runs(r.of) => title'[r.of] = r.to /\ (r.answered => shown[r.of] = r.to)
  BY <1>0, <1>1, <1>4, <1>5, OrderlyParts DEF RenameComing
<1>8. \/ r.answered /\ RenameOver("page")
      \/ ~r.answered /\ RenameSet("page", "committed", r.of, r.to, r.seen, FALSE)
  BY <1>0, <1>1, CommitFacts
<1>9. OneRequest'
  <2>1. rename'["tab"].at = "idle"
    BY <1>1, <1>8 DEF RenameSet, RenameOver, Client
  <2> QED BY <1>2, <1>3, <2>1, OrderlyParts DEF OneRequest, Answering, Runs
<1>10. ListComing'
  BY <1>2, <1>3 DEF ListComing
<1>11. RenameComing'
  BY <1>3, <1>4, <1>7, <1>8 DEF RenameSet, RenameOver, RenameComing, Runs
<1>12. TitlesShown'
  <2>1. ASSUME NEW u \in Chat \ {r.of} PROVE shown'[u] \in {"none", title'[u]} \/ Runs(u) \/ removing = u
    BY <1>2, <1>3, <1>6, OrderlyParts DEF TitlesShown
  <2>2. shown'[r.of] \in {"none", title'[r.of]} \/ Runs(r.of) \/ (rename'["page"].of = r.of /\ rename'["page"].at = "committed")
    BY <1>3, <1>7, <1>8 DEF RenameSet
  <2> QED BY <1>3, <2>1, <2>2 DEF TitlesShown, Runs
<1>13. NoneMissing'
  BY <1>2, <1>3, <1>4, <1>6, OrderlyParts DEF NoneMissing, Runs, Alive, Found
<1> QED BY <1>9, <1>10, <1>11, <1>12, <1>13 DEF Orderly

LEMMA OrderlyAnswered ==
  ASSUME ListTypeOK, RowsHeld, Orderly, NEW c \in Client, RenameAnswered(c)
  PROVE  Orderly'
<1> USE DEF server, box
<1> DEFINE r == rename["page"]
<1>0. shown \in [Chat -> Title \cup {"none"}] /\ rename \in [Client -> RenameRecord]
  BY Types DEF PageOK
<1>1. c = "page" /\ r.at \in {"committed", "flushed"} /\ ~r.answered /\ rename["tab"].at = "idle"
  BY OrderlyParts DEF Client, RenameAnswered
<1>2. lists = {} /\ ~timer /\ removing = "none"
  BY <1>1, OrderlyParts DEF OneRequest
<1>3. UNCHANGED <<title, asked, turn, removing, query, timer, lists, listed>>
  BY DEF RenameAnswered
<1>4. r.of \in Chat /\ r.to \in Title /\ (Alive(r.of) => shown[r.of] # "none")
  BY <1>1, OrderlyParts DEF RowsHeld, RenameComing, Title, Client
<1>5. shown'[r.of] = (IF shown[r.of] # "none" THEN r.to ELSE "none") /\ \A u \in Chat \ {r.of} : shown'[u] = shown[u]
  BY <1>0, <1>1, <1>4 DEF RenameAnswered
<1>6. r.at = "committed" /\ ~Runs(r.of) => title[r.of] = r.to
  BY OrderlyParts DEF RenameComing
<1>7. r.at = "flushed" => Alive(r.of)
  BY DEF RowsHeld, Client
<1>8. \/ r.at = "committed" /\ RenameOver("page")
      \/ r.at = "flushed" /\ RenameSet("page", "flushed", r.of, r.to, r.seen, TRUE)
  BY <1>0, <1>1, AnsweredFacts
<1>9. OneRequest'
  <2>1. rename'["tab"].at = "idle"
    BY <1>1, <1>8 DEF RenameSet, RenameOver, Client
  <2> QED BY <1>2, <1>3, <2>1, OrderlyParts DEF OneRequest, Answering, Runs
<1>10. ListComing'
  BY <1>2, <1>3 DEF ListComing
<1>11. RenameComing'
  <2>1. r.at = "flushed" /\ ~Runs(r.of) => title[r.of] = r.seen
    BY OrderlyParts DEF RenameComing
  <2>2. shown'[r.of] # "none" \/ ~Alive(r.of)
    BY <1>4, <1>5, NoneIsNoTitle
  <2>3. r.at = "flushed" => shown'[r.of] = r.to
    BY <1>4, <1>5, <1>7
  <2> QED BY <1>3, <1>7, <1>8, <2>1, <2>2, <2>3 DEF RenameSet, RenameOver, RenameComing, Runs, Alive
<1>12. TitlesShown'
  <2>1. ASSUME NEW u \in Chat \ {r.of} PROVE shown'[u] \in {"none", title'[u]} \/ Runs(u) \/ removing = u
    BY <1>2, <1>3, <1>5, OrderlyParts DEF TitlesShown
  <2>2. \/ shown'[r.of] \in {"none", title[r.of]} \/ Runs(r.of)
        \/ (rename'["page"].of = r.of /\ rename'["page"].answered)
    BY <1>5, <1>6, <1>8 DEF RenameSet
  <2> QED BY <1>3, <2>1, <2>2 DEF TitlesShown, Runs
<1>13. NoneMissing'
  <2>1. \A u \in Chat : shown[u] # "none" => shown'[u] # "none"
    BY <1>4, <1>5, NoneIsNoTitle
  <2> QED BY <1>2, <1>3, <2>1, OrderlyParts DEF NoneMissing, Runs, Alive, Found
<1> QED BY <1>9, <1>10, <1>11, <1>12, <1>13 DEF Orderly

LEMMA OrderlyInit == ListInit => Orderly
<1> SUFFICES ASSUME ListInit PROVE Orderly
  OBVIOUS
<1>1. OneRequest
  BY DEF ListInit, OneRequest, NoRename, Client, Requesting, Answering, Runs
<1>2. ListComing /\ RenameComing
  BY DEF ListInit, ListComing, RenameComing, NoRename, Client
<1>3. TitlesShown
  BY DEF ListInit, TitlesShown
<1>4. NoneMissing
  BY NoneIsNoTitle DEF ListInit, NoneMissing, Runs, Alive
<1> QED BY <1>1, <1>2, <1>3, <1>4 DEF Orderly

LEMMA OrderlyStep == RenameInv /\ Orderly /\ [ListNext]_list /\ ~overlapped' => Orderly'
<1> SUFFICES ASSUME ListTypeOK, RowsHeld, Orderly, [ListNext]_list, ~overlapped' PROVE Orderly'
  BY DEF RenameInv
<1>1. CASE UNCHANGED list
  BY <1>1 DEF list, server, box, Orderly, OneRequest, ListComing, RenameComing, TitlesShown, NoneMissing,
              Requesting, Answering, Runs, Alive, Found, ListSessions
<1>2. CASE \/ Type \/ Debounced \/ RemovalAnswered
           \/ \E l \in lists : ReadList(l) \/ ShowList(l)
  BY <1>2, OrderlyType, OrderlyDebounced, OrderlyRemoved, OrderlyRead, OrderlyShow
<1>3. ASSUME NEW s \in Chat,
             \/ CreateSession(s) \/ DeleteSession(s)
             \/ SendQuestion(s) \/ ReadSession(s) \/ AddMessage(s) \/ CommitQuestion(s) \/ EndTurn(s)
      PROVE  Orderly'
  BY <1>3, OrderlyCreate, OrderlyDelete, OrderlySend, OrderlyTurn, OrderlyCommit, OrderlyEnd
<1>4. ASSUME NEW c \in Client,
             \/ ReadTitle(c) \/ FlushRename(c) \/ CommitRename(c) \/ RenameAnswered(c)
             \/ \E s \in Chat, t \in Own \cup {Default} : AskRename(c, s, t)
      PROVE  Orderly'
  BY <1>4, OrderlyAsk, OrderlyTitleRead, OrderlyRenamed, OrderlyAnswered
<1> QED BY <1>1, <1>2, <1>3, <1>4 DEF ListNext

\* What has overlapped stays noted.
LEMMA OverlapNoted == [ListNext]_list /\ ~overlapped' => ~overlapped
BY DEF ListNext, list, server, box, Noting, Type, Debounced, RemovalAnswered, ReadList, ShowList,
       CreateSession, DeleteSession, SendQuestion, ReadSession, AddMessage, CommitQuestion, EndTurn,
       ReadTitle, FlushRename, CommitRename, RenameAnswered, AskRename

\* Until something overlaps, what the page shows and what is in flight fit the
\* sessions of the server.
THEOREM ListInvariant == ListSpec => []ListInv
<1>1. ListInit => ListInv
  BY RenameInvInit, OrderlyInit DEF ListInv
<1>2. ListInv /\ [ListNext]_list => ListInv'
  <2>1. ListInv /\ [ListNext]_list => RenameInv'
    BY RenameInvStep DEF ListInv
  <2>2. ListInv /\ [ListNext]_list /\ ~overlapped' => Orderly'
    BY OrderlyStep, OverlapNoted DEF ListInv
  <2> QED BY <2>1, <2>2 DEF ListInv
<1> QED BY <1>1, <1>2, PTL DEF ListSpec

\* After any number of renames, deletions, turns, searches and lists, one after the
\* other, the page shows the sessions it should, under their titles.
THEOREM PageIsCurrent == ListSpec => []CompleteAndCurrent
<1>1. ASSUME ListInv PROVE CompleteAndCurrent
  <2> SUFFICES ASSUME ~overlapped, Quiet PROVE /\ \A s \in Chat : shown[s] \in {"none", title[s]}
                                               /\ \A s \in Chat : Alive(s) /\ (query => Found(s)) => shown[s] # "none"
                                               /\ listed = query
    BY DEF CompleteAndCurrent, SearchIsShown
  <2>1. ListTypeOK /\ RowsHeld /\ Orderly
    BY <1>1 DEF ListInv, RenameInv
  <2>2. lists = {} /\ ~timer /\ removing = "none" /\ rename["page"].at = "idle" /\ \A s \in Chat : ~Runs(s)
    BY DEF Quiet, Requesting, Client, Answering
  <2>3. ~rename["page"].answered /\ "none" \notin Chat
    BY <2>1, <2>2, OrderlyParts, ChatAssumption
  <2> QED BY <2>1, <2>2, <2>3, OrderlyParts DEF TitlesShown, NoneMissing
<1> QED BY <1>1, ListInvariant, PTL
===============================================================================
