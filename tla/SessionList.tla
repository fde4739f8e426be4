------------------------------ MODULE SessionList ------------------------------
(***************************************************************************)
(* The titles of the sessions and the list a page shows of them.  A turn   *)
(* gives a session that still has the default title one made from the      *)
(* question; the user renames sessions on the page and in another tab.     *)
(* A request reads its session, changes it under the lock of its row,      *)
(* which it holds until its commit, and sees what it read first, whatever  *)
(* others commit meanwhile.  The page asks for the list when the search    *)
(* box settles and when a turn ends, and patches it after its own requests.*)
(* Everything may overlap; an observer notes when something did.           *)
(***************************************************************************)
EXTENDS Naturals, FiniteSets

CONSTANTS
  Chat,             \* sessions of the user, existing or to be created
  Old,              \* those that exist at the beginning
  Own,              \* titles the user may give
  Matches,          \* titles the search finds
  QuestionMatches,  \* whether the search finds the question of a turn
  MaxRenames,       \* bound: requests to rename a session
  MaxTypes,         \* bound: changes of the search box
  MaxLists          \* bound: lists asked for

Default == "default"
Automatic == "auto"
Title == {Default, Automatic} \cup Own
ASSUME ChatAssumption == Old \subseteq Chat /\ "none" \notin Chat
ASSUME TitleAssumption == {Default, Automatic, "none", "gone"} \cap Own = {} /\ Matches \subseteq Title
ASSUME SwitchAssumption == QuestionMatches \in BOOLEAN
ASSUME CountAssumption == {MaxRenames, MaxTypes, MaxLists} \subseteq Nat

VARIABLES
  title,    \* session -> its committed title, "none" before and "gone" after its life
  asked,    \* sessions with a committed question
  locked,   \* rows locked by a request that has not committed
  turn,     \* session -> its turn: step, the title it read, the search of its page
  late,     \* sessions renamed after their turn read the title
  rename,   \* client -> the request that renames a session
  removing, \* the session the page deletes, or "none"
  shown,    \* session -> the title on the page, or "none"
  query,    \* whether the search box of the page has a text
  timer,    \* whether the debounce timer of the box runs
  lists,    \* answers on their way to the page
  listed,   \* the search the list on the page was asked with
  renames, types, asks,
  overlapped  \* something happened while an answer was on its way, or in another tab

server == <<title, asked, locked, turn, late>>
box == <<shown, query, timer, lists, listed, types, asks>>
list == <<server, box, rename, removing, renames, overlapped>>

Client == {"page", "tab"}
NoRename == [at |-> "idle", of |-> "none", to |-> "none", seen |-> "none", answered |-> FALSE]
Alive(s) == title[s] \in Title

Rows == UNION {[D -> Title] : D \in SUBSET Chat}    \* the titles of some sessions
ListTypeOK ==
  /\ title \in [Chat -> Title \cup {"none", "gone"}]
  /\ asked \subseteq Chat /\ locked \subseteq Chat /\ late \subseteq Chat
  /\ turn \in [Chat -> [at : {"none", "sent", "read", "flushed", "streaming", "ended"},
                       seen : Title \cup {"none"}, search : BOOLEAN]]
  /\ rename \in [Client -> [at : {"idle", "sent", "read", "flushed", "committed"},
                           of : Chat \cup {"none"}, to : Title \cup {"none"},
                           seen : Title \cup {"none"}, answered : BOOLEAN]]
  /\ removing \in Chat \cup {"none"}
  /\ shown \in [Chat -> Title \cup {"none"}]
  /\ query \in BOOLEAN /\ timer \in BOOLEAN /\ listed \in BOOLEAN
  /\ lists \subseteq [id : 1..MaxLists, search : BOOLEAN, at : {"sent", "read"}, rows : Rows]
  /\ renames \in 0..MaxRenames /\ types \in 0..MaxTypes /\ asks \in 0..MaxLists
  /\ overlapped \in BOOLEAN

ListInit ==
  /\ title \in [Chat -> {Default} \cup Own \cup {"none"}]
  /\ \A s \in Chat : title[s] # "none" <=> s \in Old
  /\ asked = {} /\ locked = {} /\ late = {}
  /\ turn = [s \in Chat |-> [at |-> "none", seen |-> "none", search |-> FALSE]]
  /\ rename = [c \in Client |-> NoRename] /\ removing = "none"
  /\ shown = title
  /\ query = FALSE /\ timer = FALSE /\ lists = {} /\ listed = FALSE
  /\ renames = 0 /\ types = 0 /\ asks = 0
  /\ overlapped = FALSE

Requesting == removing # "none" \/ \E c \in Client : rename[c].at # "idle"
Runs(s) == turn[s].at \notin {"none", "ended"}
Answering == \E s \in Chat : Runs(s)
\* A user who waits does nothing then, but for an answer that streams.
Awaited == lists # {} \/ timer \/ Requesting
Noting(overlap) == overlapped' = (overlapped \/ overlap)
TurnTo(s, at) == turn' = [turn EXCEPT ![s].at = at]

-----------------------------------------------------------------------------
(* The list of the page *)

Found(s) == Alive(s) /\ (title[s] \in Matches \/ (QuestionMatches /\ s \in asked))
ListSessions(search) ==
  LET found == {s \in Chat : IF search THEN Found(s) ELSE Alive(s)}
  IN  [s \in found |-> title[s]]

Refresh(search) ==
  /\ asks < MaxLists /\ asks' = asks + 1
  /\ lists' = lists \cup {[id |-> asks + 1, search |-> search, at |-> "sent", rows |-> [s \in {} |-> Default]]}

ReadList(l) ==
  /\ l.at = "sent"
  /\ lists' = (lists \ {l}) \cup {[l EXCEPT !.at = "read", !.rows = ListSessions(l.search)]}
  /\ UNCHANGED <<server, rename, removing, shown, query, timer, listed, renames, types, asks,
                 overlapped>>

\* setSessions(data): whatever arrives last is shown.
ShowList(l) ==
  /\ l.at = "read" /\ lists' = lists \ {l}
  /\ shown' = [s \in Chat |-> IF s \in DOMAIN l.rows THEN l.rows[s] ELSE "none"]
  /\ listed' = l.search
  /\ UNCHANGED <<server, rename, removing, query, timer, renames, types, asks, overlapped>>

Type_Mutation ==     \* Mutant: a box that was emptied asks for nothing.
  /\ types < MaxTypes /\ Noting((Awaited /\ ~(timer /\ lists = {})) \/ Answering)
  /\ query' = ~query /\ timer' = query' /\ types' = types + 1
  /\ UNCHANGED <<server, rename, removing, shown, lists, listed, renames, asks>>
Type ==
  /\ types < MaxTypes /\ Noting((Awaited /\ ~(timer /\ lists = {})) \/ Answering)
  /\ query' = ~query /\ timer' = TRUE /\ types' = types + 1
  /\ UNCHANGED <<server, rename, removing, shown, lists, listed, renames, asks>>

Debounced ==
  /\ timer /\ timer' = FALSE /\ Noting(lists # {}) /\ Refresh(query)
  /\ UNCHANGED <<server, rename, removing, shown, query, listed, renames, types>>

CreateSession(s) ==
  /\ title[s] = "none" /\ Noting(Awaited)
  /\ title' = [title EXCEPT ![s] = Default] /\ shown' = [shown EXCEPT ![s] = Default]
  /\ UNCHANGED <<asked, locked, turn, late, rename, removing, query, timer, lists, listed, renames, types, asks>>

-----------------------------------------------------------------------------
(* Renaming and deleting *)

AskRename(c, s, t) ==
  /\ rename[c].at = "idle" /\ renames < MaxRenames /\ Noting(Awaited \/ c = "tab")
  /\ IF c = "page" THEN shown[s] # "none" ELSE Alive(s)
  /\ rename' = [rename EXCEPT ![c] =
       [at |-> "sent", of |-> s, to |-> t, seen |-> "none", answered |-> FALSE]]
  /\ renames' = renames + 1
  /\ UNCHANGED <<server, box, removing>>

\* get_session; a session that is gone is answered with 404.
ReadTitle(c) ==
  /\ rename[c].at = "sent"
  /\ rename' = [rename EXCEPT ![c] =
       IF Alive(@.of) THEN [@ EXCEPT !.at = "read", !.seen = title[rename[c].of]] ELSE NoRename]
  /\ UNCHANGED <<server, box, removing, renames, overlapped>>

\* flush waits for the row, and fails if it was deleted.
FlushRename(c) ==
  LET s == rename[c].of IN
  /\ rename[c].at = "read" /\ s \notin locked
  /\ IF Alive(s) THEN /\ locked' = locked \cup {s}
                      /\ rename' = [rename EXCEPT ![c].at = "flushed"]
                 ELSE rename' = [rename EXCEPT ![c] = NoRename] /\ UNCHANGED locked
  /\ UNCHANGED <<title, asked, turn, late, box, removing, renames, overlapped>>

\* A title equal to the one that was read is not written.
CommitRename(c) ==
  LET s == rename[c].of IN
  /\ rename[c].at = "flushed"
  /\ locked' = locked \ {s}
  /\ title' = [title EXCEPT ![s] = IF rename[c].to = rename[c].seen THEN @ ELSE rename[c].to]
  /\ late' = IF turn[s].at = "read" THEN late \cup {s} ELSE late
  /\ rename' = [rename EXCEPT ![c] = IF @.answered THEN NoRename ELSE [@ EXCEPT !.at = "committed"]]
  /\ UNCHANGED <<asked, turn, box, removing, renames, overlapped>>

RenameAnswered_Mutation(c) ==   \* Mutant: the page leaves its list as it is.
  /\ rename[c].at = "committed" \/ rename[c].at = "flushed"
  /\ ~rename[c].answered
  /\ rename' = [rename EXCEPT ![c] =
       IF @.at = "committed" THEN NoRename ELSE [@ EXCEPT !.answered = TRUE]]
  /\ UNCHANGED <<server, box, removing, renames, overlapped>>

\* The page puts the new title into its list.  The answer is sent before or after
\* the commit of the request, depending on the version of FastAPI.
RenameAnswered(c) ==
  /\ rename[c].at = "committed" \/ rename[c].at = "flushed"
  /\ ~rename[c].answered
  /\ rename' = [rename EXCEPT ![c] =
       IF @.at = "committed" THEN NoRename ELSE [@ EXCEPT !.answered = TRUE]]
  /\ shown' = [shown EXCEPT ![rename[c].of] =
       IF c = "page" /\ @ # "none" THEN rename[c].to ELSE @]
  /\ UNCHANGED <<server, query, timer, lists, listed, removing, renames, types, asks, overlapped>>

DeleteSession(s) ==
  /\ removing = "none" /\ shown[s] # "none" /\ Noting(Awaited) /\ s \notin locked
  /\ IF Alive(s) THEN title' = [title EXCEPT ![s] = "gone"] /\ removing' = s
                 ELSE UNCHANGED <<title, removing>>
  /\ UNCHANGED <<asked, locked, turn, late, box, rename, renames>>

RemovalAnswered ==
  /\ removing # "none" /\ removing' = "none"
  /\ shown' = [shown EXCEPT ![removing] = "none"]
  /\ UNCHANGED <<server, rename, query, timer, lists, listed, renames, types, asks, overlapped>>

-----------------------------------------------------------------------------
(* Turns *)

\* handleSend keeps the search of the render that the click belongs to.
SendQuestion(s) ==
  /\ shown[s] # "none" /\ Noting(Awaited) /\ turn[s].at = "none" /\ ~Answering
  /\ turn' = [turn EXCEPT ![s] = [at |-> "sent", seen |-> "none", search |-> query]]
  /\ UNCHANGED <<title, asked, locked, late, box, rename, removing, renames>>

\* add_message reads the session; without one the turn goes on and saves nothing.
ReadSession(s) ==
  /\ turn[s].at = "sent"
  /\ turn' = [turn EXCEPT ![s] =
       IF Alive(s) THEN [@ EXCEPT !.at = "read", !.seen = title[s]] ELSE [@ EXCEPT !.at = "streaming"]]
  /\ UNCHANGED <<title, asked, locked, late, box, rename, removing, renames, overlapped>>

\* Its flush touches updated_at and takes the row.
AddMessage(s) ==
  /\ turn[s].at = "read" /\ s \notin locked
  /\ IF Alive(s) THEN locked' = locked \cup {s} /\ TurnTo(s, "flushed")
                 ELSE UNCHANGED locked /\ TurnTo(s, "streaming")
  /\ UNCHANGED <<title, asked, late, box, rename, removing, renames, overlapped>>

AutoTitle_Mutation(s) == [title EXCEPT ![s] = Automatic]   \* Mutant: every question renames its session.
AutoTitle(s) == [title EXCEPT ![s] = IF turn[s].seen = Default THEN Automatic ELSE @]

\* auto_title_from_message sees the title add_message read; then the commit.
CommitQuestion(s) ==
  /\ turn[s].at = "flushed" /\ TurnTo(s, "streaming")
  /\ title' = AutoTitle(s)
  /\ asked' = asked \cup {s} /\ locked' = locked \ {s}
  /\ UNCHANGED <<late, box, rename, removing, renames, overlapped>>

\* The stream ends, and handleSend asks for the list; a stream outlasts requests.
EndTurn(s) ==
  /\ turn[s].at = "streaming" /\ Noting(lists # {} \/ Requesting)
  /\ TurnTo(s, "ended") /\ Refresh(turn[s].search)
  /\ UNCHANGED <<title, asked, locked, late, rename, removing, shown, query, timer, listed, renames, types>>

ListNext ==
  \/ Type \/ Debounced \/ RemovalAnswered
  \/ \E l \in lists : ReadList(l) \/ ShowList(l)
  \/ \E s \in Chat :
       \/ CreateSession(s) \/ DeleteSession(s)
       \/ SendQuestion(s) \/ ReadSession(s) \/ AddMessage(s) \/ CommitQuestion(s) \/ EndTurn(s)
  \/ \E c \in Client :
       \/ ReadTitle(c) \/ FlushRename(c) \/ CommitRename(c) \/ RenameAnswered(c)
       \/ \E s \in Chat, t \in Own \cup {Default} : AskRename(c, s, t)

ListSpec == ListInit /\ [][ListNext]_list

-----------------------------------------------------------------------------
(* Properties *)

Quiet == ~timer /\ lists = {} /\ ~Requesting /\ ~Answering

\* A title the user gave is lost to an automatic one only if the rename was
\* committed while the turn, which had read the title, waited to write.
RenameStands ==
  [][\A s \in Chat : title[s] \in Own /\ title'[s] = Automatic => s \in late]_list

\* When all is answered the list belongs to the text in the search box.  Does not
\* hold when the user types while an answer streams (README, section 4).
SearchIsShown == Quiet => listed = query

\* If nothing overlapped, then when all is answered the page shows no wrong title
\* and no session that is gone, misses none that the search should find, and the
\* list belongs to the text in the search box.
CompleteAndCurrent ==
  ~overlapped /\ Quiet =>
    /\ \A s \in Chat : shown[s] \in {"none", title[s]}
    /\ \A s \in Chat : Alive(s) /\ (query => Found(s)) => shown[s] # "none"
    /\ SearchIsShown

-----------------------------------------------------------------------------
(* The inductive invariants *)

\* A flush holds the row of a living session until its commit, alone.
RowsHeld ==
  /\ \A s \in Chat : turn[s].at = "flushed" => s \in locked /\ Alive(s)
  /\ \A c \in Client :
       /\ rename[c].at # "idle" => rename[c].of \in Chat /\ rename[c].to \in Own \cup {Default}
       /\ rename[c].answered => rename[c].at = "flushed"
       /\ rename[c].at = "flushed" =>
            /\ rename[c].of \in locked /\ Alive(rename[c].of) /\ turn[rename[c].of].at # "flushed"
            /\ \A d \in Client \ {c} : rename[d].at = "flushed" => rename[d].of # rename[c].of

\* A turn that is about to write an automatic title over one of the user's read
\* the title before the rename was committed.
ReadBefore ==
  \A s \in Chat : turn[s].at \in {"read", "flushed"} /\ turn[s].seen = Default /\ title[s] \in Own
                    => s \in late

RenameInv == ListTypeOK /\ RowsHeld /\ ReadBefore

\* One thing at a time, but for an answer that streams while the page asks.
OneRequest ==
  /\ rename["tab"].at = "idle"
  /\ removing # "none" => rename["page"].at = "idle" /\ ~Alive(removing)
  /\ timer => lists = {} /\ ~Requesting /\ ~Answering
  /\ lists # {} => ~Requesting /\ ~Answering
  /\ \A s \in Chat : Runs(s) => turn[s].search = query /\ \A u \in Chat : Runs(u) => u = s

\* The list on its way is the one for the text in the box, and is not outdated.
ListComing ==
  \A l \in lists : /\ \A k \in lists : k = l
                   /\ l.search = query
                   /\ l.at = "read" => l.rows = ListSessions(query)

\* What a rename of the page has brought about, unless a turn runs in its session.
RenameComing ==
  LET r == rename["page"] IN
  r.at # "idle" =>
    /\ Alive(r.of) => shown[r.of] # "none"
    /\ ~Runs(r.of) =>
         /\ r.at \in {"read", "flushed"} => Alive(r.of) /\ title[r.of] = r.seen
         /\ r.answered => shown[r.of] = r.to
         /\ r.at = "committed" => title[r.of] = r.to

\* Titles on the page are right, but for those that an answer is about to correct.
TitlesShown ==
  lists = {} => \A s \in Chat :
    \/ shown[s] \in {"none", title[s]} \/ Runs(s) \/ removing = s
    \/ (rename["page"].of = s /\ (rename["page"].at = "committed" \/ rename["page"].answered))

\* Nothing is missing on the page, unless the search has changed.
NoneMissing ==
  /\ \A s \in Chat : Runs(s) /\ Alive(s) => shown[s] # "none"
  /\ ~timer /\ lists = {} =>
       /\ listed = query
       /\ \A s \in Chat : Alive(s) /\ (query => Found(s)) => shown[s] # "none"

Orderly == OneRequest /\ ListComing /\ RenameComing /\ TitlesShown /\ NoneMissing

ListInv == RenameInv /\ (~overlapped => Orderly)
===============================================================================
