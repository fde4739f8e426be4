------------------------------ MODULE MCBrowser ------------------------------
(***************************************************************************)
(* The page of the browser: the chat for any user with two streams, and    *)
(* for one who waits with more; the session list for one who waits in one  *)
(* tab, and for two tabs whose requests overlap.  Chat and list share no   *)
(* state, so in a behaviour one of them runs and the other rests.          *)
(***************************************************************************)
EXTENDS ChatPage, SessionList

VARIABLE part

\* A list at rest has no title of the user's.
BrowserInit ==
  /\ part \in {"any", "waits", "one tab", "two tabs"}
  /\ Init /\ ListInit
  /\ part \in {"one tab", "two tabs"} \/ \A s \in Old : title[s] = Default

\* Bounds: any user opens two streams, or one and selects a session; one who waits
\* opens a fourth stream or selects a second session.
FewClicks ==
  IF part = "any"
  THEN stream[3].state = "none" /\ picked < 2 /\ (picked = 0 \/ stream[2].state = "none")
  ELSE ~hasty /\ ~missed /\ (picked < 2 \/ stream[4].state = "none")

\* Bounds: in two tabs one old session is renamed and asked, and one list read.
FewOverlaps ==
  IF part = "one tab" THEN ~overlapped
  ELSE types = 0 /\ asks <= 1 /\ \A s \in Chat \ Old : title[s] = "none"

BrowserNext ==
  \/ part \in {"any", "waits"} /\ Next /\ UNCHANGED <<part, list>> /\ FewClicks'
  \/ part \in {"one tab", "two tabs"} /\ ListNext /\ UNCHANGED <<part, vars>> /\ FewOverlaps'

\* The server ends every stream with done or an error, or the connection breaks.
BrowserSpec ==
  /\ BrowserInit /\ [][BrowserNext]_<<part, vars, list>>
  /\ \A n \in Number : WF_vars(Ending(n))
=============================================================================
