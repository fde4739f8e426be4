---------------------------- MODULE PoemContext ----------------------------
(***************************************************************************)
(* Which poem "this poem" is: the questions of one session as the page     *)
(* shows them, the messages of those the agent's checkpoint has kept, and  *)
(* the poem resolve_poem_context finds there.  Of a text only the title it *)
(* names first is kept.  The checkpoint holds no tool message, since       *)
(* commit_agent_state writes a question and its answer only; so the search *)
(* in tool messages never finds one.                                       *)
(***************************************************************************)
EXTENDS Naturals, Sequences

CONSTANTS
  Poem,     \* titles
  NoPoem,   \* no title
  MaxTurns  \* bound: questions of the session

ASSUME PoemAssumption == NoPoem \notin Poem
ASSUME TurnsAssumption == MaxTurns \in Nat

VARIABLES
  turns,   \* the questions of the transcript: title, "this poem", poem used, fate
  memory,  \* titles of the messages in the checkpoint, in order
  order    \* observer: the turns that were committed, in order

poems == <<turns, memory, order>>

NamedPoem == Poem \cup {NoPoem}
\* A title in marks stands before or without "this poem"; without marks, without it.
Question == [title : NamedPoem, refers : BOOLEAN]
Fate == {"working", "waiting", "kept", "lost"}

Turn == [asked : Question, used : NamedPoem, fate : Fate]

PoemTypeOK ==
  /\ turns \in Seq(Turn) /\ Len(turns) <= MaxTurns
  /\ memory \in Seq(NamedPoem)
  /\ order \in Seq(DOMAIN turns)

PoemInit == turns = <<>> /\ memory = <<>> /\ order = <<>>

-----------------------------------------------------------------------------
(* Resolution *)

NeedsPoemContext(q) == q.refers /\ q.title = NoPoem

\* The last title of a sequence of messages or turns.
Newest(s) ==
  LET titled == {k \in DOMAIN s : s[k] # NoPoem}
  IN IF titled = {} THEN NoPoem ELSE s[CHOOSE k \in titled : \A j \in titled : j <= k]

ResolvePoemContext_Mutation(q) ==   \* Mutant: the newest message, whether it has a title or not.
  IF NeedsPoemContext(q) /\ memory # <<>> THEN memory[Len(memory)] ELSE NoPoem
ResolvePoemContext(q) == IF NeedsPoemContext(q) THEN Newest(memory) ELSE NoPoem

AugmentQuery(q) == IF NeedsPoemContext(q) THEN ResolvePoemContext(q) ELSE q.title

-----------------------------------------------------------------------------
(* Turns *)

AreAt(fate) == {n \in DOMAIN turns : turns[n].fate = fate}

PrepareAgent(q) ==
  /\ Len(turns) < MaxTurns /\ AreAt("working") = {}
  /\ turns' = Append(turns, [asked |-> q, used |-> AugmentQuery(q), fate |-> "working"])
  /\ UNCHANGED <<memory, order>>

\* The turn waits for the approval of its tools; one that waited is forgotten.
SavePending(n) ==
  /\ turns[n].fate = "working"
  /\ turns' = [m \in DOMAIN turns |->
                 IF m = n THEN [turns[m] EXCEPT !.fate = "waiting"]
                 ELSE IF turns[m].fate = "waiting" THEN [turns[m] EXCEPT !.fate = "lost"]
                 ELSE turns[m]]
  /\ UNCHANGED <<memory, order>>

\* It goes on when nothing else runs, also after later turns.
TakePending(n) ==
  /\ turns[n].fate = "waiting" /\ AreAt("working") = {}
  /\ turns' = [turns EXCEPT ![n].fate = "working"]
  /\ UNCHANGED <<memory, order>>

\* The question and the answer are stored; an answer that names a poem names
\* the one it is about first.
CommitAgentState(n) ==
  /\ turns[n].fate = "working"
  /\ \E a \in {NoPoem, turns[n].used} : memory' = memory \o <<turns[n].asked.title, a>>
  /\ turns' = [turns EXCEPT ![n].fate = "kept"]
  /\ order' = Append(order, n)

\* The user stops the answer, the stream breaks or a call raises.
Lose(n) ==
  /\ turns[n].fate = "working"
  /\ turns' = [turns EXCEPT ![n].fate = "lost"]
  /\ UNCHANGED <<memory, order>>

PoemNext ==
  \/ \E q \in Question : PrepareAgent(q)
  \/ \E n \in DOMAIN turns : SavePending(n) \/ TakePending(n) \/ CommitAgentState(n) \/ Lose(n)
PoemSpec == PoemInit /\ [][PoemNext]_poems

-----------------------------------------------------------------------------
(* Properties *)

\* However many questions say "this poem" in a row, answered with or without its
\* title, stopped, failed or replaced in between, the agent is on the poem of the
\* last turn that was answered about one; only when an approval answers a turn
\* after a later one, without naming its poem, the later turn's poem is found.
About == [k \in DOMAIN order |-> turns[order[k]].used]
InTurn == \A j, k \in DOMAIN order : j < k => order[j] < order[k]
ReferencesKeepToThePoem ==
  InTurn => ResolvePoemContext([title |-> NoPoem, refers |-> TRUE]) = Newest(About)

\* "「这首诗」→ 上一轮诗题": "this poem" is the poem of the turn before.  Does not hold: a
\* stopped turn is shown and was never committed (README, section 4).
ThisPoemIsThePreviousOne ==
  \A n \in DOMAIN turns \ {1} :
    /\ NeedsPoemContext(turns[n].asked)
    /\ turns[n - 1].used # NoPoem /\ turns[n - 1].fate # "waiting"
    => turns[n].used = turns[n - 1].used

-----------------------------------------------------------------------------
(* The inductive invariant *)

Open(n) == turns[n].fate \in {"working", "waiting"}

\* One turn runs and one waits at most, and the one that waits is the older.
OneOpen ==
  \A m, n \in DOMAIN turns :
    /\ Open(m) /\ turns[n].fate = turns[m].fate => m = n
    /\ turns[m].fate = "waiting" /\ turns[n].fate = "working" => m < n

\* The poem of a turn is the one its question names.  A turn whose question says
\* "this poem" still has the newest poem of the memory, if no later turn was kept.
UsedIsMeant ==
  \A n \in DOMAIN turns :
    /\ ~NeedsPoemContext(turns[n].asked) => turns[n].used = turns[n].asked.title
    /\ Open(n) /\ NeedsPoemContext(turns[n].asked) /\ (\A k \in DOMAIN order : order[k] <= n)
         => turns[n].used = Newest(memory)

\* The committed turns are those that were kept, each committed once.
OrderIsOfKept ==
  /\ \A n \in DOMAIN turns : turns[n].fate = "kept" <=> \E k \in DOMAIN order : order[k] = n
  /\ \A j, k \in DOMAIN order : order[j] = order[k] => j = k

PoemInv == PoemTypeOK /\ OneOpen /\ UsedIsMeant /\ OrderIsOfKept /\ ReferencesKeepToThePoem
=============================================================================
