----------------------------- MODULE MCAnswers -----------------------------
(***************************************************************************)
(* How a turn gathers what its answer rests on: the compound pipeline with *)
(* parts of any intents and with many parts of few, and one call of the    *)
(* retriever on small libraries.  Pipeline and retriever share no state,   *)
(* so in a behaviour one of them runs and the other rests.                 *)
(***************************************************************************)
EXTENDS Compound, Retrieval

VARIABLE part

\* Up to four parts, and so three that retrieve for one text.
Many == INSTANCE Compound WITH
  Doc <- {CHOOSE d \in Doc : TRUE}, Intent <- {"rag", "chat"}, MaxSubs <- 4

ASSUME Many!IntentAssumption /\ Many!BoundAssumption

-----------------------------------------------------------------------------
(* The retriever's constants *)

Author == {"author"}
Authors == {"li", "du", "su"}
Titles == {"spring", "spring dawn", "moon"}
PartOf == {<<"spring", "spring dawn">>}

\* Poem "b" has two chunks; the title of "a" is a part of the title of "c".
Poem(name, title, author, parts) ==
  [name |-> name, title |-> title, meta |-> [author |-> author], parts |-> parts]
PoemA == Poem("a", "spring", "li", <<{"li"}>>)
PoemB == Poem("b", "moon", "du", <<{"du", "li"}, {}>>)
PoemC == Poem("c", "spring dawn", "du", <<{"du"}>>)
PoemD == Poem("d", NoTitle, "su", <<{"su"}>>)
NewA == Poem("a", "spring", "du", <<{"du"}>>)

\* A fresh index; copies after a rebuild; a poem deleted from disk; one replaced.
SmallLibraries == {
  [disk |-> <<PoemA, PoemB, PoemC>>, indexed |-> <<PoemA, PoemB, PoemC>>],
  [disk |-> <<PoemA, PoemC>>, indexed |-> <<PoemA, PoemC, PoemA, PoemC>>],
  [disk |-> <<PoemA, PoemB>>, indexed |-> <<PoemA, PoemB, PoemD>>],
  [disk |-> <<NewA, PoemC>>, indexed |-> <<PoemA, PoemC, NewA>>]}

\* What the two profiles of the code ask for, and its settings, made small.
Profiles == [full |-> [k |-> 0, n |-> 0, max |-> 0, skip |-> FALSE],
             light |-> [k |-> 2, n |-> 2, max |-> 2, skip |-> TRUE]]
SmallSettings == [k |-> 3, n |-> 1, max |-> 2, rerank |-> TRUE]

-----------------------------------------------------------------------------
\* A retriever at rest stays with a question nobody answers.
AnswersInit ==
  /\ part \in {"compound", "many", "retriever"}
  /\ IF part = "many" THEN Many!Init ELSE Init
  /\ RetrievalInit
  /\ part # "retriever" =>
       /\ lib = [disk |-> <<PoemA, PoemC>>, indexed |-> <<PoemA, PoemC, PoemA, PoemC>>]
       /\ ask = [title |-> NoTitle, filter |-> {}, profile |-> "full", serve |-> 1]

AnswersNext ==
  \/ part = "compound" /\ Next /\ UNCHANGED <<part, retrieval>>
  \/ part = "many" /\ Many!Next /\ UNCHANGED <<part, retrieval>>
  \/ part = "retriever" /\ RetrievalNext /\ UNCHANGED <<part, vars>>

\* The turn's thread and the threads of the pool keep running; calls of the
\* models and of the retriever return or raise.
AnswersSpec == /\ AnswersInit /\ [][AnswersNext]_<<part, vars, retrieval>>
               /\ WF_vars(part = "compound" /\ Next)

\* A prepared turn always comes to an end (Compound).
TurnIsPrepared == part = "compound" ~> part = "compound" /\ phase \in {"single", "done", "failed"}
=============================================================================
