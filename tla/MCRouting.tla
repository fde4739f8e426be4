------------------------------ MODULE MCRouting ------------------------------
(***************************************************************************)
(* What becomes of a question: the whole rule table, the fusion of close   *)
(* rules with suggestions, the poem that "this poem" is found to be, and   *)
(* the rounds of tools.  The parts share no state, so in a behaviour one   *)
(* of them runs and the others rest.                                       *)
(***************************************************************************)
EXTENDS ReactLoop, PoemContext, IntentRouting

VARIABLE part

\* Two documents of one poem and one of another.
TwoPoems == [d \in {"d1", "d2", "d3"} |-> IF d = "d3" THEN "k2" ELSE "k1"]

\* Searches that find up to two documents each.
Searching == INSTANCE ReactLoop WITH MaxSteps <- 2, MaxHits <- 2

\* Keyword classes of the rules whose priorities are within the gap, for the
\* fusion with suggestions ...
FewWords == {"bgPhrase", "write", "mean", "ref", "recommend", "topic", "find", "versus", "poet",
             "meterWord", "appreciate", "title", "thisPoem", "image"}
\* ... and all of them, without suggestions, for the table of the rules.
Table == INSTANCE IntentRouting WITH
  Keyword <- AllKeywords, Suggested <- {}, Confidence <- {0, 6499, 6500, 10000}

ASSUME Searching!StepsAssumption /\ Searching!BoundAssumption
ASSUME Table!VocabularyAssumption /\ Table!ConfidenceAssumption

\* A turn at rest takes the short path.
RoutingInit ==
  /\ part \in {"loop", "searching", "rules", "fusing", "poems"}
  /\ Init /\ IntentInit /\ PoemInit
  /\ part \in {"loop", "searching"} \/ turn = [path |-> "single", hitl |-> FALSE,
                                               refers |-> FALSE, prior |-> <<>>]

RoutingNext ==
  \/ part = "loop" /\ Next /\ UNCHANGED <<part, routing, poems>>
  \/ part = "searching" /\ Searching!Next /\ UNCHANGED <<part, routing, poems>>
  \/ part = "rules" /\ Table!IntentNext /\ UNCHANGED <<part, vars, poems>>
  \/ part = "fusing" /\ IntentNext /\ UNCHANGED <<part, vars, poems>>
  \/ part = "poems" /\ PoemNext /\ UNCHANGED <<part, vars, routing>>

RoutingSpec == RoutingInit /\ [][RoutingNext]_<<part, vars, routing, poems>>
=============================================================================
