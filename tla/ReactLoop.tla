------------------------------ MODULE ReactLoop ------------------------------
(***************************************************************************)
(* The tools of one turn: the language model is asked for tool calls and   *)
(* they are run, once on the short path, in up to MaxSteps rounds in the   *)
(* ReAct loop, where the knowledge base is one more tool with a budget of  *)
(* searches.  On the short path a turn that asked for approval is parked   *)
(* before its calls are run, in the tool loop after.  What the model       *)
(* answers and the tools return is any choice; texts are not modelled.     *)
(***************************************************************************)
EXTENDS Naturals, Sequences

CONSTANTS
  Tool,         \* AGENT_TOOLS
  Doc,          \* documents of the knowledge base
  Key,          \* document -> its title and author
  Title,        \* titles of poems
  None,         \* no title
  MaxSteps,     \* react_max_steps; 3
  MaxSearches,  \* react_rag_max_searches; 2
  MaxCalls,     \* bound: tool calls in one answer of the model
  MaxHits,      \* bound: documents of one search
  MaxPrior      \* bound: messages before the question

Search == "poetry_search"
Unknown == "unknown"

ASSUME ToolAssumption == Search \notin Tool /\ Unknown \notin Tool
ASSUME KeyAssumption == DOMAIN Key = Doc
ASSUME TitleAssumption == None \notin Title
ASSUME StepsAssumption == MaxSteps \in Nat \ {0}
ASSUME SearchesAssumption == MaxSearches \in Nat
ASSUME BoundAssumption == MaxCalls \in Nat /\ MaxHits \in Nat /\ MaxPrior \in Nat

VARIABLES
  phase,      \* where the turn is
  turn,       \* [path, hitl, refers, prior]: the route taken and the question
  rounds,     \* answers of the model, each with its calls and their results
  remaining,  \* _RagBudget.remaining
  searches,   \* observer: retrievals begun
  contexts,   \* _RagBudget.contexts, the documents of each
  sources,    \* _RagBudget.sources
  refs,       \* source_refs of the turn
  told        \* tool_result, as the results it was made of, or "rejected"

vars == <<phase, turn, rounds, remaining, searches, contexts, sources, refs, told>>

Paths == {"fallback", "loop", "single"}   \* low confidence, ReAct tool loop, short path
SeqsUpTo(S, n) == UNION {[1..m -> S] : m \in 0..n}
Turns == [path : Paths, hitl : BOOLEAN, refers : BOOLEAN,
          prior : SeqsUpTo(Title \cup {None}, MaxPrior)]
Calls == SeqsUpTo(Tool \cup {Search, Unknown}, MaxCalls)
Outcome == {"data", "failed", "unknown", "refused"}
Round == [calls : Seq(Tool \cup {Search, Unknown}), results : Seq([call : Nat, is : Outcome])]

TypeOK ==
  /\ phase \in {"ask", "run", "end", "parked", "done", "failed"}
  /\ turn \in Turns
  /\ rounds \in Seq(Round)
  /\ remaining \in 0..MaxSearches
  /\ searches \in Nat
  /\ contexts \in Seq(Seq(Doc)) /\ sources \in Seq(Doc) /\ refs \in Seq(Doc)
  /\ told \in [rejected : BOOLEAN, results : Seq([round : Nat, is : Outcome])]

Init ==
  /\ phase = "ask" /\ turn \in Turns
  /\ rounds = <<>>
  /\ remaining = MaxSearches /\ searches = 0
  /\ contexts = <<>> /\ sources = <<>> /\ refs = <<>>
  /\ told = [rejected |-> FALSE, results |-> <<>>]

-----------------------------------------------------------------------------
(* The poem a question refers to *)

\* The title in the latest message before the question that names one.
PoemMeant ==
  LET named == {i \in DOMAIN turn.prior : turn.prior[i] # None}
  IN IF ~turn.refers \/ named = {} THEN None
     ELSE turn.prior[CHOOSE i \in named : \A j \in named : j <= i]

-----------------------------------------------------------------------------
(* Asking the model *)

React == turn.path # "single"
StepsLimit == IF React THEN MaxSteps ELSE 1
Bound == IF React THEN Tool \cup {Search} ELSE Tool   \* tools by name

\* The short path leaves the calls of a turn that asked for approval alone.
Defers == turn.path = "single" /\ turn.hitl

Ask ==
  /\ phase = "ask"
  /\ \E calls \in Calls :
       /\ rounds' = Append(rounds, [calls |-> calls, results |-> <<>>])
       /\ phase' = IF calls = <<>> \/ Defers THEN "end" ELSE "run"
  /\ UNCHANGED <<turn, remaining, searches, contexts, sources, refs, told>>

AskRaises ==
  /\ phase = "ask" /\ phase' = "failed"
  /\ UNCHANGED <<turn, rounds, remaining, searches, contexts, sources, refs, told>>

-----------------------------------------------------------------------------
(* Running the calls, in order *)

Last == rounds[Len(rounds)]
NextCall == Last.calls[Len(Last.results) + 1]
LastOfRound == Len(Last.results) + 1 = Len(Last.calls)

\* The result is appended for the call it belongs to; after the last one the
\* model is asked again if a step is left.
Answer_Mutation(is) ==   \* Mutant: no message for a tool that does not exist.
  /\ rounds' = IF is = "unknown" THEN rounds ELSE
       [rounds EXCEPT ![Len(rounds)].results = Append(@, [call |-> Len(@) + 1, is |-> is])]
  /\ phase' = IF ~LastOfRound /\ is # "unknown" THEN "run"
              ELSE IF React /\ Len(rounds) < StepsLimit THEN "ask" ELSE "end"
Answer(is) ==
  /\ rounds' = [rounds EXCEPT ![Len(rounds)].results = Append(@, [call |-> Len(@) + 1, is |-> is])]
  /\ phase' = IF ~LastOfRound THEN "run"
              ELSE IF React /\ Len(rounds) < StepsLimit THEN "ask" ELSE "end"

\* A tool that raises is a result like any other.
RunTool ==
  /\ phase = "run" /\ NextCall \in Bound \ {Search}
  /\ \E is \in {"data", "failed"} : Answer(is)
  /\ UNCHANGED <<turn, remaining, searches, contexts, sources, refs, told>>

RunUnknown ==
  /\ phase = "run" /\ NextCall \notin Bound
  /\ Answer("unknown")
  /\ UNCHANGED <<turn, remaining, searches, contexts, sources, refs, told>>

SearchRefused ==
  /\ phase = "run" /\ NextCall = Search /\ Search \in Bound /\ remaining = 0
  /\ Answer("refused")
  /\ UNCHANGED <<turn, remaining, searches, contexts, sources, refs, told>>

\* The budget is charged before the retrieval, also for one that raises.
SearchPoetry_Mutation ==   \* Mutant: charged after a retrieval that succeeds.
  /\ phase = "run" /\ NextCall = Search /\ Search \in Bound /\ remaining > 0
  /\ searches' = searches + 1
  /\ \/ /\ \E docs \in SeqsUpTo(Doc, MaxHits) :
             /\ sources' = sources \o docs
             /\ contexts' = IF docs = <<>> THEN contexts ELSE Append(contexts, docs)
        /\ remaining' = remaining - 1 /\ Answer("data")
     \/ Answer("failed") /\ UNCHANGED <<sources, contexts, remaining>>
  /\ UNCHANGED <<turn, refs, told>>
SearchPoetry_Unchecked ==   \* Mutant: the budget is not looked at.
  /\ phase = "run" /\ NextCall = Search /\ Search \in Bound
  /\ remaining' = remaining - 1 /\ searches' = searches + 1
  /\ Answer("data")
  /\ UNCHANGED <<turn, contexts, sources, refs, told>>
SearchPoetry ==
  /\ phase = "run" /\ NextCall = Search /\ Search \in Bound /\ remaining > 0
  /\ remaining' = remaining - 1 /\ searches' = searches + 1
  /\ \/ /\ \E docs \in SeqsUpTo(Doc, MaxHits) :
             /\ sources' = sources \o docs
             /\ contexts' = IF docs = <<>> THEN contexts ELSE Append(contexts, docs)
        /\ Answer("data")
     \/ Answer("failed") /\ UNCHANGED <<sources, contexts>>
  /\ UNCHANGED <<turn, refs, told>>

-----------------------------------------------------------------------------
(* What the turn is left with *)

\* The documents found, the first of each title and author.
Keys(s) == {Key[s[i]] : i \in DOMAIN s}
FirstOfEach_Mutation(s) == s   \* Mutant: `seen` is never consulted.
FirstOfEach(s) ==
  LET f[n \in 0..Len(s)] == IF n = 0 THEN <<>>
                            ELSE IF Key[s[n]] \in Keys(f[n-1]) THEN f[n-1] ELSE Append(f[n-1], s[n])
  IN f[Len(s)]

\* The texts of all tool messages, round by round.
ResultsOf_Mutation(rs) ==   \* Mutant: of the last round only.
  [i \in DOMAIN rs[Len(rs)].results |-> [round |-> Len(rs), is |-> rs[Len(rs)].results[i].is]]
ResultsOf(rs) ==
  LET f[n \in 0..Len(rs)] ==
        IF n = 0 THEN <<>>
        ELSE f[n-1] \o [i \in DOMAIN rs[n].results |-> [round |-> n, is |-> rs[n].results[i].is]]
  IN f[Len(rs)]

\* The latest answer with calls is what the card shows, run or not.
PendingToolCalls == \E i \in DOMAIN rounds : rounds[i].calls # <<>>

Finish ==
  /\ phase = "end"
  /\ phase' = IF turn.hitl /\ turn.path # "fallback" /\ PendingToolCalls THEN "parked" ELSE "done"
  /\ told' = IF Defers /\ PendingToolCalls THEN told
             ELSE [rejected |-> FALSE, results |-> ResultsOf(rounds)]
  /\ refs' = IF React THEN FirstOfEach(sources) ELSE refs
  /\ UNCHANGED <<turn, rounds, remaining, searches, contexts, sources>>

Reject ==
  /\ phase = "parked" /\ phase' = "done"
  /\ told' = [rejected |-> TRUE, results |-> <<>>]
  /\ UNCHANGED <<turn, rounds, remaining, searches, contexts, sources, refs>>

\* Calls that stand last in the conversation are run, each to a result; those
\* of a loop are followed by their results or by an answer without calls.
Approve_Mutation ==   \* Mutant: the calls on the card are run, whatever follows them.
  /\ phase = "parked" /\ phase' = "done"
  /\ \E is \in [DOMAIN Last.calls -> {"data", "failed"}] :
       /\ rounds' = [rounds EXCEPT ![Len(rounds)].results = @ \o
                       [i \in DOMAIN Last.calls |-> [call |-> i, is |-> is[i]]]]
       /\ told' = [rejected |-> FALSE, results |-> ResultsOf(rounds')]
  /\ UNCHANGED <<turn, remaining, searches, contexts, sources, refs>>
Approve ==
  /\ phase = "parked" /\ phase' = "done"
  /\ IF Last.calls # <<>> /\ Last.results = <<>>
     THEN \E is \in [DOMAIN Last.calls -> {"data", "failed", "unknown"}] :
            /\ \A i \in DOMAIN is : is[i] = "unknown" <=> Last.calls[i] \notin Tool
            /\ rounds' = [rounds EXCEPT ![Len(rounds)].results =
                            [i \in DOMAIN Last.calls |-> [call |-> i, is |-> is[i]]]]
     ELSE UNCHANGED rounds
  /\ told' = [rejected |-> FALSE, results |-> ResultsOf(rounds')]
  /\ UNCHANGED <<turn, remaining, searches, contexts, sources, refs>>

Next ==
  \/ Ask \/ AskRaises
  \/ RunTool \/ RunUnknown \/ SearchRefused \/ SearchPoetry
  \/ Finish \/ Reject \/ Approve
Spec == Init /\ [][Next]_vars

\* What the model that writes the answer is given: tool texts and contexts.
BuildStreamMessages == [results |-> told.results, contexts |-> contexts, poem |-> None]

-----------------------------------------------------------------------------
(* Properties *)

\* Every time the model is asked, and when the turn ends, each call it made
\* before has exactly one result, behind the answer that made it and in the
\* order of the calls, whatever raised, was refused or does not exist; only a
\* rejected call has none.
Complete(r) == /\ Len(r.results) = Len(r.calls)
               /\ \A i \in DOMAIN r.results : r.results[i].call = i
EveryCallIsAnswered ==
  phase = "ask" \/ (phase = "done" /\ ~told.rejected) => \A i \in DOMAIN rounds : Complete(rounds[i])

\* A turn never begins more retrievals than its budget, although retrievals
\* may fail and the model may go on asking for them.
SearchesWithinBudget == searches <= MaxSearches

\* Each document found is among the sources of the answer, once by title and
\* author.
SourcesOnce ==
  phase \in {"parked", "done"} =>
    /\ \A i, j \in DOMAIN refs : i # j => Key[refs[i]] # Key[refs[j]]
    /\ \A i \in DOMAIN contexts : Keys(contexts[i]) \subseteq Keys(refs)

\* The writer of the answer is given every result of the turn, of all rounds.
AnswerSeesAllResults ==
  phase = "done" /\ ~told.rejected =>
    \A n \in DOMAIN rounds, i \in 1..MaxCalls :
      i \in DOMAIN rounds[n].results =>
        \E k \in DOMAIN BuildStreamMessages.results :
          BuildStreamMessages.results[k] = [round |-> n, is |-> rounds[n].results[i].is]

\* The poem a question refers to is known to the writer of the answer.
\* Does not hold (README, section 4).
PoemReachesAnswer ==
  phase = "done" => BuildStreamMessages.poem = PoemMeant
=============================================================================
