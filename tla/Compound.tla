------------------------------ MODULE Compound ------------------------------
(***************************************************************************)
(* The compound pipeline of one turn: a question is decomposed, each part  *)
(* is classified, parts of one intent collapse into a single task, and     *)
(* several intents run as subtasks on a thread pool that shares one        *)
(* retrieval cache.  The results are merged by the position of the parts.  *)
(* What the language model answers is any choice; whether a confidence is  *)
(* below the thresholds of the code is all that is kept of it.             *)
(***************************************************************************)
EXTENDS Naturals, Sequences, FiniteSets
LOCAL INSTANCE SequencesExt

CONSTANTS
  Text,      \* texts of parts; one is also the key of a retrieval
  Doc,       \* identities (title, author, file) of documents
  Intent,    \* intents in use, among them "rag" and "chat"
  Whole,     \* the text of the whole question
  PoolSize,  \* threads of the pool at most; 4 in the code
  MaxSubs    \* bound: parts of a question

ASSUME TextAssumption == Whole \in Text
ASSUME IntentAssumption == {"rag", "chat"} \subseteq Intent
ASSUME BoundAssumption == PoolSize \in Nat \ {0} /\ MaxSubs \in Nat \ {0, 1}

VARIABLES
  phase,    \* where _prepare_compound_agent is
  subs,     \* the sub queries, in order
  task,     \* position -> state of its future
  cache,    \* rag_cache: text -> <<sources>>, or NoEntry
  filled,   \* observer: how often a text was retrieved
  ended,    \* observer: positions in the order their subtasks ended
  handed,   \* what the single-intent path is given
  merged    \* the merged state

vars == <<phase, subs, task, cache, filled, ended, handed, merged>>

\* Below the threshold that applies (0.6 for a decomposition, 0.65 for ReAct) or not.
Level == {"low", "high"}
Hits == {<<>>} \cup {<<d>> : d \in Doc} \cup {s \in Doc \X Doc : s[1] # s[2]}
NoEntry == <<>>
\* The state a turn starts with: no intent yet, and full confidence.
InitialState == [intent |-> "chat", conf |-> "high"]
NoMerge == [sources |-> <<>>, blocks |-> <<>>, tags |-> <<>>, primary |-> "chat"]
SeqUpTo(S) == UNION {[1..n -> S] : n \in 1..MaxSubs}

IsTool(i) == i \notin {"rag", "chat"}
Sub(t, i, c) == [text |-> t, intent |-> i, conf |-> c, result |-> FALSE, sources |-> <<>>]
SubType == [text : Text, intent : Intent, conf : Level, result : BOOLEAN, sources : Hits]

TypeOK ==
  /\ phase \in {"decompose", "classify", "route", "run", "single", "done", "failed"}
  /\ Len(subs) <= MaxSubs /\ \A i \in DOMAIN subs : subs[i] \in SubType
  /\ task \in [1..MaxSubs -> {"queued", "retrieving", "stored", "done", "failed"}]
  /\ \A t \in Text : cache[t] = NoEntry \/ cache[t][1] \in Hits
  /\ filled \in [Text -> 0..MaxSubs]
  /\ handed \in [intent : Intent, conf : Level]
  /\ merged.primary \in Intent

Init ==
  /\ phase = "decompose" /\ subs = <<>>
  /\ task = [i \in 1..MaxSubs |-> "queued"]
  /\ cache = [t \in Text |-> NoEntry]
  /\ filled = [t \in Text |-> 0] /\ ended = <<>>
  /\ handed = InitialState /\ merged = NoMerge

-----------------------------------------------------------------------------
(* Decomposition and classification *)

\* An answer of the model that parses, with any intents; an unknown one is "chat".
Parsed == [compound : BOOLEAN, conf : Level, parts : SeqUpTo(Text)]

\* No answer parses: the question is cut at the connecting words.
Heuristic == {[compound |-> FALSE, conf |-> c, parts |-> <<Whole>>] : c \in Level}
               \cup {r \in Parsed : r.compound /\ r.conf = "high" /\ Len(r.parts) > 1}

\* Low confidence, or "compound" with one part: the whole question is one part.
Settle(r) == IF r.conf = "low" \/ (r.compound /\ Len(r.parts) = 1) THEN <<Whole>> ELSE r.parts

DecomposeQuery ==
  /\ phase = "decompose"
  /\ \/ \E r \in Parsed \cup Heuristic :
          /\ phase' = "classify"
          /\ subs' = [i \in 1..Len(Settle(r)) |-> Sub(Settle(r)[i], "chat", "high")]
     \/ phase' = "failed" /\ UNCHANGED subs          \* the second call of the model raises
  /\ UNCHANGED <<task, cache, filled, ended, handed, merged>>

\* classify_single_intent on each part, or the model raises in it and the parts go.
ClassifySubQueries ==
  /\ phase = "classify"
  /\ \/ /\ phase' = "route"
        /\ \E intent \in [DOMAIN subs -> Intent], conf \in [DOMAIN subs -> Level] :
             subs' = [i \in DOMAIN subs |-> Sub(subs[i].text, intent[i], conf[i])]
     \/ phase' = "failed" /\ subs' = <<>>
  /\ UNCHANGED <<task, cache, filled, ended, handed, merged>>

Intents(s) == {s[i].intent : i \in DOMAIN s}

\* Parts that all have one intent become one task on the whole question, with
\* the confidence of the most confident.
Collapse(s) ==
  IF Len(s) <= 1 \/ Cardinality(Intents(s)) > 1 THEN s
  ELSE <<Sub(Whole, s[1].intent, IF \E i \in DOMAIN s : s[i].conf = "high" THEN "high" ELSE "low")>>

\* The parallel path is taken for several intents only.
ShouldUseCompound(s) == Len(s) > 1 /\ Cardinality(Intents(s)) > 1

\* Only the intent of the single part is copied into it.
SingleFallback ==
  /\ phase = "route" /\ ~ShouldUseCompound(Collapse(subs))
  /\ phase' = "single"
  /\ subs' = Collapse(subs)
  /\ handed' = [InitialState EXCEPT !.intent = subs'[1].intent]
  /\ UNCHANGED <<task, cache, filled, ended, merged>>

StartSubtasks ==
  /\ phase = "route" /\ ShouldUseCompound(Collapse(subs))
  /\ phase' = "run" /\ subs' = Collapse(subs)
  /\ UNCHANGED <<task, cache, filled, ended, handed, merged>>

-----------------------------------------------------------------------------
(* Subtasks on the pool *)

Over == {"done", "failed"}
Running == {i \in DOMAIN subs : task[i] \in {"retrieving", "stored"}}

\* A free thread takes the subtask that has waited longest.
NextInLine(i) ==
  /\ phase = "run" /\ task[i] = "queued"
  /\ \A j \in 1..(i - 1) : task[j] # "queued"
  /\ Cardinality(Running) < PoolSize

\* It ends with a result (or an empty one) and its sources.
Finish(i, result, sources) ==
  /\ task' = [task EXCEPT ![i] = "done"]
  /\ subs' = [subs EXCEPT ![i].result = result, ![i].sources = sources]
  /\ ended' = Append(ended, i)

FinishNothing(i) ==
  /\ task' = [task EXCEPT ![i] = "failed"]
  /\ ended' = Append(ended, i) /\ UNCHANGED subs

\* Mutant: the check of the cache is forgotten.
LookUp_Mutation(i) ==
  /\ NextInLine(i) /\ subs[i].intent = "rag"
  /\ task' = [task EXCEPT ![i] = "retrieving"]
  /\ UNCHANGED <<phase, subs, cache, filled, ended, handed, merged>>
\* A retrieval starts with the check of the cache ...
LookUp(i) ==
  /\ NextInLine(i) /\ subs[i].intent = "rag"
  /\ task' = [task EXCEPT ![i] = IF cache[subs[i].text] = NoEntry THEN "retrieving" ELSE "stored"]
  /\ UNCHANGED <<phase, subs, cache, filled, ended, handed, merged>>

\* ... fetches (a failed rerank changes the order: the hits are any) and stores ...
Retrieve(i) ==
  /\ task[i] = "retrieving"
  /\ \/ /\ \E h \in Hits : cache' = [cache EXCEPT ![subs[i].text] = <<h>>]
        /\ filled' = [filled EXCEPT ![subs[i].text] = @ + 1]
        /\ task' = [task EXCEPT ![i] = "stored"] /\ UNCHANGED <<subs, ended>>
     \/ FinishNothing(i) /\ UNCHANGED <<cache, filled>>
  /\ UNCHANGED <<phase, handed, merged>>

\* ... and reads back what the cache holds now.
ReadCache(i) ==
  /\ task[i] = "stored"
  /\ Finish(i, TRUE, cache[subs[i].text][1])
  /\ UNCHANGED <<phase, cache, filled, handed, merged>>

\* A tool subtask: the model may choose no tool, or the call raises.
RunTool(i) ==
  /\ NextInLine(i) /\ IsTool(subs[i].intent)
  /\ \/ \E r \in BOOLEAN : Finish(i, r, <<>>)
     \/ FinishNothing(i)
  /\ UNCHANGED <<phase, cache, filled, handed, merged>>

ChatTask(i) ==
  /\ NextInLine(i) /\ subs[i].intent = "chat"
  /\ Finish(i, FALSE, <<>>)
  /\ UNCHANGED <<phase, cache, filled, handed, merged>>

-----------------------------------------------------------------------------
(* Merge *)

\* The first occurrences of the values of s, in order.
Firsts(s) == LET keep == {i \in DOMAIN s : \A j \in 1..(i - 1) : s[j] # s[i]}
                 nth(n) == CHOOSE i \in keep : Cardinality({j \in keep : j < i}) = n - 1
             IN [n \in 1..Cardinality(keep) |-> s[nth(n)]]

\* Mutant: the first part's intent, also when it is small talk.
PrimaryIntent_Mutation(s) == s[1].intent
\* The first intent that is not "chat".
PrimaryIntent(s) ==
  LET asked == {i \in DOMAIN s : s[i].intent # "chat"} IN
  IF Len(s) = 1 \/ asked = {} THEN s[1].intent
  ELSE s[CHOOSE i \in asked : \A j \in asked : i <= j].intent

\* Mutant: sources are taken in the order the subtasks ended.
MergeSubtaskState_Mutation(s) ==
  [sources |-> Firsts(FlattenSeq([i \in DOMAIN s |-> s[ended[i]].sources])),
   blocks  |-> [i \in DOMAIN s |-> s[i].result],
   tags    |-> Firsts([i \in DOMAIN s |-> s[i].intent]),
   primary |-> PrimaryIntent(s)]
\* One block per part, sources without repetition, one tag per intent.
MergeSubtaskState(s) ==
  [sources |-> Firsts(FlattenSeq([i \in DOMAIN s |-> s[i].sources])),
   blocks  |-> [i \in DOMAIN s |-> s[i].result],
   tags    |-> Firsts([i \in DOMAIN s |-> s[i].intent]),
   primary |-> PrimaryIntent(s)]

\* Mutant: the results are read without waiting for the pool.
Collect_Mutation ==
  /\ phase = "run" /\ \E i \in DOMAIN subs : task[i] \in Over
  /\ IF \E i \in DOMAIN subs : task[i] = "failed"
     THEN phase' = "failed" /\ UNCHANGED merged
     ELSE phase' = "done" /\ merged' = MergeSubtaskState(subs)
  /\ UNCHANGED <<subs, task, cache, filled, ended, handed>>
\* Mutant: the turn waits for results, and a failed subtask has none.
Collect_Stuck ==
  /\ phase = "run" /\ \A i \in DOMAIN subs : task[i] = "done"
  /\ phase' = "done" /\ merged' = MergeSubtaskState(subs)
  /\ UNCHANGED <<subs, task, cache, filled, ended, handed>>
\* Leaving the pool waits for every subtask; one failure fails the turn.
Collect ==
  /\ phase = "run" /\ \A i \in DOMAIN subs : task[i] \in Over
  /\ IF \E i \in DOMAIN subs : task[i] = "failed"
     THEN phase' = "failed" /\ UNCHANGED merged
     ELSE phase' = "done" /\ merged' = MergeSubtaskState(subs)
  /\ UNCHANGED <<subs, task, cache, filled, ended, handed>>

Work(i) == LookUp(i) \/ Retrieve(i) \/ ReadCache(i) \/ RunTool(i) \/ ChatTask(i)

Next == \/ DecomposeQuery \/ ClassifySubQueries \/ SingleFallback \/ StartSubtasks
        \/ \E i \in DOMAIN subs : Work(i)
        \/ Collect

\* The turn's thread and the threads of the pool keep running; calls of the
\* models and of the retriever return or raise.
Spec == Init /\ [][Next]_vars /\ WF_vars(Next)

-----------------------------------------------------------------------------
(* Properties *)

\* Threads end in any order, yet the sources shown to the user are those of the
\* first part in the order of its hits, then what the second adds, and so on.
SourcesInQuestionOrder ==
  LET out == merged.sources
      Has(i, d) == \E k \in DOMAIN subs[i].sources : subs[i].sources[k] = d
      Part(d) == CHOOSE i \in DOMAIN subs : Has(i, d) /\ \A j \in 1..(i - 1) : ~Has(j, d)
      Rank(d) == CHOOSE k \in DOMAIN subs[Part(d)].sources : subs[Part(d)].sources[k] = d
  IN phase = "done" =>
       /\ \A d \in Doc : (\E n \in DOMAIN out : out[n] = d) <=> \E i \in DOMAIN subs : Has(i, d)
       /\ \A m, n \in DOMAIN out : m < n =>
            \/ Part(out[m]) < Part(out[n])
            \/ Part(out[m]) = Part(out[n]) /\ Rank(out[m]) < Rank(out[n])

\* The cache is checked and filled without a lock: subtasks that run together
\* may retrieve one text twice, later ones never do, so a text is retrieved at
\* most as often as the pool has threads, however many parts ask for it.
RetrievalsPerText == \A t \in Text : filled[t] <= PoolSize

\* No subtask is running or waiting when the turn goes on or fails.
PoolIsQuietAfterwards ==
  phase \in {"done", "failed"} => \A i \in DOMAIN subs : task[i] \in Over

\* The parallel path is for several intents: the tags shown are the intents that
\* ran, each once, there are at least two, and the intent the turn is filed
\* under is one of them and not "chat".
TagsTellWhatRan ==
  phase = "done" =>
    /\ {merged.tags[n] : n \in DOMAIN merged.tags} = Intents(subs)
    /\ Len(merged.tags) = Cardinality(Intents(subs)) /\ Len(merged.tags) >= 2
    /\ merged.primary \in Intents(subs) \ {"chat"}

\* However the threads run, the turn goes on with what all its parts have left.
PartsComeTogether == PoolIsQuietAfterwards /\ TagsTellWhatRan

\* A prepared turn always comes to an end.
PreparationEnds == <>(phase \in {"single", "done", "failed"})

\* "低置信或规则冲突 → ReAct 有限步兜底": a part whose confidence was lowered is handed to the
\* single-intent path with that confidence.  Does not hold (README, section 4).
LowConfidenceIsHandedOn == phase = "single" => handed.conf = subs[1].conf
=============================================================================
