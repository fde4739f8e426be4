---------------------------- MODULE AnswersProofs -----------------------------
(***************************************************************************)
(* What threads may do to a compound turn, for any number of parts and     *)
(* threads and any documents. Retrievals of one text: the count alone is   *)
(* not inductive, since a retrieval that runs is about to add to it. It    *)
(* begins only while the text has no entry, hence before any was counted,  *)
(* and while a thread is free; so those counted and those running are at   *)
(* most the threads. The merge: MergeInv ties sources and tags to the      *)
(* subtasks they come from. That they stand in the order of the question   *)
(* is a fact about FlattenSeq and Firsts, which are unfolded one part at a *)
(* time.                                                                   *)
(*                                                                         *)
(* One search, for any library, question, filter, profile and settings.    *)
(* Each reply is tied to what it was made from: the rows of an index rise  *)
(* in one fixed order, the fused list holds what the two searches returned *)
(* and the named poem before them, and a reply is cut from the fused list. *)
(* Fusion sorts sets by scores: what is used of it is only that the order  *)
(* is total, so that positions grow with it.                               *)
(***************************************************************************)
EXTENDS Functions, Compound, Retrieval, FiniteSetTheorems, Induction, TLAPS

-----------------------------------------------------------------------------
(* The parts of a question *)

State == {"queued", "retrieving", "stored", "done", "failed"}
Retrieving(t) == {i \in DOMAIN subs : task[i] = "retrieving" /\ subs[i].text = t}

PoolInv ==
  /\ subs \in Seq(SubType) /\ Len(subs) <= MaxSubs
  /\ task \in [1..MaxSubs -> State]
  /\ cache \in [Text -> {NoEntry} \cup {<<h>> : h \in Hits}]
  /\ filled \in [Text -> Nat]
  /\ phase \in {"decompose", "classify", "route"} => \A i \in 1..MaxSubs : task[i] = "queued"
  /\ \A i \in DOMAIN subs : task[i] = "stored" => cache[subs[i].text] # NoEntry
  /\ \A t \in Text : cache[t] = NoEntry => filled[t] = 0
  /\ \A t \in Text : filled[t] + Cardinality(Retrieving(t)) <= PoolSize

-----------------------------------------------------------------------------
(* Sequences of parts and sets of positions *)

LEMMA Positions ==
  ASSUME NEW s \in Seq(SubType), Len(s) <= MaxSubs, NEW S \in SUBSET DOMAIN s
  PROVE  IsFiniteSet(S) /\ Cardinality(S) \in Nat /\ S \in SUBSET (1..MaxSubs)
<1>1. S \in SUBSET (1..MaxSubs) /\ MaxSubs \in Nat
  BY BoundAssumption
<1>2. IsFiniteSet(1..MaxSubs)
  BY <1>1, FS_Interval
<1>3. IsFiniteSet(S)
  BY <1>1, <1>2, FS_Subset
<1>4. QED BY <1>1, <1>3, FS_CardinalityType

LEMMA FewPositions ==
  ASSUME NEW s \in Seq(SubType), Len(s) <= MaxSubs, NEW T \in SUBSET DOMAIN s, NEW S \in SUBSET T
  PROVE  Cardinality(S) <= Cardinality(T)
BY Positions, FS_Subset

\* A part as it leaves the decomposition or the classification.
LEMMA FreshPart ==
  ASSUME NEW t \in Text, NEW i \in Intent, NEW c \in Level
  PROVE  Sub(t, i, c) \in SubType
<1>1. <<>> \in Hits
  BY DEF Hits
<1>2. QED BY <1>1 DEF Sub, SubType

LEMMA PartsAreTexts ==
  ASSUME NEW p \in SeqUpTo(Text)
  PROVE  p \in Seq(Text) /\ Len(p) \in 1..MaxSubs
<1>1. PICK n \in 1..MaxSubs : p \in [1..n -> Text]
  BY DEF SeqUpTo
<1>2. n \in Nat
  BY <1>1, BoundAssumption
<1>3. QED BY <1>1, <1>2

LEMMA WholeIsParts == <<Whole>> \in Seq(Text) /\ Len(<<Whole>>) = 1
BY TextAssumption

LEMMA SettledParts ==
  ASSUME NEW r \in Parsed \cup Heuristic
  PROVE  Settle(r) \in Seq(Text) /\ Len(Settle(r)) \in 1..MaxSubs
<1>1. 1 \in 1..MaxSubs
  BY BoundAssumption
<1>2. r.parts = <<Whole>> \/ r.parts \in SeqUpTo(Text)
  BY DEF Parsed, Heuristic
<1>3. r.parts \in Seq(Text) /\ Len(r.parts) \in 1..MaxSubs
  BY <1>1, <1>2, PartsAreTexts, WholeIsParts
<1>4. QED BY <1>1, <1>3, WholeIsParts DEF Settle

\* A collapsed question is one part, and an uncollapsed one is as it was.
LEMMA CollapsedParts ==
  ASSUME NEW s \in Seq(SubType), Len(s) <= MaxSubs
  PROVE  Collapse(s) \in Seq(SubType) /\ Len(Collapse(s)) <= MaxSubs
<1>1. CASE Len(s) <= 1 \/ Cardinality(Intents(s)) > 1
  BY <1>1 DEF Collapse
<1>2. CASE ~(Len(s) <= 1 \/ Cardinality(Intents(s)) > 1)
  <2>1. s[1].intent \in Intent
    <3>1. Len(s) \in Nat /\ Len(s) > 1
      BY <1>2
    <3>2. 1 \in 1..Len(s)
      BY <3>1
    <3>3. s[1] \in SubType
      BY <3>2
    <3>4. QED BY <3>3 DEF SubType
  <2>2. (IF \E i \in DOMAIN s : s[i].conf = "high" THEN "high" ELSE "low") \in Level
    BY DEF Level
  <2>3. PICK c \in Level : Collapse(s) = <<Sub(Whole, s[1].intent, c)>>
    BY <1>2, <2>2 DEF Collapse
  <2>4. Sub(Whole, s[1].intent, c) \in SubType
    BY <2>1, FreshPart, TextAssumption
  <2>5. QED BY <2>3, <2>4, BoundAssumption
<1>3. QED BY <1>1, <1>2

\* Every part has its fields, and its text is one of Text.
LEMMA TextOfPart == ASSUME PoolInv PROVE \A i \in DOMAIN subs : subs[i] \in SubType /\ subs[i].text \in Text
<1> SUFFICES ASSUME NEW i \in DOMAIN subs PROVE subs[i] \in SubType /\ subs[i].text \in Text
  OBVIOUS
<1>1. subs[i] \in SubType
  BY DEF PoolInv
<1>2. QED BY <1>1 DEF SubType

\* While every subtask is queued nothing retrieves and nothing is stored.
LEMMA QueuedPool ==
  ASSUME PoolInv, \A i \in 1..MaxSubs : task[i] = "queued",
         subs' \in Seq(SubType), Len(subs') <= MaxSubs,
         UNCHANGED <<task, cache, filled>>
  PROVE  PoolInv'
<1>1. DOMAIN subs' \subseteq 1..MaxSubs /\ DOMAIN subs \subseteq 1..MaxSubs
  BY BoundAssumption DEF PoolInv
<1>2. \A t \in Text : Retrieving(t)' = {} /\ Retrieving(t) = {}
  BY <1>1 DEF Retrieving
<1>3. \A t \in Text : filled[t] + Cardinality(Retrieving(t)') <= PoolSize
  BY <1>2 DEF PoolInv
<1>4. QED BY <1>1, <1>3 DEF PoolInv

-----------------------------------------------------------------------------
(* Steps before the pool *)

LEMMA InitPool == ASSUME Init PROVE PoolInv
<1>1. Len(subs) = 0 /\ DOMAIN subs = {} /\ subs \in Seq(SubType)
  BY DEF Init
<1>2. \A t \in Text : Retrieving(t) = {}
  BY <1>1 DEF Retrieving
<1>3. \A t \in Text : filled[t] + Cardinality(Retrieving(t)) <= PoolSize
  <2>1. Cardinality({}) = 0
    BY FS_EmptySet
  <2>2. \A t \in Text : filled[t] = 0
    BY DEF Init
  <2>3. PoolSize \in Nat
    BY BoundAssumption
  <2>4. QED BY <1>2, <2>1, <2>2, <2>3
<1>4. QED BY <1>1, <1>3, BoundAssumption DEF Init, PoolInv, State

LEMMA DecomposeKeepsPool == ASSUME PoolInv, DecomposeQuery PROVE PoolInv'
<1>1. \A i \in 1..MaxSubs : task[i] = "queued"
  BY DEF PoolInv, DecomposeQuery
<1>2. subs' \in Seq(SubType) /\ Len(subs') <= MaxSubs
  <2>1. CASE UNCHANGED subs
    BY <2>1 DEF PoolInv
  <2>2. ASSUME NEW r \in Parsed \cup Heuristic,
               subs' = [i \in 1..Len(Settle(r)) |-> Sub(Settle(r)[i], "chat", "high")]
        PROVE  subs' \in Seq(SubType) /\ Len(subs') <= MaxSubs
    <3>1. Settle(r) \in Seq(Text) /\ Len(Settle(r)) \in 1..MaxSubs
      BY SettledParts
    <3>2. "chat" \in Intent /\ "high" \in Level
      BY IntentAssumption DEF Level
    <3>3. \A i \in 1..Len(Settle(r)) : Sub(Settle(r)[i], "chat", "high") \in SubType
      BY <3>1, <3>2, FreshPart
    <3>4. Len(Settle(r)) \in Nat /\ Len(Settle(r)) <= MaxSubs
      BY <3>1, BoundAssumption
    <3>5. QED BY <2>2, <3>3, <3>4
  <2>3. QED BY <2>1, <2>2 DEF DecomposeQuery
<1>3. QED BY <1>1, <1>2, QueuedPool DEF DecomposeQuery

LEMMA ClassifyKeepsPool == ASSUME PoolInv, ClassifySubQueries PROVE PoolInv'
<1>1. \A i \in 1..MaxSubs : task[i] = "queued"
  BY DEF PoolInv, ClassifySubQueries
<1>2. CASE subs' = <<>>
  BY <1>1, <1>2, BoundAssumption, QueuedPool DEF ClassifySubQueries
<1>3. CASE subs' # <<>>
  <2>1. PICK intent \in [DOMAIN subs -> Intent], conf \in [DOMAIN subs -> Level] :
          subs' = [i \in DOMAIN subs |-> Sub(subs[i].text, intent[i], conf[i])]
    BY <1>3 DEF ClassifySubQueries
  <2>2. Len(subs) \in Nat /\ DOMAIN subs = 1..Len(subs) /\ Len(subs) <= MaxSubs
    BY DEF PoolInv
  <2>3. \A i \in DOMAIN subs : subs[i].text \in Text
    BY TextOfPart
  <2>4. \A i \in DOMAIN subs : Sub(subs[i].text, intent[i], conf[i]) \in SubType
    BY <2>3, FreshPart
  <2>5. subs' \in Seq(SubType) /\ Len(subs') <= MaxSubs
    BY <2>1, <2>2, <2>4
  <2>6. QED BY <1>1, <2>5, QueuedPool DEF ClassifySubQueries
<1>4. QED BY <1>2, <1>3

LEMMA RouteKeepsPool == ASSUME PoolInv, SingleFallback \/ StartSubtasks PROVE PoolInv'
<1>1. \A i \in 1..MaxSubs : task[i] = "queued"
  BY DEF PoolInv, SingleFallback, StartSubtasks
<1>2. subs' = Collapse(subs) /\ UNCHANGED <<task, cache, filled>>
  BY DEF SingleFallback, StartSubtasks
<1>3. subs' \in Seq(SubType) /\ Len(subs') <= MaxSubs
  BY <1>2, CollapsedParts DEF PoolInv
<1>4. QED BY <1>1, <1>2, <1>3, QueuedPool

-----------------------------------------------------------------------------
(* Steps of the threads *)

\* Any step of one subtask that starts no retrieval and stores nothing.
LEMMA OneSubtask ==
  ASSUME PoolInv, NEW i \in DOMAIN subs, NEW v \in State, v # "retrieving",
         v = "stored" => cache[subs[i].text] # NoEntry,
         phase' \notin {"decompose", "classify", "route"},
         task' = [task EXCEPT ![i] = v], UNCHANGED <<cache, filled>>,
         subs' \in Seq(SubType), Len(subs') = Len(subs),
         \A j \in DOMAIN subs : subs'[j].text = subs[j].text
  PROVE  PoolInv'
<1>1. DOMAIN subs' = DOMAIN subs /\ i \in 1..MaxSubs /\ DOMAIN subs \subseteq 1..MaxSubs
  BY BoundAssumption DEF PoolInv
<1>2. task' \in [1..MaxSubs -> State]
  BY <1>1 DEF PoolInv
<1>3. \A j \in DOMAIN subs' : task'[j] = "stored" => cache'[subs'[j].text] # NoEntry
  BY <1>1 DEF PoolInv
<1>4. ASSUME NEW t \in Text
      PROVE  filled'[t] + Cardinality(Retrieving(t)') <= PoolSize
  <2>1. Retrieving(t)' \subseteq Retrieving(t) /\ Retrieving(t) \subseteq DOMAIN subs
    BY <1>1 DEF Retrieving, PoolInv
  <2>2. Cardinality(Retrieving(t)') <= Cardinality(Retrieving(t))
    BY <2>1, FewPositions DEF PoolInv
  <2>3. Cardinality(Retrieving(t)') \in Nat /\ Cardinality(Retrieving(t)) \in Nat
    BY <2>1, Positions DEF PoolInv
  <2>4. filled[t] \in Nat /\ filled'[t] = filled[t] /\ PoolSize \in Nat
    BY BoundAssumption DEF PoolInv
  <2>5. filled[t] + Cardinality(Retrieving(t)) <= PoolSize
    BY DEF PoolInv
  <2>6. QED BY <2>2, <2>3, <2>4, <2>5
<1>5. QED BY <1>2, <1>3, <1>4 DEF PoolInv

\* A thread works only when the pool runs.
LEMMA WorkInRun ==
  ASSUME PoolInv, NEW i \in DOMAIN subs, Work(i)
  PROVE  phase' \notin {"decompose", "classify", "route"}
<1>1. i \in 1..MaxSubs
  BY BoundAssumption DEF PoolInv
<1>2. phase' = phase
  BY DEF Work, LookUp, Retrieve, ReadCache, RunTool, ChatTask
<1>3. phase = "run" \/ task[i] # "queued"
  BY DEF Work, LookUp, Retrieve, ReadCache, RunTool, ChatTask, NextInLine
<1>4. QED BY <1>1, <1>2, <1>3 DEF PoolInv

LEMMA FinishKeepsPool ==
  ASSUME PoolInv, NEW i \in DOMAIN subs, NEW r \in BOOLEAN, NEW src \in Hits, Finish(i, r, src),
         phase' \notin {"decompose", "classify", "route"}, UNCHANGED <<cache, filled>>
  PROVE  PoolInv'
<1>1. subs \in Seq(SubType) /\ subs[i] \in SubType
  BY DEF PoolInv
<1>2. [subs[i] EXCEPT !.result = r, !.sources = src] \in SubType
  BY <1>1 DEF SubType
<1>3. subs' = [subs EXCEPT ![i] = [subs[i] EXCEPT !.result = r, !.sources = src]]
  BY <1>1 DEF Finish
<1>4. subs' \in Seq(SubType) /\ Len(subs') = Len(subs)
  BY <1>1, <1>2, <1>3
<1>5. \A j \in DOMAIN subs : subs'[j].text = subs[j].text
  BY <1>1, <1>3 DEF SubType
<1>6. task' = [task EXCEPT ![i] = "done"] /\ "done" \in State
  BY DEF Finish, State
<1>7. QED BY <1>4, <1>5, <1>6, OneSubtask

LEMMA NothingKeepsPool ==
  ASSUME PoolInv, NEW i \in DOMAIN subs, FinishNothing(i),
         phase' \notin {"decompose", "classify", "route"}, UNCHANGED <<cache, filled>>
  PROVE  PoolInv'
<1>1. task' = [task EXCEPT ![i] = "failed"] /\ subs' = subs /\ "failed" \in State
  BY DEF FinishNothing, State
<1>2. subs' \in Seq(SubType) /\ Len(subs') = Len(subs)
  BY <1>1 DEF PoolInv
<1>3. QED BY <1>1, <1>2, OneSubtask

LEMMA LookUpKeepsPool ==
  ASSUME PoolInv, NEW i \in DOMAIN subs, LookUp(i) PROVE PoolInv'
<1>0. phase' \notin {"decompose", "classify", "route"}
  BY WorkInRun DEF Work
<1>a. i \in 1..MaxSubs /\ DOMAIN subs \subseteq 1..MaxSubs /\ PoolSize \in Nat /\ subs' = subs
      /\ cache' = cache /\ filled' = filled
  BY BoundAssumption DEF PoolInv, LookUp
<1>1. CASE cache[subs[i].text] # NoEntry
  <2>1. task' = [task EXCEPT ![i] = "stored"] /\ "stored" \in State
    BY <1>1 DEF LookUp, State
  <2>2. subs' \in Seq(SubType) /\ Len(subs') = Len(subs)
    BY <1>a DEF PoolInv
  <2>3. QED BY <1>0, <1>1, <1>a, <2>1, <2>2, OneSubtask
<1>2. CASE cache[subs[i].text] = NoEntry
  <2>1. task' = [task EXCEPT ![i] = "retrieving"] /\ "retrieving" \in State
    BY <1>2 DEF LookUp, State
  <2>2. task' \in [1..MaxSubs -> State]
    BY <2>1, <1>a DEF PoolInv
  <2>3. \A j \in DOMAIN subs' : task'[j] = "stored" => cache'[subs'[j].text] # NoEntry
    BY <2>1, <1>a DEF PoolInv
  <2>4. ASSUME NEW t \in Text
        PROVE  filled'[t] + Cardinality(Retrieving(t)') <= PoolSize
    <3>1. CASE t = subs[i].text
      <4>1. filled[t] = 0
        BY <1>2, <3>1 DEF PoolInv
      <4>2. Retrieving(t)' \subseteq Running \cup {i} /\ Running \subseteq DOMAIN subs
        BY <2>1, <1>a DEF Retrieving, Running, PoolInv
      <4>3. IsFiniteSet(Running) /\ Cardinality(Running) \in Nat
        BY <4>2, Positions DEF PoolInv
      <4>4. i \notin Running
        BY DEF Running, LookUp, NextInLine
      <4>5. Cardinality(Running \cup {i}) = Cardinality(Running) + 1
        BY <4>3, <4>4, FS_AddElement
      <4>6. Cardinality(Running) < PoolSize
        BY DEF LookUp, NextInLine
      <4>7. Running \cup {i} \subseteq DOMAIN subs
        BY <4>2
      <4>8. Cardinality(Retrieving(t)') <= Cardinality(Running \cup {i})
        BY <4>2, <4>7, FewPositions DEF PoolInv
      <4>9. Cardinality(Retrieving(t)') \in Nat
        BY <4>2, <4>7, Positions DEF PoolInv
      <4>10. QED BY <4>1, <4>3, <4>5, <4>6, <4>8, <4>9, <1>a
    <3>2. CASE t # subs[i].text
      <4>1. Retrieving(t)' = Retrieving(t)
        BY <2>1, <3>2, <1>a DEF Retrieving, PoolInv
      <4>2. QED BY <4>1, <1>a DEF PoolInv
    <3>3. QED BY <3>1, <3>2
  <2>5. QED BY <1>0, <1>a, <2>2, <2>3, <2>4 DEF PoolInv
<1>3. QED BY <1>1, <1>2

LEMMA RetrieveKeepsPool ==
  ASSUME PoolInv, NEW i \in DOMAIN subs, Retrieve(i) PROVE PoolInv'
<1>0. phase' \notin {"decompose", "classify", "route"}
  BY WorkInRun DEF Work
<1>1. CASE FinishNothing(i) /\ UNCHANGED <<cache, filled>>
  BY <1>0, <1>1, NothingKeepsPool
<1>2. ASSUME NEW h \in Hits, cache' = [cache EXCEPT ![subs[i].text] = <<h>>],
             filled' = [filled EXCEPT ![subs[i].text] = @ + 1],
             task' = [task EXCEPT ![i] = "stored"], UNCHANGED subs
      PROVE  PoolInv'
  <2>1. /\ i \in 1..MaxSubs /\ DOMAIN subs \subseteq 1..MaxSubs
        /\ PoolSize \in Nat /\ subs[i].text \in Text /\ <<h>> # NoEntry
    BY BoundAssumption, TextOfPart DEF PoolInv, NoEntry
  <2>2. task' \in [1..MaxSubs -> State] /\ filled' \in [Text -> Nat]
    BY <1>2, <2>1 DEF PoolInv, State
  <2>3. cache' \in [Text -> {NoEntry} \cup {<<g>> : g \in Hits}]
    BY <1>2, <2>1 DEF PoolInv
  <2>4. \A t \in Text : cache[t] # NoEntry => cache'[t] # NoEntry
    BY <1>2, <2>1 DEF PoolInv
  <2>5. cache'[subs[i].text] # NoEntry
    BY <1>2, <2>1 DEF PoolInv
  <2>6. \A j \in DOMAIN subs : subs[j].text \in Text
    BY TextOfPart
  <2>7. \A j \in DOMAIN subs' : task'[j] = "stored" => cache'[subs'[j].text] # NoEntry
    BY <1>2, <2>1, <2>4, <2>5, <2>6 DEF PoolInv
  <2>8. ASSUME NEW t \in Text
        PROVE  /\ cache'[t] = NoEntry => filled'[t] = 0
               /\ filled'[t] + Cardinality(Retrieving(t)') <= PoolSize
    <3>1. /\ Retrieving(t) \subseteq DOMAIN subs /\ IsFiniteSet(Retrieving(t))
          /\ Cardinality(Retrieving(t)) \in Nat /\ filled[t] \in Nat
          /\ filled[t] + Cardinality(Retrieving(t)) <= PoolSize
      <4>1. Retrieving(t) \subseteq DOMAIN subs
        BY DEF Retrieving
      <4>2. QED BY <4>1, Positions DEF PoolInv
    <3>2. CASE t = subs[i].text
      <4>1. i \in Retrieving(t) /\ Retrieving(t)' = Retrieving(t) \ {i}
        BY <1>2, <2>1, <3>2 DEF Retrieving, Retrieve, PoolInv
      <4>2. Cardinality(Retrieving(t)') = Cardinality(Retrieving(t)) - 1
        BY <3>1, <4>1, FS_RemoveElement
      <4>3. filled'[t] = filled[t] + 1
        BY <1>2, <2>1, <3>2 DEF PoolInv
      <4>4. QED BY <2>1, <2>5, <3>1, <3>2, <4>2, <4>3
    <3>3. CASE t # subs[i].text
      <4>1. Retrieving(t)' = Retrieving(t)
        BY <1>2, <2>1, <3>3 DEF Retrieving, PoolInv
      <4>2. filled'[t] = filled[t] /\ cache'[t] = cache[t]
        BY <1>2, <3>3 DEF PoolInv
      <4>3. QED BY <3>1, <4>1, <4>2 DEF PoolInv
    <3>4. QED BY <3>2, <3>3
  <2>9. QED BY <1>0, <1>2, <2>2, <2>3, <2>7, <2>8 DEF PoolInv
<1>3. QED BY <1>1, <1>2 DEF Retrieve

LEMMA ReadKeepsPool ==
  ASSUME PoolInv, NEW i \in DOMAIN subs, ReadCache(i) PROVE PoolInv'
<1>0. phase' \notin {"decompose", "classify", "route"}
  BY WorkInRun DEF Work
<1>1. subs[i].text \in Text /\ cache[subs[i].text] # NoEntry
  BY TextOfPart DEF PoolInv, ReadCache
<1>2. PICK h \in Hits : cache[subs[i].text] = <<h>>
  BY <1>1 DEF PoolInv
<1>3. cache[subs[i].text][1] = h
  BY <1>2
<1>5. Finish(i, TRUE, h)
  BY <1>3 DEF ReadCache
<1>4. QED BY <1>0, <1>5, FinishKeepsPool DEF ReadCache

LEMMA WorkKeepsPool ==
  ASSUME PoolInv, NEW i \in DOMAIN subs, Work(i) PROVE PoolInv'
<1>0. phase' \notin {"decompose", "classify", "route"} /\ <<>> \in Hits
  BY WorkInRun DEF Hits
<1>1. CASE LookUp(i)
  BY <1>1, LookUpKeepsPool
<1>2. CASE Retrieve(i)
  BY <1>2, RetrieveKeepsPool
<1>3. CASE ReadCache(i)
  BY <1>3, ReadKeepsPool
<1>4. CASE RunTool(i)
  <2>1. CASE \E r \in BOOLEAN : Finish(i, r, <<>>)
    BY <1>0, <1>4, <2>1, FinishKeepsPool DEF RunTool
  <2>2. CASE FinishNothing(i)
    BY <1>0, <1>4, <2>2, NothingKeepsPool DEF RunTool
  <2>3. QED BY <1>4, <2>1, <2>2 DEF RunTool
<1>5. CASE ChatTask(i)
  BY <1>0, <1>5, FinishKeepsPool DEF ChatTask
<1>6. QED BY <1>1, <1>2, <1>3, <1>4, <1>5 DEF Work

-----------------------------------------------------------------------------
(* The invariant and the theorem *)

LEMMA SameKeepsPool ==
  ASSUME PoolInv, UNCHANGED <<subs, task, cache, filled>>,
         phase' \notin {"decompose", "classify", "route"} \/ phase' = phase
  PROVE  PoolInv'
<1>1. \A t \in Text : Retrieving(t)' = Retrieving(t)
  BY DEF Retrieving
<1>2. QED BY <1>1 DEF PoolInv

LEMMA NextKeepsPool == PoolInv /\ [Next]_vars => PoolInv'
<1> SUFFICES ASSUME PoolInv, [Next]_vars PROVE PoolInv'
  OBVIOUS
<1>1. CASE DecomposeQuery
  BY <1>1, DecomposeKeepsPool
<1>2. CASE ClassifySubQueries
  BY <1>2, ClassifyKeepsPool
<1>3. CASE SingleFallback \/ StartSubtasks
  BY <1>3, RouteKeepsPool
<1>4. CASE \E i \in DOMAIN subs : Work(i)
  BY <1>4, WorkKeepsPool
<1>5. CASE Collect
  <2>1. phase' \in {"done", "failed"} /\ UNCHANGED <<subs, task, cache, filled>>
    BY <1>5 DEF Collect
  <2>2. QED BY <2>1, SameKeepsPool
<1>6. CASE UNCHANGED vars
  BY <1>6, SameKeepsPool DEF vars
<1>7. QED BY <1>1, <1>2, <1>3, <1>4, <1>5, <1>6 DEF Next

\* Those counted are, with those running, at most the threads of the pool.
THEOREM PoolInvariant == Spec => []PoolInv
BY InitPool, NextKeepsPool, PTL DEF Spec

\* However many parts ask for a text, and in whatever order the threads run,
\* it is retrieved at most as often as the pool has threads
\* (execute_subtasks_parallel and _run_rag_subtask).
THEOREM RetrievalsBounded == Spec => []RetrievalsPerText
<1>1. PoolInv => RetrievalsPerText
  <2> SUFFICES ASSUME PoolInv, NEW t \in Text PROVE filled[t] <= PoolSize
    BY DEF RetrievalsPerText
  <2>1. Retrieving(t) \subseteq DOMAIN subs
    BY DEF Retrieving
  <2>2. Cardinality(Retrieving(t)) \in Nat /\ filled[t] \in Nat /\ PoolSize \in Nat
    BY <2>1, Positions, BoundAssumption DEF PoolInv
  <2>3. filled[t] + Cardinality(Retrieving(t)) <= PoolSize
    BY DEF PoolInv
  <2>4. QED BY <2>2, <2>3
<1>2. QED BY <1>1, PoolInvariant, PTL

-----------------------------------------------------------------------------
(* Positions in order *)

\* The positions of K before i.
Below(K, i) == {j \in K : j < i}

LEMMA RanksGrow ==
  ASSUME NEW L \in Nat, NEW K \in SUBSET (1..L)
  PROVE  /\ IsFiniteSet(K) /\ Cardinality(K) \in Nat
         /\ \A i \in K : Cardinality(Below(K, i)) + 1 \in 1..Cardinality(K)
         /\ \A i, j \in K : i < j => Cardinality(Below(K, i)) < Cardinality(Below(K, j))
<1>1. IsFiniteSet(K) /\ Cardinality(K) \in Nat
  <2>1. IsFiniteSet(1..L)
    BY FS_Interval
  <2>2. QED
    BY <2>1, FS_Subset, FS_CardinalityType
<1>2. \A T \in SUBSET K : IsFiniteSet(T) /\ Cardinality(T) \in Nat /\ Cardinality(T) <= Cardinality(K)
  BY <1>1, FS_Subset, FS_CardinalityType
<1>3. \A i \in K : Below(K, i) \in SUBSET K /\ i \notin Below(K, i)
  BY DEF Below
<1>4. \A i \in K : Below(K, i) \cup {i} \in SUBSET K
  BY <1>3
<1>5. \A i \in K : Cardinality(Below(K, i) \cup {i}) = Cardinality(Below(K, i)) + 1
  BY <1>2, <1>3, FS_AddElement
<1>6. \A i \in K : Cardinality(Below(K, i)) + 1 \in 1..Cardinality(K)
  <2> TAKE i \in K
  <2>1. Cardinality(Below(K, i)) + 1 <= Cardinality(K)
    BY <1>2, <1>4, <1>5
  <2>2. Cardinality(Below(K, i)) \in Nat
    BY <1>2, <1>3
  <2>3. QED
    BY <1>1, <2>1, <2>2
<1>7. ASSUME NEW i \in K, NEW j \in K, i < j
      PROVE  Cardinality(Below(K, i)) < Cardinality(Below(K, j))
  <2>1. Below(K, i) \cup {i} \subseteq Below(K, j)
    <3>1. \A k \in K : k < i => k < j
      BY <1>7
    <3>2. QED
      BY <1>7, <3>1 DEF Below
  <2>2. Cardinality(Below(K, i) \cup {i}) <= Cardinality(Below(K, j))
    BY <1>2, <1>3, <2>1, FS_Subset
  <2>3. Cardinality(Below(K, i)) \in Nat /\ Cardinality(Below(K, j)) \in Nat
    BY <1>2, <1>3
  <2>4. QED
    BY <1>5, <2>2, <2>3
<1>8. QED
  BY <1>1, <1>6, <1>7

LEMMA RanksAreAll ==
  ASSUME NEW L \in Nat, NEW K \in SUBSET (1..L), NEW n \in 1..Cardinality(K)
  PROVE  \E i \in K : Cardinality(Below(K, i)) = n - 1
<1>1. PICK c : c = Cardinality(K)
  OBVIOUS
<1>2. IsFiniteSet(K) /\ c \in Nat
  BY <1>1, RanksGrow
<1>3. PICK rank : rank = [i \in K |-> Cardinality(Below(K, i)) + 1]
  OBVIOUS
<1>4. rank \in [K -> 1..c]
  BY <1>1, <1>3, RanksGrow
<1>5. ASSUME NEW i \in K, NEW j \in K, rank[i] = rank[j] PROVE i = j
  <2>1. Cardinality(Below(K, i)) + 1 = Cardinality(Below(K, j)) + 1
    BY <1>3, <1>5
  <2>2. Cardinality(Below(K, i)) \in Int /\ Cardinality(Below(K, j)) \in Int
    <3>1. Below(K, i) \in SUBSET K /\ Below(K, j) \in SUBSET K
      BY DEF Below
    <3>2. QED
      BY <1>2, <3>1, FS_Subset, FS_CardinalityType
  <2>3. ~(i < j) /\ ~(j < i)
    <3>1. i < j => Cardinality(Below(K, i)) < Cardinality(Below(K, j))
      BY RanksGrow
    <3>2. j < i => Cardinality(Below(K, j)) < Cardinality(Below(K, i))
      BY RanksGrow
    <3>3. QED
      BY <2>1, <2>2, <3>1, <3>2
  <2>4. i \in Int /\ j \in Int
    OBVIOUS
  <2>5. QED
    BY <2>3, <2>4
<1>6. rank \in Injection(K, 1..c)
  BY <1>4, <1>5 DEF Injection, IsInjective
<1>7. IsFiniteSet(1..c) /\ Cardinality(1..c) = c
  BY <1>2, FS_Interval
<1>8. rank \in Surjection(K, 1..c)
  <2>1. Cardinality(K) = Cardinality(1..c) <=> rank \in Surjection(K, 1..c)
    BY <1>6, <1>7, FS_Injection
  <2>2. QED
    BY <1>1, <1>7, <2>1
<1>9. PICK i \in K : rank[i] = n
  BY <1>1, <1>8 DEF Surjection
<1>10. Cardinality(Below(K, i)) + 1 = n /\ Cardinality(Below(K, i)) \in Int
  <2>1. Below(K, i) \in SUBSET K
    BY DEF Below
  <2>2. QED
    BY <1>2, <1>3, <1>9, <2>1, FS_Subset, FS_CardinalityType
<1>11. QED
  BY <1>10

\* Where the values of s occur first.
FirstPlaces(s) == {i \in DOMAIN s : \A j \in 1..(i - 1) : s[j] # s[i]}

\* Firsts takes the values of s at those places, in their order.
LEMMA FirstsFacts ==
  ASSUME NEW S, NEW s \in Seq(S)
  PROVE  \E pos \in [1..Len(Firsts(s)) -> FirstPlaces(s)] :
           /\ Firsts(s) \in Seq(S) /\ Len(Firsts(s)) = Cardinality(FirstPlaces(s))
           /\ \A n \in 1..Len(Firsts(s)) : Firsts(s)[n] = s[pos[n]]
           /\ \A m, n \in 1..Len(Firsts(s)) : m < n => pos[m] < pos[n]
           /\ \A i \in FirstPlaces(s) : \E n \in 1..Len(Firsts(s)) : pos[n] = i
<1>1. PICK K, L, c : K = FirstPlaces(s) /\ L = Len(s) /\ c = Cardinality(K)
  OBVIOUS
<1>2. L \in Nat /\ DOMAIN s = 1..L /\ K \in SUBSET (1..L)
  BY <1>1 DEF FirstPlaces
<1>3. c \in Nat
  BY <1>1, <1>2, RanksGrow
<1> DEFINE nth(n) == CHOOSE i \in K : Cardinality(Below(K, i)) = n - 1
<1>4. PICK pos : pos = [n \in 1..c |-> nth(n)]
  OBVIOUS
<1>5. ASSUME NEW n \in 1..c PROVE pos[n] \in K /\ Cardinality(Below(K, pos[n])) = n - 1
  <2>1. \E i \in K : Cardinality(Below(K, i)) = n - 1
    BY <1>1, <1>2, RanksAreAll
  <2>2. QED
    BY <1>4, <2>1
<1>6. Firsts(s) = [n \in 1..c |-> s[nth(n)]]
  BY <1>1 DEF Firsts, FirstPlaces, Below
<1>7. PICK r : r = Firsts(s)
  OBVIOUS
<1>8. /\ r = [n \in 1..c |-> r[n]]
      /\ \A n \in 1..c : r[n] = s[pos[n]]
  BY <1>4, <1>6, <1>7
<1> HIDE DEF nth
<1>9. \A i \in 1..L : s[i] \in S
  BY <1>2
<1>10. \A n \in 1..c : r[n] \in S /\ pos[n] \in 1..L
  BY <1>2, <1>5, <1>8, <1>9
<1>11. r \in Seq(S) /\ Len(r) = c
  BY <1>3, <1>8, <1>10
<1>12. ASSUME NEW m \in 1..c, NEW n \in 1..c, m < n PROVE pos[m] < pos[n]
  <2>1. CASE pos[m] = pos[n]
    BY <1>5, <1>12, <2>1
  <2>2. CASE pos[n] < pos[m]
    <3>1. Cardinality(Below(K, pos[n])) < Cardinality(Below(K, pos[m]))
      BY <1>2, <1>5, <2>2, RanksGrow
    <3>2. QED
      BY <1>5, <1>12, <3>1
  <2>3. QED
    BY <1>10, <2>1, <2>2
<1>13. ASSUME NEW i \in K PROVE \E n \in 1..c : pos[n] = i
  <2>1. PICK n : n = Cardinality(Below(K, i)) + 1 /\ n \in 1..c
    BY <1>1, <1>2, RanksGrow
  <2>2. Cardinality(Below(K, i)) \in Int
    <3>1. Below(K, i) \in SUBSET K
      BY DEF Below
    <3>2. IsFiniteSet(K)
      BY <1>2, RanksGrow
    <3>3. QED
      BY <3>1, <3>2, FS_Subset, FS_CardinalityType
  <2>3. Cardinality(Below(K, pos[n])) = Cardinality(Below(K, i)) /\ pos[n] \in K
    BY <1>5, <2>1, <2>2
  <2>4. ~(i < pos[n]) /\ ~(pos[n] < i)
    <3>1. i < pos[n] => Cardinality(Below(K, i)) < Cardinality(Below(K, pos[n]))
      BY <1>2, <2>3, RanksGrow
    <3>2. pos[n] < i => Cardinality(Below(K, pos[n])) < Cardinality(Below(K, i))
      BY <1>2, <2>3, RanksGrow
    <3>3. QED
      BY <2>2, <2>3, <3>1, <3>2
  <2>5. i \in 1..L /\ pos[n] \in 1..L
    BY <1>2, <2>3
  <2>6. QED
    BY <2>1, <2>4, <2>5
<1>14. pos \in [1..c -> K]
  BY <1>4, <1>5
<1>15. /\ r \in Seq(S) /\ Len(r) = Cardinality(K)
       /\ pos \in [1..Len(r) -> K]
       /\ \A n \in 1..Len(r) : r[n] = s[pos[n]]
       /\ \A m, n \in 1..Len(r) : m < n => pos[m] < pos[n]
       /\ \A i \in K : \E n \in 1..Len(r) : pos[n] = i
  BY <1>1, <1>8, <1>11, <1>12, <1>13, <1>14
<1>16. QED
  BY <1>1, <1>7, <1>15

\* Every value of s occurs somewhere first.
LEMMA EveryValueIsFirst ==
  ASSUME NEW S, NEW s \in Seq(S), NEW i \in DOMAIN s
  PROVE  \E p \in FirstPlaces(s) : s[p] = s[i] /\ p <= i
<1> DEFINE T == {j \in DOMAIN s : s[j] = s[i]}
<1>1. T \in SUBSET Nat /\ i \in T
  OBVIOUS
<1>2. PICK p \in T : \A j \in T : p <= j
  BY <1>1, LeastNumber
<1>3. p \in FirstPlaces(s)
  BY <1>2 DEF FirstPlaces
<1>4. QED
  BY <1>1, <1>2, <1>3

\* There are as many first places as there are values.
LEMMA FirstPlacesCount ==
  ASSUME NEW s, NEW L \in Nat, DOMAIN s = 1..L, NEW T, T = {s[i] : i \in DOMAIN s}
  PROVE  IsFiniteSet(T) /\ Cardinality(FirstPlaces(s)) = Cardinality(T)
<1>1. PICK K, value : K = FirstPlaces(s) /\ value = [i \in K |-> s[i]]
  OBVIOUS
<1>2. K \in SUBSET (1..L)
  BY <1>1 DEF FirstPlaces
<1>3. value \in [K -> T]
  BY <1>1, <1>2
<1>4. ASSUME NEW i \in K, NEW j \in K, value[i] = value[j] PROVE i = j
  <2>1. s[i] = s[j] /\ i \in Int /\ j \in Int
    BY <1>1, <1>2, <1>4
  <2>2. j \in 1..(i - 1) => s[j] # s[i]
    BY <1>1 DEF FirstPlaces
  <2>3. i \in 1..(j - 1) => s[i] # s[j]
    BY <1>1 DEF FirstPlaces
  <2>4. QED
    BY <1>2, <2>1, <2>2, <2>3
<1>5. ASSUME NEW t \in T PROVE \E i \in K : value[i] = t
  <2> DEFINE P == {j \in 1..L : s[j] = t}
  <2>1. PICK i \in P : \A j \in P : i <= j
    <3>1. P \in SUBSET Nat /\ P # {}
      OBVIOUS
    <3>2. QED
      BY <3>1, LeastNumber
  <2>2. i \in K
    BY <1>1, <2>1 DEF FirstPlaces
  <2>3. QED
    BY <1>1, <2>1, <2>2
<1>6. IsFiniteSet(K)
  BY <1>2, RanksGrow
<1>7. value \in Surjection(K, T) /\ value \in Injection(K, T)
  BY <1>3, <1>4, <1>5 DEF Surjection, Injection, IsInjective
<1>8. IsFiniteSet(T)
  BY <1>6, <1>7, FS_Surjection
<1>9. Cardinality(T) = Cardinality(K) <=> value \in Injection(K, T)
  BY <1>6, <1>7, FS_Surjection
<1>10. QED
  BY <1>1, <1>7, <1>8, <1>9

-----------------------------------------------------------------------------
(* The tags and the intent of the turn *)

\* What is known of the parts in each phase, and of the merged state.
MergeInv ==
  /\ phase = "decompose" => subs = <<>>
  /\ phase \in {"run", "done"} => ShouldUseCompound(subs)
  /\ phase \in {"done", "failed"} => \A i \in DOMAIN subs : task[i] \in Over
  /\ phase = "done" => merged = MergeSubtaskState(subs)

LEMMA InitMerge == Init => MergeInv
  BY DEF Init, MergeInv

LEMMA SameIntents ==
  ASSUME NEW s \in Seq(SubType), NEW i \in DOMAIN s, NEW p \in SubType, p.intent = s[i].intent,
         NEW t, t = [s EXCEPT ![i] = p]
  PROVE  Len(t) = Len(s) /\ Intents(t) = Intents(s)
<1>1. DOMAIN t = DOMAIN s /\ Len(t) = Len(s)
  OBVIOUS
<1>2. \A j \in DOMAIN s : t[j].intent = s[j].intent
  OBVIOUS
<1>3. QED
  BY <1>1, <1>2 DEF Intents

LEMMA WorkKeepsMerge ==
  ASSUME PoolInv, MergeInv, NEW i \in DOMAIN subs, Work(i)
  PROVE  MergeInv'
<1>1. phase' = phase /\ merged' = merged
  BY DEF Work, LookUp, Retrieve, ReadCache, RunTool, ChatTask
<1>2. phase = "run" \/ task[i] \in {"retrieving", "stored"}
  BY DEF Work, LookUp, Retrieve, ReadCache, RunTool, ChatTask, NextInLine
<1>3. phase \notin {"decompose", "done", "failed"}
  <2>1. phase # "decompose"
    BY DEF MergeInv
  <2>2. task[i] \in {"retrieving", "stored"} => phase \notin {"done", "failed"}
    BY DEF MergeInv, Over
  <2>3. QED
    BY <1>2, <2>1, <2>2
<1>4. Len(subs') = Len(subs) /\ Intents(subs') = Intents(subs)
  <2>1. CASE UNCHANGED subs
    BY <2>1
  <2>2. ASSUME NEW r \in BOOLEAN, NEW src \in Hits, Finish(i, r, src)
        PROVE  Len(subs') = Len(subs) /\ Intents(subs') = Intents(subs)
    <3>1. subs \in Seq(SubType) /\ subs[i] \in SubType
      BY DEF PoolInv
    <3>2. PICK p : p = [subs[i] EXCEPT !.result = r, !.sources = src]
      OBVIOUS
    <3>3. p \in SubType /\ p.intent = subs[i].intent
      BY <3>1, <3>2 DEF SubType
    <3>4. subs' = [subs EXCEPT ![i] = p]
      BY <2>2, <3>1, <3>2 DEF Finish
    <3>5. \A t : t = [subs EXCEPT ![i] = p] => Len(t) = Len(subs) /\ Intents(t) = Intents(subs)
      BY <3>1, <3>3, SameIntents
    <3>6. QED
      BY <3>4, <3>5
  <2>3. CASE ReadCache(i)
    <3>1. subs[i].text \in Text /\ cache[subs[i].text] # NoEntry
      BY <2>3, TextOfPart DEF PoolInv, ReadCache
    <3>2. PICK h \in Hits : cache[subs[i].text] = <<h>>
      BY <3>1 DEF PoolInv
    <3>3. cache[subs[i].text][1] = h
      BY <3>2
    <3>4. Finish(i, TRUE, h)
      BY <2>3, <3>3 DEF ReadCache
    <3>5. QED
      BY <2>2, <3>4
  <2>4. CASE RunTool(i) \/ ChatTask(i)
    <3>1. <<>> \in Hits
      BY DEF Hits
    <3>2. FinishNothing(i) \/ \E r \in BOOLEAN : Finish(i, r, <<>>)
      BY <2>4 DEF RunTool, ChatTask
    <3>3. FinishNothing(i) => UNCHANGED subs
      BY DEF FinishNothing
    <3>4. QED
      BY <2>1, <2>2, <3>1, <3>2, <3>3
  <2>5. CASE LookUp(i) \/ Retrieve(i)
    BY <2>1, <2>5 DEF LookUp, Retrieve, FinishNothing
  <2>6. QED
    BY <2>3, <2>4, <2>5 DEF Work
<1>5. phase = "run" => ShouldUseCompound(subs)
  BY DEF MergeInv
<1>6. phase = "run" => ShouldUseCompound(subs')
  BY <1>4, <1>5 DEF ShouldUseCompound
<1>7. QED
  BY <1>1, <1>3, <1>6 DEF MergeInv

LEMMA NextMerge == PoolInv /\ MergeInv /\ [Next]_vars => MergeInv'
<1> SUFFICES ASSUME PoolInv, MergeInv, [Next]_vars PROVE MergeInv'
  OBVIOUS
<1>1. CASE DecomposeQuery
  <2>1. phase' = "classify" \/ (phase' = "failed" /\ subs' = <<>>)
    BY <1>1 DEF DecomposeQuery, MergeInv
  <2>2. QED
    BY <2>1 DEF MergeInv
<1>2. CASE ClassifySubQueries
  BY <1>2 DEF ClassifySubQueries, MergeInv
<1>3. CASE SingleFallback
  BY <1>3 DEF SingleFallback, MergeInv
<1>4. CASE StartSubtasks
  BY <1>4 DEF StartSubtasks, MergeInv
<1>5. CASE \E i \in DOMAIN subs : Work(i)
  BY <1>5, WorkKeepsMerge
<1>6. CASE Collect
  <2>1. /\ phase = "run" /\ phase' \in {"done", "failed"}
        /\ subs' = subs /\ task' = task
        /\ phase' = "done" => merged' = MergeSubtaskState(subs)
        /\ \A i \in DOMAIN subs : task[i] \in Over
    BY <1>6 DEF Collect
  <2>2. ShouldUseCompound(subs)
    BY <2>1 DEF MergeInv
  <2>3. QED
    BY <2>1, <2>2 DEF MergeInv
<1>7. CASE UNCHANGED vars
  BY <1>7 DEF vars, MergeInv
<1>8. QED
  BY <1>1, <1>2, <1>3, <1>4, <1>5, <1>6, <1>7 DEF Next

LEMMA AlwaysMerged == Spec => []MergeInv
  BY InitMerge, NextMerge, PoolInvariant, PTL DEF Spec

\* The intent of the first part that is not small talk; there is one.
LEMMA PrimaryIsAsked ==
  ASSUME NEW s \in Seq(SubType), ShouldUseCompound(s)
  PROVE  PrimaryIntent(s) \in Intents(s) \ {"chat"}
<1> DEFINE asked == {i \in DOMAIN s : s[i].intent # "chat"}
<1>1. asked # {}
  <2> SUFFICES ASSUME \A i \in DOMAIN s : s[i].intent = "chat" PROVE FALSE
    OBVIOUS
  <2>1. Len(s) > 1 /\ Len(s) \in Nat /\ DOMAIN s = 1..Len(s)
    BY DEF ShouldUseCompound
  <2>2. 1 \in DOMAIN s
    BY <2>1
  <2>3. Intents(s) = {"chat"}
    BY <2>2 DEF Intents
  <2>4. Cardinality(Intents(s)) = 1
    BY <2>3, FS_Singleton
  <2>5. QED
    BY <2>4 DEF ShouldUseCompound
<1>2. asked \in SUBSET Nat
  OBVIOUS
<1>3. \E i \in asked : \A j \in asked : i <= j
  BY <1>1, <1>2, LeastNumber
<1>4. PICK i : i = CHOOSE k \in asked : \A j \in asked : k <= j
  OBVIOUS
<1>5. i \in asked
  BY <1>3, <1>4
<1>6. PrimaryIntent(s) = s[i].intent
  <2>1. Len(s) # 1
    <3>1. Len(s) > 1 /\ Len(s) \in Nat
      BY DEF ShouldUseCompound
    <3>2. \A n \in Nat : n > 1 => n # 1
      OBVIOUS
    <3>3. QED
      BY <3>1, <3>2
  <2>2. QED
    BY <1>1, <1>4, <2>1 DEF PrimaryIntent
<1>7. QED
  BY <1>5, <1>6 DEF Intents

\* No subtask runs or waits when the turn goes on, and the tags shown are the
\* intents that ran, once each (execute_subtasks_parallel, merge_subtask_state).
THEOREM PartsAreTogether == Spec => []PartsComeTogether
<1>1. PoolInv /\ MergeInv => PartsComeTogether
  <2> SUFFICES ASSUME PoolInv, MergeInv PROVE PartsComeTogether
    OBVIOUS
  <2>1. PoolIsQuietAfterwards
    BY DEF MergeInv, PoolIsQuietAfterwards
  <2>2. ASSUME phase = "done" PROVE TagsTellWhatRan
    <3>1. /\ subs \in Seq(SubType) /\ ShouldUseCompound(subs) /\ merged = MergeSubtaskState(subs)
      BY <2>2 DEF PoolInv, MergeInv
    <3>2. PICK s : s = [i \in DOMAIN subs |-> subs[i].intent]
      OBVIOUS
    <3>3. DOMAIN subs = 1..Len(subs) /\ Len(subs) \in Nat /\ \A i \in DOMAIN subs : subs[i].intent \in Intent
      <4>1. \A i \in DOMAIN subs : subs[i] \in SubType
        BY <3>1
      <4>2. QED
        BY <3>1, <4>1 DEF SubType
    <3>4. s \in Seq(Intent) /\ DOMAIN s = 1..Len(subs)
      BY <3>2, <3>3
    <3>5. PICK tags : tags = Firsts(s)
      OBVIOUS
    <3>6. merged.tags = tags /\ merged.primary = PrimaryIntent(subs)
      BY <3>1, <3>2, <3>5 DEF MergeSubtaskState
    <3>7. PICK pos \in [1..Len(tags) -> FirstPlaces(s)] :
            /\ tags \in Seq(Intent) /\ Len(tags) = Cardinality(FirstPlaces(s))
            /\ \A n \in 1..Len(tags) : tags[n] = s[pos[n]]
            /\ \A m, n \in 1..Len(tags) : m < n => pos[m] < pos[n]
            /\ \A i \in FirstPlaces(s) : \E n \in 1..Len(tags) : pos[n] = i
      <4>1. \E pos \in [1..Len(Firsts(s)) -> FirstPlaces(s)] :
              /\ Firsts(s) \in Seq(Intent) /\ Len(Firsts(s)) = Cardinality(FirstPlaces(s))
              /\ \A n \in 1..Len(Firsts(s)) : Firsts(s)[n] = s[pos[n]]
              /\ \A m, n \in 1..Len(Firsts(s)) : m < n => pos[m] < pos[n]
              /\ \A i \in FirstPlaces(s) : \E n \in 1..Len(Firsts(s)) : pos[n] = i
        BY <3>4, FirstsFacts
      <4>2. QED
        BY <3>5, <4>1
    <3>8. {s[i] : i \in DOMAIN s} = Intents(subs)
      BY <3>2 DEF Intents
    <3>9. IsFiniteSet(Intents(subs)) /\ Cardinality(FirstPlaces(s)) = Cardinality(Intents(subs))
      BY <3>3, <3>4, <3>8, FirstPlacesCount
    <3>10. DOMAIN tags = 1..Len(tags)
      BY <3>7
    <3>11. \A n \in DOMAIN tags : tags[n] \in Intents(subs)
      BY <3>7, <3>8, <3>10 DEF FirstPlaces
    <3>12. \A x \in Intents(subs) : \E n \in DOMAIN tags : tags[n] = x
      <4> TAKE x \in Intents(subs)
      <4>1. PICK i \in DOMAIN s : s[i] = x
        BY <3>8
      <4>2. PICK p \in FirstPlaces(s) : s[p] = x
        BY <3>4, <4>1, EveryValueIsFirst
      <4>3. PICK n \in 1..Len(tags) : pos[n] = p
        BY <3>7
      <4>4. QED
        BY <3>7, <3>10, <4>2, <4>3
    <3>13. {merged.tags[n] : n \in DOMAIN merged.tags} = Intents(subs)
      BY <3>6, <3>11, <3>12
    <3>14. Cardinality(Intents(subs)) \in Nat /\ Cardinality(Intents(subs)) > 1
      BY <3>1, <3>9, FS_CardinalityType DEF ShouldUseCompound
    <3>15. Len(merged.tags) = Cardinality(Intents(subs)) /\ Len(merged.tags) >= 2
      BY <3>6, <3>7, <3>9, <3>14
    <3>16. merged.primary \in Intents(subs) \ {"chat"}
      BY <3>1, <3>6, PrimaryIsAsked
    <3>17. QED
      BY <3>13, <3>15, <3>16 DEF TagsTellWhatRan
  <2>3. phase # "done" => TagsTellWhatRan
    BY DEF TagsTellWhatRan
  <2>4. QED
    BY <2>1, <2>2, <2>3 DEF PartsComeTogether
<1>2. QED
  BY <1>1, PoolInvariant, AlwaysMerged, PTL

-----------------------------------------------------------------------------
(* The sources of the parts, one after the other *)

\* What the first parts of q make up, for each number of parts.
Joins(f, q, S) ==
  /\ f \in [0..Len(q) -> Seq(S)] /\ f[0] = <<>>
  /\ \A n \in 1..Len(q) : f[n] = f[n - 1] \o q[n]

LEMMA JoinsExist ==
  ASSUME NEW S, NEW q \in Seq(Seq(S))
  PROVE  \E f : Joins(f, q, S)
<1>1. PICK N, Q, first : N = Len(q) /\ Q = Seq(S) /\ first = <<>>
  OBVIOUS
<1>2. /\ N \in Nat /\ first \in Q /\ DOMAIN q = 1..N
      /\ \A n \in 1..N : q[n] \in Q
      /\ \A r, t \in Q : r \o t \in Q
      /\ \A r \in Q : first \o r = r
  <2>1. q \in Seq(Q)
    BY <1>1
  <2>2. N \in Nat /\ DOMAIN q = 1..N /\ \A n \in 1..N : q[n] \in Q
    BY <1>1, <2>1
  <2>3. first \in Q
    BY <1>1
  <2>4. (\A r, t \in Q : r \o t \in Q) /\ \A r \in Q : first \o r = r
    BY <1>1
  <2>5. QED
    BY <2>2, <2>3, <2>4
<1>3. PICK step : step = [n \in 1..N |-> [r \in Q |-> r \o q[n]]]
  OBVIOUS
<1>4. \A n \in 1..N : \A r \in Q : r \o q[n] \in Q
  BY <1>2
<1>5. /\ step \in [1..N -> [Q -> Q]]
      /\ \A n \in 1..N : \A r \in Q : step[n][r] = r \o q[n]
  BY <1>3, <1>4
<1>6. PICK f : f = Recursive(N, Q, first, step)
  OBVIOUS
<1>7. f \in [0..N -> Q] /\ f[0] = first /\ \A n \in 1..N : f[n] = step[n][f[n - 1]]
  <2>1. N \in Nat
    BY <1>2
  <2>2. first \in Q
    BY <1>2
  <2>3. step \in [1..N -> [Q -> Q]]
    BY <1>5
  <2>4. f \in [0..N -> Q]
    BY <1>6, <2>1, <2>2, <2>3, RecursionExists
  <2>5. f[0] = first
    BY <1>6, <2>1, <2>2, <2>3, RecursionExists
  <2>6. ASSUME NEW n \in 1..N PROVE f[n] = step[n][f[n - 1]]
    BY <1>6, <2>1, <2>2, <2>3, RecursionExists
  <2>7. QED
    BY <2>4, <2>5, <2>6
<1>8. \A n \in 1..N : n \in 0..N /\ n - 1 \in 0..N /\ (n # 1 => n - 1 \in 1..N)
  BY <1>2
<1>9. \A n \in 1..N : f[n] = f[n - 1] \o q[n]
  BY <1>5, <1>7, <1>8
<1>10. QED
  BY <1>1, <1>7, <1>9 DEF Joins

LOCAL INSTANCE SequencesExt

\* FlattenSeq is the last of its own beginnings.
LEMMA FlattenStepByStep ==
  ASSUME NEW S, NEW q \in Seq(Seq(S))
  PROVE  \E f : Joins(f, q, S) /\ FlattenSeq(q) = f[Len(q)]
<1>1. PICK N, Q, first : N = Len(q) /\ Q = Seq(S) /\ first = <<>>
  OBVIOUS
<1>2. /\ N \in Nat /\ first \in Q /\ DOMAIN q = 1..N
      /\ \A n \in 1..N : q[n] \in Q
      /\ \A r, t \in Q : r \o t \in Q
      /\ \A r \in Q : first \o r = r
  <2>1. q \in Seq(Q)
    BY <1>1
  <2>2. N \in Nat /\ DOMAIN q = 1..N /\ \A n \in 1..N : q[n] \in Q
    BY <1>1, <2>1
  <2>3. first \in Q
    BY <1>1
  <2>4. (\A r, t \in Q : r \o t \in Q) /\ \A r \in Q : first \o r = r
    BY <1>1
  <2>5. QED
    BY <2>2, <2>3, <2>4
<1>6. PICK f : Joins(f, q, S)
  BY JoinsExist
<1>7. f \in [0..N -> Q] /\ f[0] = first /\ \A n \in 1..N : f[n] = f[n - 1] \o q[n]
  BY <1>1, <1>6 DEF Joins
<1>8. \A n \in 1..N : n \in 0..N /\ n - 1 \in 0..N /\ (n # 1 => n - 1 \in 1..N)
  BY <1>2
<1>9. \A n \in 1..N : f[n] = f[n - 1] \o q[n]
  BY <1>7
<1>10. CASE N = 0
  <2>1. FlattenSeq(q) = <<>>
    <3>1. q = <<>>
      <4>1. q \in Seq(Q) /\ Len(q) = 0
        BY <1>1, <1>10
      <4>2. QED
        BY <4>1
    <3>2. FlattenSeq(q) = q
      BY <1>1, <1>10 DEF FlattenSeq
    <3>3. QED
      BY <3>1, <3>2
  <2>2. QED
    BY <1>1, <1>7, <1>9, <1>10, <2>1 DEF Joins
<1>11. CASE N # 0
  <2> DEFINE Is(h) == h = [i \in 1..Len(q) |-> IF i = 1 THEN q[i] ELSE h[i - 1] \o q[i]]
  <2>1. PICK g : g = [i \in 1..N |-> f[i]]
    OBVIOUS
  <2>2. \A i \in 1..N : g[i] = IF i = 1 THEN q[i] ELSE g[i - 1] \o q[i]
    <3> TAKE i \in 1..N
    <3>1. g[i] = f[i - 1] \o q[i]
      BY <1>9, <2>1
    <3>2. CASE i = 1
      <4>1. f[i - 1] = first /\ q[i] \in Q
        BY <1>2, <1>7, <3>2
      <4>2. first \o q[i] = q[i]
        BY <1>2, <4>1
      <4>3. QED
        BY <3>1, <3>2, <4>1, <4>2
    <3>3. CASE i # 1
      BY <1>8, <2>1, <3>1, <3>3
    <3>4. QED
      BY <3>2, <3>3
  <2>3. Is(g)
    <3>1. g = [i \in 1..N |-> g[i]]
      BY <2>1
    <3>2. QED
      BY <1>1, <2>2, <3>1
  <2>4. PICK h : h = (CHOOSE k : Is(k))
    OBVIOUS
  <2>5. Is(h)
    BY <2>3, <2>4
  <2>6. FlattenSeq(q) = h[N]
    BY <1>1, <1>11, <2>4 DEF FlattenSeq
  <2>7. \A i \in 1..N : h[i] = IF i = 1 THEN q[i] ELSE h[i - 1] \o q[i]
    BY <1>1, <2>5
  <2> HIDE DEF Is
  <2> DEFINE T == {i \in 0..N : i = 0 \/ h[i] = f[i]}
  <2>8. 0 \in T
    BY <1>2
  <2>9. ASSUME NEW i \in 1..N, i - 1 \in T PROVE i \in T
    <3>1. i - 1 = 0 \/ h[i - 1] = f[i - 1]
      BY <2>9
    <3>2. f[i] = f[i - 1] \o q[i]
      BY <1>9
    <3>3. CASE i = 1
      <4>0. f[i - 1] = first /\ q[i] \in Q
        BY <1>2, <1>7, <3>3
      <4>1. f[i - 1] = first /\ q[i] \in Q /\ h[i] = q[i]
        BY <2>7, <3>3, <4>0
      <4>2. first \o q[i] = q[i]
        BY <1>2, <4>1
      <4>3. QED
        BY <1>8, <3>2, <4>1, <4>2
    <3>4. CASE i # 1
      <4>1. h[i] = h[i - 1] \o q[i]
        BY <2>7, <3>4
      <4>2. i - 1 # 0
        BY <3>4
      <4>3. h[i] = f[i]
        BY <3>1, <3>2, <4>1, <4>2
      <4>4. QED
        BY <1>8, <4>3
    <3>5. QED
      BY <3>3, <3>4
  <2> HIDE DEF T
  <2>10. N \in T
    <3>1. 0..N \subseteq T
      BY <1>2, <2>8, <2>9, UpTo
    <3>2. QED
      BY <1>2, <3>1
  <2>11. h[N] = f[N]
    BY <1>11, <2>10 DEF T
  <2>12. QED
    BY <1>1, <1>7, <1>9, <2>6, <2>11 DEF Joins
<1>12. QED
  BY <1>10, <1>11

\* The k-th of the i-th part stands behind what the parts before make up, and
\* nothing else is there.
Placed(f, q, S) ==
  /\ \A i \in 0..Len(q) : f[i] \in Seq(S)
  /\ \A i \in 1..Len(q) : Len(f[i]) = Len(f[i - 1]) + Len(q[i])
  /\ \A i, j \in 0..Len(q) : i <= j => Len(f[i]) <= Len(f[j])
  /\ \A i \in 1..Len(q) : \A k \in 1..Len(q[i]) :
       /\ Len(f[i - 1]) + k \in 1..Len(f[Len(q)])
       /\ f[Len(q)][Len(f[i - 1]) + k] = q[i][k]
  /\ \A p \in 1..Len(f[Len(q)]) :
       \E i \in 1..Len(q) : \E k \in 1..Len(q[i]) : p = Len(f[i - 1]) + k

LEMMA WhatStandsWhere ==
  ASSUME NEW S, NEW q \in Seq(Seq(S)), NEW f, Joins(f, q, S)
  PROVE  Placed(f, q, S)
<1>1. PICK N, Q : N = Len(q) /\ Q = Seq(S)
  OBVIOUS
<1>2. /\ N \in Nat /\ \A n \in 1..N : q[n] \in Q
      /\ f \in [0..N -> Q] /\ f[0] = <<>>
      /\ \A n \in 1..N : f[n] = f[n - 1] \o q[n]
  <2>1. q \in Seq(Q)
    BY <1>1
  <2>2. N \in Nat /\ \A n \in 1..N : q[n] \in Q
    BY <1>1, <2>1
  <2>3. QED
    BY <1>1, <2>2 DEF Joins
<1>3. \A n \in 1..N : n \in 0..N /\ n - 1 \in 0..N
  BY <1>2
\* Lengths, and each beginning in the next.
<1>4. PICK len : len = [n \in 0..N |-> Len(f[n])]
  OBVIOUS
<1>5. \A n \in 0..N : len[n] = Len(f[n]) /\ len[n] \in Nat /\ f[n] \in Seq(S)
  <2>1. \A n \in 0..N : f[n] \in Seq(S)
    BY <1>1, <1>2
  <2>2. \A n \in 0..N : Len(f[n]) \in Nat
    BY <2>1
  <2>3. QED
    BY <1>4, <2>1, <2>2
<1>6. PICK size : size = [n \in 1..N |-> Len(q[n])]
  OBVIOUS
<1>7. \A n \in 1..N : size[n] = Len(q[n]) /\ size[n] \in Nat
  BY <1>1, <1>2, <1>6
<1>8. ASSUME NEW n \in 1..N
      PROVE  /\ len[n] = len[n - 1] + size[n]
             /\ \A k \in 1..len[n - 1] : f[n][k] = f[n - 1][k]
             /\ \A k \in 1..size[n] : f[n][len[n - 1] + k] = q[n][k]
  <2>1. PICK a, b : a = f[n - 1] /\ b = q[n]
    OBVIOUS
  <2>2. a \in Seq(S) /\ b \in Seq(S) /\ f[n] = a \o b
    BY <1>1, <1>2, <1>3, <2>1
  <2>3. /\ Len(f[n]) = Len(a) + Len(b)
        /\ \A k \in 1..Len(a) : f[n][k] = a[k]
        /\ \A k \in 1..Len(b) : f[n][Len(a) + k] = b[k]
    BY <2>2
  <2>4. len[n] = Len(f[n]) /\ len[n - 1] = Len(a) /\ size[n] = Len(b)
    BY <1>3, <1>5, <1>7, <2>1
  <2>5. QED
    BY <2>1, <2>3, <2>4
<1>9. len[0] = 0
  BY <1>2, <1>5
<1> DEFINE T == {m \in 0..N :
                   /\ \A i \in 0..m : len[i] <= len[m]
                   /\ \A i \in 1..m, k \in Nat : k \in 1..size[i] =>
                        /\ len[i - 1] + k \in 1..len[m]
                        /\ f[m][len[i - 1] + k] = q[i][k]
                   /\ \A p \in 1..len[m] :
                        \E i \in 1..m, k \in Nat : k \in 1..size[i] /\ p = len[i - 1] + k}
<1>10. 0 \in T
  BY <1>2, <1>5, <1>9
<1>11. ASSUME NEW m \in 1..N, m - 1 \in T PROVE m \in T
  <2>1. /\ len[m] = len[m - 1] + size[m] /\ len[m] \in Nat /\ len[m - 1] \in Nat /\ size[m] \in Nat
        /\ m \in Nat /\ m - 1 \in Nat
    BY <1>2, <1>3, <1>5, <1>7, <1>8
  <2>2. \A i \in 0..m : i = m \/ i \in 0..(m - 1)
    BY <2>1
  <2>3. \A i \in 0..m : len[i] <= len[m]
    <3> TAKE i \in 0..m
    <3>1. CASE i = m
      BY <2>1, <3>1
    <3>2. CASE i \in 0..(m - 1)
      <4>1. len[i] <= len[m - 1] /\ len[i] \in Nat
        <5>1. i \in 0..N
          BY <1>2
        <5>2. QED
          BY <1>5, <1>11, <3>2, <5>1
      <4>2. QED
        BY <2>1, <4>1
    <3>3. QED
      BY <2>2, <3>1, <3>2
  <2>4. ASSUME NEW i \in 1..m, NEW k \in Nat, k \in 1..size[i]
        PROVE  len[i - 1] + k \in 1..len[m] /\ f[m][len[i - 1] + k] = q[i][k]
    <3>1. CASE i = m
      <4>1. f[m][len[m - 1] + k] = q[m][k]
        BY <1>8, <2>4, <3>1
      <4>2. QED
        BY <2>1, <2>4, <3>1, <4>1
    <3>2. CASE i # m
      <4>1. i \in 1..(m - 1)
        BY <2>1, <3>2
      <4>2. len[i - 1] + k \in 1..len[m - 1] /\ f[m - 1][len[i - 1] + k] = q[i][k]
        BY <1>11, <2>4, <4>1
      <4>3. f[m][len[i - 1] + k] = f[m - 1][len[i - 1] + k]
        BY <1>8, <4>2
      <4>4. QED
        BY <2>1, <4>2, <4>3
    <3>3. QED
      BY <3>1, <3>2
  <2>5. ASSUME NEW p \in 1..len[m]
        PROVE  \E i \in 1..m, k \in Nat : k \in 1..size[i] /\ p = len[i - 1] + k
    <3>1. CASE p <= len[m - 1]
      <4>1. p \in 1..len[m - 1]
        BY <2>1, <3>1
      <4>2. PICK i \in 1..(m - 1), k \in Nat : k \in 1..size[i] /\ p = len[i - 1] + k
        BY <1>11, <4>1
      <4>3. i \in 1..m
        BY <2>1
      <4>4. QED
        BY <4>2, <4>3
    <3>2. CASE ~(p <= len[m - 1])
      <4>1. p - len[m - 1] \in Nat /\ p - len[m - 1] \in 1..size[m] /\ p = len[m - 1] + (p - len[m - 1])
        BY <2>1, <3>2
      <4>2. m \in 1..m
        BY <2>1
      <4>3. QED
        BY <4>1, <4>2
    <3>3. QED
      BY <3>1, <3>2
  <2>6. QED
    BY <1>3, <2>3, <2>4, <2>5
<1>12. \A m \in 0..N : m \in T
  <2> HIDE DEF T
  <2>1. 0..N \subseteq T
    BY <1>2, <1>10, <1>11, UpTo
  <2>2. QED
    BY <2>1
<1>13. \A i, j \in 0..N : i <= j => len[i] <= len[j]
  <2> TAKE i, j \in 0..N
  <2>1. i <= j => i \in 0..j
    BY <1>2
  <2>2. \A h \in 0..j : len[h] <= len[j]
    BY <1>12
  <2>3. QED
    BY <2>1, <2>2
<1>14. N \in 0..N
  BY <1>2
<1>15. \A i \in 1..N : \A k \in 1..Len(q[i]) :
         /\ Len(f[i - 1]) + k \in 1..Len(f[N])
         /\ f[N][Len(f[i - 1]) + k] = q[i][k]
  <2> TAKE i \in 1..N
  <2> TAKE k \in 1..Len(q[i])
  <2>1. k \in Nat /\ k \in 1..size[i] /\ i - 1 \in 0..N
    BY <1>3, <1>7
  <2>2. len[i - 1] + k \in 1..len[N] /\ f[N][len[i - 1] + k] = q[i][k]
    BY <1>12, <1>14, <2>1
  <2>3. QED
    BY <1>5, <1>14, <2>1, <2>2
<1>16. \A p \in 1..Len(f[N]) : \E i \in 1..N : \E k \in 1..Len(q[i]) : p = Len(f[i - 1]) + k
  <2> TAKE p \in 1..Len(f[N])
  <2>1. p \in 1..len[N]
    BY <1>5, <1>14
  <2>2. PICK i \in 1..N, k \in Nat : k \in 1..size[i] /\ p = len[i - 1] + k
    BY <1>12, <1>14, <2>1
  <2>3. k \in 1..Len(q[i]) /\ len[i - 1] = Len(f[i - 1])
    BY <1>3, <1>5, <1>7, <2>2
  <2>4. QED
    BY <2>2, <2>3
<1>17. \A i \in 1..N : Len(f[i]) = Len(f[i - 1]) + Len(q[i])
  BY <1>3, <1>5, <1>7, <1>8
<1>18. \A i, j \in 0..N : i <= j => Len(f[i]) <= Len(f[j])
  BY <1>5, <1>13
<1>19. QED
  <2>1. \A i \in 0..N : f[i] \in Seq(S)
    BY <1>5
  <2>2. QED
    BY <1>1, <1>15, <1>16, <1>17, <1>18, <2>1 DEF Placed

\* Has, Part and Rank of SourcesInQuestionOrder.
HasSource(i, d) == \E k \in DOMAIN subs[i].sources : subs[i].sources[k] = d
PartOf(d) == CHOOSE i \in DOMAIN subs : HasSource(i, d) /\ \A j \in 1..(i - 1) : ~HasSource(j, d)
RankOf(d) == CHOOSE k \in DOMAIN subs[PartOf(d)].sources : subs[PartOf(d)].sources[k] = d

\* The hits of a retrieval are different documents.
LEMMA HitsDiffer ==
  ASSUME NEW h \in Hits
  PROVE  h \in Seq(Doc) /\ \A k, l \in DOMAIN h : h[k] = h[l] => k = l
<1>1. CASE h = <<>>
  BY <1>1
<1>2. ASSUME NEW d \in Doc, h = <<d>>
      PROVE  h \in Seq(Doc) /\ \A k, l \in DOMAIN h : h[k] = h[l] => k = l
  <2>1. DOMAIN h = 1..1 /\ h \in Seq(Doc)
    BY <1>2
  <2>2. \A k, l \in 1..1 : k = l
    OBVIOUS
  <2>3. QED
    BY <2>1, <2>2
<1>3. ASSUME h \in Doc \X Doc, h[1] # h[2]
      PROVE  h \in Seq(Doc) /\ \A k, l \in DOMAIN h : h[k] = h[l] => k = l
  <2>0. PICK a \in Doc, b \in Doc : h = <<a, b>>
    BY <1>3
  <2>1. DOMAIN h = {1, 2} /\ h \in Seq(Doc)
    BY <2>0
  <2>2. QED
    BY <1>3, <2>1
<1>4. QED
  BY <1>1, <1>2, <1>3 DEF Hits

\* The first part that has d, and its place there.
LEMMA PartAndRank ==
  ASSUME subs \in Seq(SubType), NEW d, NEW i \in DOMAIN subs, HasSource(i, d)
  PROVE  /\ PartOf(d) \in DOMAIN subs /\ PartOf(d) <= i
         /\ RankOf(d) \in DOMAIN subs[PartOf(d)].sources
         /\ subs[PartOf(d)].sources[RankOf(d)] = d
<1> DEFINE P == {j \in DOMAIN subs : HasSource(j, d)}
<1>1. P \in SUBSET Nat /\ i \in P
  OBVIOUS
<1>2. PICK p \in P : \A j \in P : p <= j
  BY <1>1, LeastNumber
<1>3. DOMAIN subs = 1..Len(subs) /\ Len(subs) \in Nat
  OBVIOUS
<1>4. HasSource(p, d) /\ \A j \in 1..(p - 1) : ~HasSource(j, d)
  <2> SUFFICES ASSUME NEW j \in 1..(p - 1), HasSource(j, d) PROVE FALSE
    OBVIOUS
  <2>1. p \in 1..Len(subs)
    BY <1>3
  <2>2. j \in 1..Len(subs) /\ ~(p <= j)
    BY <1>3, <2>1
  <2>3. j \in P
    BY <1>3, <2>2
  <2>4. QED
    BY <1>2, <2>2, <2>3
<1>5. PICK q : q = PartOf(d)
  OBVIOUS
<1>6. q \in DOMAIN subs /\ HasSource(q, d) /\ \A j \in 1..(q - 1) : ~HasSource(j, d)
  BY <1>4, <1>5 DEF PartOf
<1>7. q <= i
  <2>1. q \in Int /\ i \in Nat /\ i >= 1
    BY <1>3, <1>6
  <2>2. ~(q <= i) => i \in 1..(q - 1)
    BY <2>1
  <2>3. QED
    BY <1>6, <2>2
<1>8. RankOf(d) \in DOMAIN subs[q].sources /\ subs[q].sources[RankOf(d)] = d
  BY <1>5, <1>6 DEF HasSource, RankOf
<1>9. QED
  BY <1>5, <1>6, <1>7, <1>8

\* What is merged of the sources stands in the order of the parts.
LEMMA MergedInOrder ==
  ASSUME subs \in Seq(SubType), NEW out, out = MergeSubtaskState(subs).sources
  PROVE  /\ \A d : (\E n \in DOMAIN out : out[n] = d) <=> \E i \in DOMAIN subs : HasSource(i, d)
         /\ \A m, n \in DOMAIN out : m < n =>
              \/ PartOf(out[m]) < PartOf(out[n])
              \/ PartOf(out[m]) = PartOf(out[n]) /\ RankOf(out[m]) < RankOf(out[n])
<1>1. PICK q, N : q = [i \in DOMAIN subs |-> subs[i].sources] /\ N = Len(subs)
  OBVIOUS
<1>2. \A i \in DOMAIN subs : subs[i].sources \in Hits
  <2>1. \A i \in DOMAIN subs : subs[i] \in SubType
    OBVIOUS
  <2>2. QED
    BY <2>1 DEF SubType
<1>3. DOMAIN subs = 1..N /\ N \in Nat
  BY <1>1
<1>4. /\ \A i \in 1..N : q[i] = subs[i].sources
      /\ \A i \in 1..N : q[i] \in Seq(Doc)
      /\ \A i \in 1..N : \A k, l \in DOMAIN q[i] : q[i][k] = q[i][l] => k = l
  <2>1. \A i \in 1..N : q[i] = subs[i].sources /\ q[i] \in Hits
    BY <1>1, <1>2, <1>3
  <2>2. QED
    BY <2>1, HitsDiffer
<1>5. q \in Seq(Seq(Doc)) /\ Len(q) = N
  <2>1. PICK S : S = Seq(Doc)
    OBVIOUS
  <2>2. q = [i \in 1..N |-> q[i]] /\ \A i \in 1..N : q[i] \in S
    BY <1>1, <1>3, <1>4, <2>1
  <2>3. q \in [1..N -> S]
    BY <2>2
  <2>4. q \in Seq(S) /\ Len(q) = N
    BY <1>3, <2>3
  <2>5. QED
    BY <2>1, <2>4
<1>6. PICK f : Joins(f, q, Doc) /\ FlattenSeq(q) = f[Len(q)]
  BY <1>5, FlattenStepByStep
<1>7. PICK flat, len : flat = f[N] /\ len = [i \in 0..N |-> Len(f[i])]
  OBVIOUS
<1>8. /\ \A i \in 0..N : f[i] \in Seq(Doc)
      /\ \A i \in 1..N : Len(f[i]) = Len(f[i - 1]) + Len(q[i])
      /\ \A i, j \in 0..N : i <= j => Len(f[i]) <= Len(f[j])
      /\ \A i \in 1..N : \A k \in 1..Len(q[i]) :
           /\ Len(f[i - 1]) + k \in 1..Len(f[N])
           /\ f[N][Len(f[i - 1]) + k] = q[i][k]
      /\ \A p \in 1..Len(f[N]) : \E i \in 1..N : \E k \in 1..Len(q[i]) : p = Len(f[i - 1]) + k
  <2>0. q \in Seq(Seq(Doc))
    BY <1>5
  <2>1. Joins(f, q, Doc)
    BY <1>6
  <2>2. Placed(f, q, Doc)
    BY <2>0, <2>1, WhatStandsWhere
  <2>3. Len(q) = N
    BY <1>5
  <2>4. QED
    BY <2>2, <2>3 DEF Placed
<1>9. /\ flat \in Seq(Doc) /\ DOMAIN flat = 1..Len(flat) /\ Len(flat) \in Nat
      /\ \A i \in 1..N : i - 1 \in 0..N /\ i \in 0..N
      /\ \A i \in 0..N : len[i] = Len(f[i]) /\ len[i] \in Nat
      /\ \A i \in 1..N : DOMAIN q[i] = 1..Len(q[i]) /\ Len(q[i]) \in Nat
  <2>1. N \in 0..N
    BY <1>3
  <2>2. \A i \in 0..N : Len(f[i]) \in Nat
    BY <1>8
  <2>3. flat \in Seq(Doc)
    BY <1>7, <1>8, <2>1
  <2>4. DOMAIN flat = 1..Len(flat) /\ Len(flat) \in Nat
    BY <2>3
  <2>5. \A i \in 0..N : len[i] = Len(f[i]) /\ len[i] \in Nat
    BY <1>7, <2>2
  <2>6. \A i \in 1..N : i - 1 \in 0..N /\ i \in 0..N
    BY <1>3
  <2>7. \A i \in 1..N : DOMAIN q[i] = 1..Len(q[i]) /\ Len(q[i]) \in Nat
    BY <1>4
  <2>8. QED
    BY <2>3, <2>4, <2>5, <2>6, <2>7
\* Every place of flat is one of a part, and the places are in order.
<1>10. /\ \A i \in 1..N : \A k \in DOMAIN q[i] :
            len[i - 1] + k \in DOMAIN flat /\ flat[len[i - 1] + k] = q[i][k]
       /\ \A p \in DOMAIN flat : \E i \in 1..N : \E k \in DOMAIN q[i] : p = len[i - 1] + k
  <2>1. DOMAIN flat = 1..Len(f[N]) /\ flat = f[N]
    BY <1>7, <1>9
  <2>2. \A i \in 1..N : len[i - 1] = Len(f[i - 1]) /\ DOMAIN q[i] = 1..Len(q[i])
    BY <1>9
  <2>3. ASSUME NEW i \in 1..N, NEW k \in DOMAIN q[i]
        PROVE  len[i - 1] + k \in DOMAIN flat /\ flat[len[i - 1] + k] = q[i][k]
    <3>1. k \in 1..Len(q[i]) /\ len[i - 1] = Len(f[i - 1])
      BY <2>2
    <3>2. Len(f[i - 1]) + k \in 1..Len(f[N]) /\ f[N][Len(f[i - 1]) + k] = q[i][k]
      BY <1>8, <3>1
    <3>3. QED
      BY <2>1, <3>1, <3>2
  <2>4. ASSUME NEW p \in DOMAIN flat
        PROVE  \E i \in 1..N : \E k \in DOMAIN q[i] : p = len[i - 1] + k
    <3>1. p \in 1..Len(f[N])
      BY <2>1
    <3>2. PICK i \in 1..N : \E k \in 1..Len(q[i]) : p = Len(f[i - 1]) + k
      BY <1>8, <3>1
    <3>3. \E k \in DOMAIN q[i] : p = len[i - 1] + k
      BY <2>2, <3>2
    <3>4. QED
      BY <3>3
  <2>5. QED
    BY <2>3, <2>4
<1>11. \A i, j \in 1..N : i < j => \A k \in DOMAIN q[i], l \in DOMAIN q[j] : len[i - 1] + k < len[j - 1] + l
  <2> TAKE i, j \in 1..N
  <2> SUFFICES ASSUME i < j, NEW k \in DOMAIN q[i], NEW l \in DOMAIN q[j]
               PROVE  len[i - 1] + k < len[j - 1] + l
    OBVIOUS
  <2>1. len[i] = len[i - 1] + Len(q[i])
    BY <1>8, <1>9
  <2>2. i <= j - 1 /\ i \in 0..N /\ j - 1 \in 0..N
    BY <1>3
  <2>3. len[i] <= len[j - 1]
    BY <1>8, <1>9, <2>2
  <2>4. k <= Len(q[i]) /\ k \in Nat /\ l \in Nat /\ l >= 1
    BY <1>9
  <2>5. len[i] \in Nat /\ len[i - 1] \in Nat /\ len[j - 1] \in Nat /\ Len(q[i]) \in Nat
    BY <1>9
  <2>6. QED
    BY <2>1, <2>3, <2>4, <2>5
\* A document of a part stands in flat first where its part and rank say.
<1>12. ASSUME NEW d, NEW p \in FirstPlaces(flat), flat[p] = d
       PROVE  /\ PartOf(d) \in 1..N /\ RankOf(d) \in DOMAIN q[PartOf(d)]
              /\ p = len[PartOf(d) - 1] + RankOf(d)
  <2>0. PICK i \in 1..N : \E k \in DOMAIN q[i] : p = len[i - 1] + k
    <3>1. p \in DOMAIN flat
      BY DEF FirstPlaces
    <3>2. QED
      BY <1>10, <3>1
  <2>1. PICK k \in DOMAIN q[i] : p = len[i - 1] + k
    BY <2>0
  <2>2. q[i][k] = d
    BY <1>10, <1>12, <2>1
  <2>3. HasSource(i, d) /\ i \in DOMAIN subs
    BY <1>3, <1>4, <2>2 DEF HasSource
  <2>4. PICK a, b : a = PartOf(d) /\ b = RankOf(d)
    OBVIOUS
  <2>5. a \in 1..N /\ a <= i /\ b \in DOMAIN q[a] /\ q[a][b] = d
    BY <1>3, <1>4, <2>3, <2>4, PartAndRank
  <2>6. CASE a < i
    <3>1. len[a - 1] + b < len[i - 1] + k
      BY <1>11, <2>1, <2>5, <2>6
    <3>2. len[a - 1] + b \in DOMAIN flat /\ flat[len[a - 1] + b] = d
      BY <1>10, <2>5
    <3>3. len[a - 1] + b \in 1..(p - 1)
      <4>1. p \in Int /\ len[a - 1] + b \in Nat /\ len[a - 1] + b >= 1
        BY <1>9, <3>2 DEF FirstPlaces
      <4>2. QED
        BY <2>1, <3>1, <4>1
    <3>4. QED
      BY <1>12, <3>2, <3>3 DEF FirstPlaces
  <2>7. CASE a = i
    <3>1. b = k
      BY <1>4, <2>2, <2>5, <2>7
    <3>2. QED
      BY <2>1, <2>4, <2>5, <2>7, <3>1
  <2>8. QED
    <3>1. a \in Int /\ i \in Int
      BY <2>5
    <3>2. QED
      BY <2>5, <2>6, <2>7, <3>1
<1>13. out = Firsts(flat)
  BY <1>1, <1>5, <1>6, <1>7 DEF MergeSubtaskState
<1>14. PICK pos \in [1..Len(out) -> FirstPlaces(flat)] :
         /\ out \in Seq(Doc)
         /\ \A n \in 1..Len(out) : out[n] = flat[pos[n]]
         /\ \A m, n \in 1..Len(out) : m < n => pos[m] < pos[n]
         /\ \A i \in FirstPlaces(flat) : \E n \in 1..Len(out) : pos[n] = i
  BY <1>9, <1>13, FirstsFacts
<1>15. DOMAIN out = 1..Len(out) /\ Len(out) \in Nat
  BY <1>14
<1>16. ASSUME NEW d, NEW n \in DOMAIN out, out[n] = d
       PROVE  \E i \in DOMAIN subs : HasSource(i, d)
  <2>1. pos[n] \in DOMAIN flat /\ flat[pos[n]] = d
    BY <1>14, <1>15, <1>16 DEF FirstPlaces
  <2>2. PICK i \in 1..N : \E k \in DOMAIN q[i] : pos[n] = len[i - 1] + k
    BY <1>10, <2>1
  <2>3. PICK k \in DOMAIN q[i] : q[i][k] = d
    BY <1>10, <2>1, <2>2
  <2>4. i \in DOMAIN subs /\ q[i] = subs[i].sources
    BY <1>3, <1>4
  <2>5. HasSource(i, d)
    BY <2>3, <2>4 DEF HasSource
  <2>6. QED
    BY <2>4, <2>5
<1>17. ASSUME NEW d, NEW i \in DOMAIN subs, HasSource(i, d)
       PROVE  \E n \in DOMAIN out : out[n] = d
  <2>1. PICK k \in DOMAIN q[i] : q[i][k] = d
    BY <1>3, <1>4, <1>17 DEF HasSource
  <2>2. PICK p : p = len[i - 1] + k
    OBVIOUS
  <2>3. p \in DOMAIN flat /\ flat[p] = d
    BY <1>3, <1>10, <2>1, <2>2
  <2>4. PICK o \in FirstPlaces(flat) : flat[o] = d
    BY <1>9, <2>3, EveryValueIsFirst
  <2>5. PICK n \in 1..Len(out) : pos[n] = o
    BY <1>14
  <2>6. QED
    BY <1>14, <1>15, <2>4, <2>5
<1>18. ASSUME NEW m \in DOMAIN out, NEW n \in DOMAIN out, m < n
       PROVE  \/ PartOf(out[m]) < PartOf(out[n])
              \/ PartOf(out[m]) = PartOf(out[n]) /\ RankOf(out[m]) < RankOf(out[n])
  <2>1. PICK a, b, c, e : a = PartOf(out[m]) /\ b = RankOf(out[m]) /\ c = PartOf(out[n]) /\ e = RankOf(out[n])
    OBVIOUS
  <2>2. /\ a \in 1..N /\ b \in DOMAIN q[a] /\ pos[m] = len[a - 1] + b
        /\ c \in 1..N /\ e \in DOMAIN q[c] /\ pos[n] = len[c - 1] + e
    BY <1>12, <1>14, <1>15, <2>1
  <2>3. pos[m] < pos[n]
    BY <1>14, <1>15, <1>18
  <2>4. /\ a \in Int /\ c \in Int /\ b \in Int /\ e \in Int
        /\ len[a - 1] \in Int /\ len[c - 1] \in Int
    <3>1. len[a - 1] \in Nat /\ len[c - 1] \in Nat
      BY <1>9, <2>2
    <3>2. b \in 1..Len(q[a]) /\ e \in 1..Len(q[c])
      BY <1>9, <2>2
    <3>3. QED
      BY <2>2, <3>1, <3>2
  <2>5. ~(c < a)
    <3> SUFFICES ASSUME c < a PROVE FALSE
      OBVIOUS
    <3>1. len[c - 1] + e < len[a - 1] + b
      BY <1>11, <2>2
    <3>2. QED
      BY <2>2, <2>3, <2>4, <3>1
  <2>6. a = c => b < e
    BY <2>2, <2>3, <2>4
  <2>7. QED
    BY <2>1, <2>4, <2>5, <2>6
<1>19. QED
  BY <1>16, <1>17, <1>18

\* Threads end in any order, yet the sources shown are those of the first part in
\* the order of its hits, then what the second adds (merge_subtask_state).
THEOREM SourcesKeepTheOrder == Spec => []SourcesInQuestionOrder
<1>1. PoolInv /\ MergeInv => SourcesInQuestionOrder
  <2>1. ASSUME PoolInv, MergeInv, phase = "done" PROVE SourcesInQuestionOrder
    <3>1. subs \in Seq(SubType) /\ merged = MergeSubtaskState(subs)
      BY <2>1 DEF PoolInv, MergeInv
    <3>2. PICK out : out = merged.sources
      OBVIOUS
    <3>3. /\ \A d : (\E n \in DOMAIN out : out[n] = d) <=> \E i \in DOMAIN subs : HasSource(i, d)
          /\ \A m, n \in DOMAIN out : m < n =>
               \/ PartOf(out[m]) < PartOf(out[n])
               \/ PartOf(out[m]) = PartOf(out[n]) /\ RankOf(out[m]) < RankOf(out[n])
      BY <3>1, <3>2, MergedInOrder
    <3>4. /\ \A d \in Doc : (\E n \in DOMAIN merged.sources : merged.sources[n] = d)
                            <=> \E i \in DOMAIN subs : HasSource(i, d)
          /\ \A m, n \in DOMAIN merged.sources : m < n =>
               \/ PartOf(merged.sources[m]) < PartOf(merged.sources[n])
               \/ /\ PartOf(merged.sources[m]) = PartOf(merged.sources[n])
                  /\ RankOf(merged.sources[m]) < RankOf(merged.sources[n])
      BY <3>2, <3>3
    <3>5. QED
      BY <3>4 DEF SourcesInQuestionOrder, HasSource, PartOf, RankOf
  <2>2. phase # "done" => SourcesInQuestionOrder
    BY DEF SourcesInQuestionOrder
  <2>3. QED
    BY <2>1, <2>2
<1>2. QED
  BY <1>1, PoolInvariant, AlwaysMerged, PTL

-----------------------------------------------------------------------------
(* One search *)

-----------------------------------------------------------------------------
(* Sets in an order *)

Strict(S, R) ==
  /\ \A x \in S : <<x, x>> \notin R
  /\ \A x, y, z \in S : <<x, y>> \in R /\ <<y, z>> \in R => <<x, z>> \in R
  /\ \A x, y \in S : x # y => <<x, y>> \in R \/ <<y, x>> \in R

\* The members of S before x.
Before(S, R, x) == {y \in S : <<y, x>> \in R}

LEMMA CountsGrow ==
  ASSUME NEW S, IsFiniteSet(S), NEW R, Strict(S, R)
  PROVE  /\ Cardinality(S) \in Nat
         /\ \A x \in S : Cardinality(Before(S, R, x)) + 1 \in 1..Cardinality(S)
         /\ \A x, y \in S : <<x, y>> \in R =>
              Cardinality(Before(S, R, x)) < Cardinality(Before(S, R, y))
<1>1. \A T \in SUBSET S : IsFiniteSet(T) /\ Cardinality(T) \in Nat /\ Cardinality(T) <= Cardinality(S)
  BY FS_Subset, FS_CardinalityType
<1>2. \A x \in S : Before(S, R, x) \in SUBSET S /\ x \notin Before(S, R, x)
  BY DEF Before, Strict
<1>3. \A x \in S : Before(S, R, x) \cup {x} \in SUBSET S
  BY <1>2
<1>4. \A x \in S : Cardinality(Before(S, R, x) \cup {x}) = Cardinality(Before(S, R, x)) + 1
  BY <1>1, <1>2, FS_AddElement
<1>5. Cardinality(S) \in Nat
  BY FS_CardinalityType
<1>6. \A x \in S : Cardinality(Before(S, R, x)) + 1 \in 1..Cardinality(S)
  <2> TAKE x \in S
  <2>1. Cardinality(Before(S, R, x)) + 1 <= Cardinality(S)
    BY <1>1, <1>3, <1>4
  <2>2. Cardinality(Before(S, R, x)) \in Nat
    BY <1>1, <1>2
  <2>3. QED
    BY <1>5, <2>1, <2>2
<1>7. ASSUME NEW x \in S, NEW y \in S, <<x, y>> \in R
      PROVE  Cardinality(Before(S, R, x)) < Cardinality(Before(S, R, y))
  <2>1. \A z \in S : <<z, x>> \in R => <<z, y>> \in R
    BY <1>7 DEF Strict
  <2>2. Before(S, R, x) \cup {x} \subseteq Before(S, R, y)
    BY <1>7, <2>1 DEF Before
  <2>3. Cardinality(Before(S, R, x) \cup {x}) <= Cardinality(Before(S, R, y))
    BY <1>1, <1>2, <2>2, FS_Subset
  <2>4. Cardinality(Before(S, R, x)) \in Nat /\ Cardinality(Before(S, R, y)) \in Nat
    BY <1>1, <1>2
  <2>5. QED
    BY <1>4, <2>3, <2>4
<1>8. QED
  BY <1>5, <1>6, <1>7

\* InOrder lists each member once, and one before another as R says.
LEMMA InOrderFacts ==
  ASSUME NEW S, IsFiniteSet(S), NEW R, Strict(S, R), NEW q, q = InOrder(S, R)
  PROVE  /\ Cardinality(S) \in Nat /\ q \in [1..Cardinality(S) -> S]
         /\ \A x \in S : \E n \in 1..Cardinality(S) : q[n] = x
         /\ \A m, n \in 1..Cardinality(S) : m < n => <<q[m], q[n]>> \in R
<1>1. PICK c : c = Cardinality(S)
  OBVIOUS
<1>2. PICK rank : rank = [x \in S |-> Cardinality(Before(S, R, x)) + 1]
  OBVIOUS
<1>3. c \in Nat /\ rank \in [S -> 1..c]
  BY <1>1, <1>2, CountsGrow
<1>4. \A x, y \in S : <<x, y>> \in R => rank[x] < rank[y]
  <2>1. \A x \in S : Cardinality(Before(S, R, x)) + 1 \in 1..c
    BY <1>1, CountsGrow
  <2>2. \A x \in S : Cardinality(Before(S, R, x)) \in Int
    <3>1. \A x \in S : Before(S, R, x) \in SUBSET S
      BY DEF Before
    <3>2. QED
      BY <3>1, FS_Subset, FS_CardinalityType
  <2>3. ASSUME NEW x \in S, NEW y \in S, <<x, y>> \in R PROVE rank[x] < rank[y]
    <3>1. Cardinality(Before(S, R, x)) < Cardinality(Before(S, R, y))
      BY <2>3, CountsGrow
    <3>2. rank[x] = Cardinality(Before(S, R, x)) + 1 /\ rank[y] = Cardinality(Before(S, R, y)) + 1
      BY <1>2
    <3>3. QED
      BY <2>2, <3>1, <3>2
  <2>4. QED
    BY <2>3
<1>5. \A x, y \in S : rank[x] = rank[y] => x = y
  <2>1. \A x, y \in S : x # y => rank[x] < rank[y] \/ rank[y] < rank[x]
    BY <1>4 DEF Strict
  <2>2. \A x \in S : rank[x] \in Int
    BY <1>3
  <2>3. QED
    BY <2>1, <2>2
<1>6. rank \in Injection(S, 1..c)
  BY <1>3, <1>5 DEF Injection, IsInjective
<1>7. rank \in Surjection(S, 1..c)
  <2>1. IsFiniteSet(1..c) /\ Cardinality(1..c) = c
    BY <1>3, FS_Interval
  <2>2. Cardinality(S) = Cardinality(1..c) <=> rank \in Surjection(S, 1..c)
    BY <1>6, <2>1, FS_Injection
  <2>3. QED
    BY <1>1, <2>1, <2>2
<1>8. \A n \in 1..c : \E x \in S : rank[x] = n
  BY <1>7 DEF Surjection
<1>9. q = [n \in 1..c |-> CHOOSE x \in S : Cardinality(Before(S, R, x)) = n - 1]
  BY <1>1 DEF InOrder, Before
<1>10. \A x \in S, n \in 1..c : Cardinality(Before(S, R, x)) = n - 1 <=> rank[x] = n
  <2>1. \A x \in S : Before(S, R, x) \in SUBSET S
    BY DEF Before
  <2>2. \A x \in S : Cardinality(Before(S, R, x)) \in Int
    BY <2>1, FS_Subset, FS_CardinalityType
  <2>3. QED
    BY <1>2, <2>2
<1>11. \A n \in 1..c : q[n] \in S /\ rank[q[n]] = n
  <2> TAKE n \in 1..c
  <2>1. \E x \in S : Cardinality(Before(S, R, x)) = n - 1
    BY <1>8, <1>10
  <2>2. q[n] = CHOOSE x \in S : Cardinality(Before(S, R, x)) = n - 1
    BY <1>9
  <2>3. q[n] \in S /\ Cardinality(Before(S, R, q[n])) = n - 1
    BY <2>1, <2>2
  <2>4. QED
    BY <1>10, <2>3
<1>12. \A x \in S : \E n \in 1..c : q[n] = x
  <2> TAKE x \in S
  <2>1. rank[x] \in 1..c
    BY <1>3
  <2>2. q[rank[x]] = x
    BY <1>5, <1>11, <2>1
  <2>3. QED
    BY <2>1, <2>2
<1>13. \A m, n \in 1..c : m < n => <<q[m], q[n]>> \in R
  <2> TAKE m, n \in 1..c
  <2> HAVE m < n
  <2>1. q[m] # q[n] /\ ~(n < m)
    BY <1>11
  <2>2. <<q[m], q[n]>> \in R \/ <<q[n], q[m]>> \in R
    BY <1>11, <2>1 DEF Strict
  <2>3. <<q[n], q[m]>> \in R => n < m
    BY <1>4, <1>11
  <2>4. QED
    BY <2>1, <2>2, <2>3
<1>14. q \in [1..c -> S]
  BY <1>9, <1>11
<1>15. QED
  BY <1>1, <1>3, <1>12, <1>13, <1>14

\* t is what s has at the places T, in their order.
Picked(t, s, T, pos) ==
  /\ Len(t) = Cardinality(T) /\ Len(t) \in Nat /\ DOMAIN t = 1..Len(t)
  /\ pos \in [1..Len(t) -> T]
  /\ \A n \in 1..Len(t) : t[n] = s[pos[n]]
  /\ \A m, n \in 1..Len(t) : m < n => pos[m] < pos[n]
  /\ \A i \in T : \E n \in 1..Len(t) : pos[n] = i

LEMMA AtFacts ==
  ASSUME NEW S, NEW s \in Seq(S), NEW T \in SUBSET DOMAIN s, NEW t, t = At(s, T)
  PROVE  t \in Seq(S) /\ \E pos : Picked(t, s, T, pos)
<1>1. PICK R, c, pos : R = {p \in T \X T : p[1] < p[2]} /\ c = Cardinality(T) /\ pos = InOrder(T, R)
  OBVIOUS
<1>2. IsFiniteSet(T) /\ T \in SUBSET Nat
  <2>1. IsFiniteSet(1..Len(s)) /\ DOMAIN s = 1..Len(s)
    BY FS_Interval
  <2>2. QED
    BY <2>1, FS_Subset
<1>3. \A x, y \in T : <<x, y>> \in R <=> x < y
  BY <1>1
<1>4. Strict(T, R)
  <2>1. \A x, y, z \in T : x < y /\ y < z => x < z
    BY <1>2
  <2>2. \A x, y \in T : x # y => x < y \/ y < x
    BY <1>2
  <2>3. \A x \in T : ~(x < x)
    BY <1>2
  <2>4. QED
    BY <1>3, <2>1, <2>2, <2>3 DEF Strict
<1>5. /\ c \in Nat /\ pos \in [1..c -> T]
      /\ \A x \in T : \E n \in 1..c : pos[n] = x
      /\ \A m, n \in 1..c : m < n => <<pos[m], pos[n]>> \in R
  <2>1. IsFiniteSet(T) /\ Strict(T, R) /\ pos = InOrder(T, R)
    BY <1>1, <1>2, <1>4
  <2>2. /\ Cardinality(T) \in Nat /\ pos \in [1..Cardinality(T) -> T]
        /\ \A x \in T : \E n \in 1..Cardinality(T) : pos[n] = x
        /\ \A m, n \in 1..Cardinality(T) : m < n => <<pos[m], pos[n]>> \in R
    BY <2>1, InOrderFacts
  <2>3. c = Cardinality(T)
    BY <1>1
  <2>4. QED
    BY <2>2, <2>3
<1>6. t = [n \in 1..c |-> s[pos[n]]]
  BY <1>1, <1>5 DEF At
<1>7. \A n \in 1..c : s[pos[n]] \in S
  BY <1>5
<1>8. t \in Seq(S) /\ Len(t) = c /\ DOMAIN t = 1..c
  BY <1>5, <1>6, <1>7
<1>9. \A m, n \in 1..c : m < n => pos[m] < pos[n]
  BY <1>3, <1>5
<1>10. Picked(t, s, T, pos)
  BY <1>1, <1>5, <1>6, <1>8, <1>9 DEF Picked
<1>11. QED
  BY <1>8, <1>10

\* Growing places are no earlier than their numbers.
LEMMA PlacesGrow ==
  ASSUME NEW N \in Nat, NEW pos, NEW T \in SUBSET (Nat \ {0}), pos \in [1..N -> T],
         \A m, n \in 1..N : m < n => pos[m] < pos[n]
  PROVE  \A n \in 1..N : n <= pos[n]
<1> TAKE n \in 1..N
<1>1. PICK f : f = [m \in 1..n |-> pos[m]]
  OBVIOUS
<1>2. \A m \in 1..n : m \in 1..N /\ pos[m] \in Nat \ {0}
  <2>1. \A m \in 1..N : pos[m] \in T
    OBVIOUS
  <2>2. \A m \in 1..n : m \in 1..N
    OBVIOUS
  <2>3. QED
    BY <2>1, <2>2
<1>3. \A m \in 1..n : pos[m] <= pos[n]
  <2> TAKE m \in 1..n
  <2>1. m = n \/ m < n
    OBVIOUS
  <2>2. QED
    BY <1>2, <2>1
<1>4. f \in [1..n -> 1..pos[n]]
  BY <1>1, <1>2, <1>3
<1>5. \A i, j \in 1..n : f[i] = f[j] => i = j
  <2>1. \A i, j \in 1..n : i < j => pos[i] < pos[j]
    BY <1>2
  <2>2. \A i, j \in 1..n : i < j \/ j < i \/ i = j
    OBVIOUS
  <2>3. QED
    BY <1>1, <1>2, <2>1, <2>2
<1>6. f \in Injection(1..n, 1..pos[n])
  BY <1>4, <1>5 DEF Injection, IsInjective
<1>7. IsFiniteSet(1..pos[n]) /\ Cardinality(1..pos[n]) = pos[n] /\ Cardinality(1..n) = n
  <2>1. pos[n] \in Nat \ {0}
    BY <1>2
  <2>2. QED
    BY <2>1, FS_Interval
<1>8. QED
  BY <1>6, <1>7, FS_Injection

-----------------------------------------------------------------------------
(* Lists of chunks *)

LEMMA ChunksInList ==
  ASSUME NEW s \in Seq(Chunk)
  PROVE  /\ Len(s) \in Nat /\ DOMAIN s = 1..Len(s)
         /\ \A i \in DOMAIN s : s[i] \in Chunk /\ i \in Nat \ {0} /\ s[i].file \in Files(s)
         /\ \A f \in Files(s) : \E i \in DOMAIN s : s[i].file = f
         /\ IsFiniteSet(Files(s))
<1>1. Len(s) \in Nat /\ DOMAIN s = 1..Len(s)
  OBVIOUS
<1>2. \A i \in DOMAIN s : s[i] \in Chunk /\ i \in Nat \ {0} /\ s[i].file \in Files(s)
  BY DEF Files
<1>3. \A f \in Files(s) : \E i \in DOMAIN s : s[i].file = f
  BY DEF Files
<1>4. IsFiniteSet(Files(s))
  <2>1. IsFiniteSet(1..Len(s)) /\ Cardinality(1..Len(s)) = Len(s)
    BY <1>1, FS_Interval
  <2>2. PICK g : g = [i \in 1..Len(s) |-> s[i].file]
    OBVIOUS
  <2>3. g \in Surjection(1..Len(s), Files(s))
    BY <1>1, <1>2, <1>3, <2>2 DEF Surjection
  <2>4. QED
    BY <2>1, <2>3, FS_Surjection
<1>5. QED
  BY <1>1, <1>2, <1>3, <1>4

LEMMA FirstAtFacts ==
  ASSUME NEW s \in Seq(Chunk), NEW f \in Files(s)
  PROVE  /\ FirstAt(s, f) \in DOMAIN s /\ s[FirstAt(s, f)].file = f
         /\ \A i \in DOMAIN s : s[i].file = f => FirstAt(s, f) <= i
<1>1. PICK T : T = {i \in DOMAIN s : s[i].file = f}
  OBVIOUS
<1>2. T \in SUBSET Nat /\ T # {} /\ DOMAIN s = 1..Len(s) /\ Len(s) \in Nat
  BY <1>1, ChunksInList
<1>3. PICK i \in T : \A j \in T : i <= j
  BY <1>2, LeastNumber
<1>4. i \in DOMAIN s /\ s[i].file = f /\ i \in 1..Len(s)
  BY <1>1, <1>2, <1>3
<1>5. \A j \in 1..(i - 1) : j \in DOMAIN s /\ ~(i <= j)
  BY <1>2, <1>4
<1>6. \A j \in 1..(i - 1) : s[j].file # f
  BY <1>1, <1>3, <1>5
<1>7. PICK m : m = FirstAt(s, f)
  OBVIOUS
<1>8. m \in DOMAIN s /\ s[m].file = f /\ \A j \in 1..(m - 1) : s[j].file # f
  BY <1>4, <1>6, <1>7 DEF FirstAt
<1>9. \A k \in DOMAIN s : s[k].file = f => m <= k
  <2> TAKE k \in DOMAIN s
  <2>1. k \in 1..(m - 1) \/ m <= k
    BY <1>2, <1>8
  <2>2. QED
    BY <1>8, <2>1
<1>10. QED
  BY <1>7, <1>8, <1>9

LEMMA LastAtFacts ==
  ASSUME NEW s \in Seq(Chunk), NEW f \in Files(s)
  PROVE  LastAt(s, f) \in DOMAIN s /\ s[LastAt(s, f)].file = f
<1>1. PICK T : T = {i \in DOMAIN s : s[i].file = f}
  OBVIOUS
<1>2. T \in SUBSET (1..Len(s)) /\ T # {} /\ DOMAIN s = 1..Len(s) /\ Len(s) \in Nat
  BY <1>1, ChunksInList
<1>3. PICK i \in T : \A j \in T : j <= i
  BY <1>2, GreatestNumber
<1>4. i \in DOMAIN s /\ s[i].file = f /\ i \in 1..Len(s)
  BY <1>1, <1>2, <1>3
<1>5. \A j \in (i + 1)..Len(s) : j \in DOMAIN s /\ ~(j <= i)
  BY <1>2, <1>4
<1>6. \A j \in (i + 1)..Len(s) : s[j].file # f
  BY <1>1, <1>3, <1>5
<1>7. QED
  BY <1>4, <1>6 DEF LastAt

\* Newcomers keep each file, once.
LEMMA NewcomersFacts ==
  ASSUME NEW s \in Seq(Chunk), NEW t, t = At(s, Newcomers(s))
  PROVE  /\ t \in Seq(Chunk) /\ Once(t) /\ Files(t) = Files(s)
         /\ \E pos : Picked(t, s, Newcomers(s), pos)
<1>1. PICK T : T = Newcomers(s)
  OBVIOUS
<1>2. T \in SUBSET DOMAIN s /\ \A i \in T : FirstAt(s, s[i].file) = i
  BY <1>1 DEF Newcomers
<1>3. t \in Seq(Chunk) /\ \E pos : Picked(t, s, T, pos)
  BY <1>1, <1>2, AtFacts
<1>4. PICK pos : Picked(t, s, T, pos)
  BY <1>3
<1>5. /\ DOMAIN t = 1..Len(t) /\ Len(t) \in Nat
      /\ \A n \in 1..Len(t) : pos[n] \in T /\ pos[n] \in DOMAIN s /\ t[n] = s[pos[n]]
      /\ \A i \in T : \E n \in 1..Len(t) : pos[n] = i
  BY <1>2, <1>4 DEF Picked
<1>6. \A m, n \in 1..Len(t) : t[m].file = t[n].file => m = n
  <2> SUFFICES ASSUME NEW m \in 1..Len(t), NEW n \in 1..Len(t), t[m].file = t[n].file PROVE m = n
    OBVIOUS
  <2>1. pos[m] = FirstAt(s, t[m].file) /\ pos[n] = FirstAt(s, t[n].file)
    BY <1>2, <1>5
  <2>2. pos[m] = pos[n]
    BY <2>1
  <2>3. pos[m] \in Nat
    BY <1>5, ChunksInList
  <2>4. m < n => pos[m] < pos[n]
    BY <1>4 DEF Picked
  <2>5. n < m => pos[n] < pos[m]
    BY <1>4 DEF Picked
  <2>6. QED
    BY <2>2, <2>3, <2>4, <2>5
<1>7. Once(t)
  BY <1>5, <1>6 DEF Once
<1>8. \A f \in Files(t) : f \in Files(s)
  <2> TAKE f \in Files(t)
  <2>1. PICK n \in 1..Len(t) : t[n].file = f
    BY <1>5 DEF Files
  <2>2. t[n] = s[pos[n]] /\ pos[n] \in DOMAIN s
    BY <1>5
  <2>3. QED
    BY <2>1, <2>2, ChunksInList
<1>9. \A f \in Files(s) : f \in Files(t)
  <2> TAKE f \in Files(s)
  <2>1. FirstAt(s, f) \in DOMAIN s /\ s[FirstAt(s, f)].file = f
    BY FirstAtFacts
  <2>2. FirstAt(s, f) \in T
    BY <1>1, <2>1 DEF Newcomers
  <2>3. PICK n \in 1..Len(t) : pos[n] = FirstAt(s, f)
    BY <1>5, <2>2
  <2>4. t[n].file = f
    BY <1>5, <2>1, <2>3
  <2>5. QED
    BY <1>5, <2>4 DEF Files
<1>10. QED
  BY <1>1, <1>3, <1>7, <1>8, <1>9

\* One list after the other.
LEMMA Joined ==
  ASSUME NEW a \in Seq(Chunk), NEW d \in Seq(Chunk), NEW s, s = a \o d
  PROVE  /\ s \in Seq(Chunk) /\ Len(s) = Len(a) + Len(d)
         /\ \A i \in DOMAIN a : i \in DOMAIN s /\ s[i] = a[i]
         /\ \A i \in DOMAIN d : Len(a) + i \in DOMAIN s /\ s[Len(a) + i] = d[i]
         /\ \A i \in DOMAIN s : i \in DOMAIN a \/ (i - Len(a) \in DOMAIN d /\ i = Len(a) + (i - Len(a)))
         /\ Files(s) = Files(a) \cup Files(d)
<1>1. s \in Seq(Chunk) /\ Len(s) = Len(a) + Len(d) /\ Len(a) \in Nat /\ Len(d) \in Nat
  OBVIOUS
<1>2. DOMAIN a = 1..Len(a) /\ DOMAIN d = 1..Len(d) /\ DOMAIN s = 1..Len(s)
  BY <1>1
<1>3. \A i \in DOMAIN a : i \in DOMAIN s /\ s[i] = a[i]
  BY <1>1, <1>2
<1>4. \A i \in DOMAIN d : Len(a) + i \in DOMAIN s /\ s[Len(a) + i] = d[i]
  BY <1>1, <1>2
<1>5. \A i \in DOMAIN s : i \in DOMAIN a \/ (i - Len(a) \in DOMAIN d /\ i = Len(a) + (i - Len(a)))
  BY <1>1, <1>2
<1>6. \A f \in Files(a) \cup Files(d) : f \in Files(s)
  BY <1>3, <1>4 DEF Files
<1>7. \A i \in DOMAIN s : s[i].file \in Files(a) \cup Files(d)
  <2> TAKE i \in DOMAIN s
  <2>1. CASE i \in DOMAIN a
    BY <1>3, <2>1 DEF Files
  <2>2. CASE i - Len(a) \in DOMAIN d /\ i = Len(a) + (i - Len(a))
    <3>1. s[i] = d[i - Len(a)]
      BY <1>4, <2>2
    <3>2. QED
      BY <2>2, <3>1 DEF Files
  <2>3. QED
    BY <1>5, <2>1, <2>2
<1>8. \A f \in Files(s) : f \in Files(a) \cup Files(d)
  BY <1>7 DEF Files
<1>9. QED
  BY <1>1, <1>3, <1>4, <1>5, <1>6, <1>8

\* The named poems come first, and before those of a list of files each once
\* the order of the list is kept.
LEMMA PrependFacts ==
  ASSUME NEW a \in Seq(Chunk), NEW d \in Seq(Chunk), NEW p, p = PrependPriority(a, d)
  PROVE  /\ p \in Seq(Chunk) /\ Once(p) /\ Files(p) = Files(a) \cup Files(d)
         /\ \A n \in DOMAIN p : \/ p[n].file \in Files(a) /\ \E i \in DOMAIN a : p[n] = a[i]
                                \/ p[n].file \notin Files(a) /\ \E i \in DOMAIN d : p[n] = d[i]
         /\ \A m, n \in DOMAIN p, i, j \in DOMAIN d :
              /\ Once(d) /\ p[m].file = d[i].file /\ p[n].file = d[j].file
              /\ p[m].file \notin Files(a) /\ p[n].file \notin Files(a) /\ i < j
              => m < n
         /\ \A n \in DOMAIN p, i \in DOMAIN a :
              p[n].file = a[i].file => n - 1 <= Cardinality({a[j].file : j \in 1..(i - 1)})
<1>1. PICK s : s = a \o d
  OBVIOUS
<1>2. p = At(s, Newcomers(s)) /\ s \in Seq(Chunk)
  BY <1>1, Joined DEF PrependPriority
<1>3. /\ p \in Seq(Chunk) /\ Once(p) /\ Files(p) = Files(s)
      /\ \E pos : Picked(p, s, Newcomers(s), pos)
  BY <1>2, NewcomersFacts
<1>4. Files(s) = Files(a) \cup Files(d)
  BY <1>1, Joined
<1>5. PICK pos : Picked(p, s, Newcomers(s), pos)
  BY <1>3
<1>6. PICK N \in Nat : N = Len(p) /\ DOMAIN p = 1..N
  BY <1>5 DEF Picked
<1>7. \A n \in 1..N : pos[n] \in DOMAIN s /\ p[n] = s[pos[n]] /\ pos[n] = FirstAt(s, p[n].file)
  <2>1. \A n \in 1..N : pos[n] \in Newcomers(s) /\ p[n] = s[pos[n]]
    BY <1>5, <1>6 DEF Picked
  <2>2. QED
    BY <2>1 DEF Newcomers
<1>8. \A n \in 1..N : pos[n] \in Nat
  BY <1>2, <1>7, ChunksInList
<1>9. \A m, n \in 1..N : m < n => pos[m] < pos[n]
  BY <1>5, <1>6 DEF Picked
<1>10. /\ Len(a) \in Nat /\ DOMAIN a = 1..Len(a) /\ Len(d) \in Nat /\ DOMAIN d = 1..Len(d)
       /\ \A i \in DOMAIN a : i \in DOMAIN s /\ s[i] = a[i]
       /\ \A i \in DOMAIN d : Len(a) + i \in DOMAIN s /\ s[Len(a) + i] = d[i]
       /\ \A i \in DOMAIN s : i \in DOMAIN a \/ (i - Len(a) \in DOMAIN d /\ i = Len(a) + (i - Len(a)))
  BY <1>1, Joined, ChunksInList
<1>11. \A n \in 1..N, i \in DOMAIN a : p[n].file = a[i].file => pos[n] <= i /\ pos[n] \in DOMAIN a
  <2> TAKE n \in 1..N, i \in DOMAIN a
  <2> HAVE p[n].file = a[i].file
  <2>1. i \in DOMAIN s /\ s[i].file = p[n].file
    BY <1>10
  <2>2. p[n].file \in Files(s)
    BY <1>2, <2>1, ChunksInList
  <2>3. pos[n] <= i
    BY <1>2, <1>7, <2>1, <2>2, FirstAtFacts
  <2>4. pos[n] \in 1..Len(a)
    <3>1. pos[n] \in Nat \ {0} /\ i \in 1..Len(a)
      BY <1>2, <1>7, <1>10, ChunksInList
    <3>2. QED
      BY <1>10, <2>3, <3>1
  <2>5. QED
    BY <1>10, <2>3, <2>4
<1>12. \A n \in 1..N : pos[n] \in DOMAIN a => p[n] = a[pos[n]] /\ p[n].file \in Files(a)
  <2> TAKE n \in 1..N
  <2> HAVE pos[n] \in DOMAIN a
  <2>1. p[n] = a[pos[n]]
    BY <1>7, <1>10
  <2>2. QED
    BY <2>1, ChunksInList
<1>13. \A n \in 1..N : p[n].file \in Files(a) => pos[n] \in DOMAIN a
  <2> TAKE n \in 1..N
  <2> HAVE p[n].file \in Files(a)
  <2>1. PICK i \in DOMAIN a : a[i].file = p[n].file
    BY ChunksInList
  <2>2. QED
    BY <1>11, <2>1
<1>14. \A n \in 1..N : p[n].file \notin Files(a) =>
         pos[n] - Len(a) \in DOMAIN d /\ p[n] = d[pos[n] - Len(a)]
  <2> TAKE n \in 1..N
  <2> HAVE p[n].file \notin Files(a)
  <2>1. pos[n] \notin DOMAIN a
    BY <1>12
  <2>2. pos[n] - Len(a) \in DOMAIN d /\ pos[n] = Len(a) + (pos[n] - Len(a))
    BY <1>7, <1>10, <2>1
  <2>3. QED
    BY <1>7, <1>10, <2>2
<1>15. \A n \in DOMAIN p : \/ p[n].file \in Files(a) /\ \E i \in DOMAIN a : p[n] = a[i]
                           \/ p[n].file \notin Files(a) /\ \E i \in DOMAIN d : p[n] = d[i]
  BY <1>6, <1>12, <1>13, <1>14
<1>16. ASSUME Once(d), NEW m \in DOMAIN p, NEW n \in DOMAIN p, NEW i \in DOMAIN d, NEW j \in DOMAIN d,
              p[m].file = d[i].file, p[n].file = d[j].file,
              p[m].file \notin Files(a), p[n].file \notin Files(a), i < j
       PROVE  m < n
  <2>1. m \in 1..N /\ n \in 1..N
    BY <1>6
  <2>2. pos[m] - Len(a) = i
    <3>1. pos[m] - Len(a) \in DOMAIN d /\ d[pos[m] - Len(a)].file = d[i].file
      BY <1>14, <1>16, <2>1
    <3>2. QED
      BY <1>16, <3>1 DEF Once
  <2>3. pos[n] - Len(a) = j
    <3>1. pos[n] - Len(a) \in DOMAIN d /\ d[pos[n] - Len(a)].file = d[j].file
      BY <1>14, <1>16, <2>1
    <3>2. QED
      BY <1>16, <3>1 DEF Once
  <2>4. pos[m] < pos[n]
    BY <1>8, <1>10, <1>16, <2>1, <2>2, <2>3
  <2>5. n < m => pos[n] < pos[m]
    BY <1>9, <2>1
  <2>6. QED
    BY <1>8, <2>1, <2>4, <2>5
<1>17. ASSUME NEW n \in DOMAIN p, NEW i \in DOMAIN a, p[n].file = a[i].file
       PROVE  n - 1 <= Cardinality({a[j].file : j \in 1..(i - 1)})
  <2>1. n \in 1..N /\ i \in 1..Len(a)
    BY <1>6, <1>10
  <2>2. PICK G : G = {a[j].file : j \in 1..(i - 1)}
    OBVIOUS
  <2>3. IsFiniteSet(G)
    <3>1. IsFiniteSet(1..(i - 1))
      BY <2>1, FS_Interval
    <3>2. PICK g : g = [j \in 1..(i - 1) |-> a[j].file]
      OBVIOUS
    <3>3. g \in Surjection(1..(i - 1), G)
      BY <2>2, <3>2 DEF Surjection
    <3>4. QED
      BY <3>1, <3>3, FS_Surjection
  <2>4. \A m \in 1..(n - 1) : m \in 1..N /\ m < n
    BY <2>1
  <2>5. \A m \in 1..(n - 1) : pos[m] \in 1..(i - 1)
    <3> TAKE m \in 1..(n - 1)
    <3>1. pos[m] < pos[n] /\ pos[n] <= i
      BY <1>9, <1>11, <1>17, <2>1, <2>4
    <3>2. pos[m] \in Nat \ {0} /\ pos[n] \in Nat /\ i \in Nat
      BY <1>2, <1>7, <1>8, <2>1, <2>4, ChunksInList
    <3>3. QED
      BY <3>1, <3>2
  <2>6. \A m \in 1..(n - 1) : p[m].file \in G
    <3> TAKE m \in 1..(n - 1)
    <3>1. pos[m] \in 1..(i - 1) /\ pos[m] \in DOMAIN a
      BY <1>10, <2>1, <2>5
    <3>2. p[m] = a[pos[m]]
      BY <1>12, <2>4, <3>1
    <3>3. QED
      BY <2>2, <3>1, <3>2
  <2>7. PICK h : h = [m \in 1..(n - 1) |-> p[m].file]
    OBVIOUS
  <2>8. \A k, m \in 1..(n - 1) : p[k].file = p[m].file => k = m
    BY <1>3, <1>6, <2>4 DEF Once
  <2>9. h \in Injection(1..(n - 1), G)
    BY <2>6, <2>7, <2>8 DEF Injection, IsInjective
  <2>10. Cardinality(1..(n - 1)) = n - 1
    BY <2>1, FS_Interval
  <2>11. Cardinality(1..(n - 1)) <= Cardinality(G)
    BY <2>3, <2>9, FS_Injection
  <2>12. QED
    BY <2>2, <2>10, <2>11
<1>18. QED
  <2>1. Files(p) = Files(a) \cup Files(d)
    BY <1>3, <1>4
  <2>2. \A m, n \in DOMAIN p, i, j \in DOMAIN d :
              /\ Once(d) /\ p[m].file = d[i].file /\ p[n].file = d[j].file
              /\ p[m].file \notin Files(a) /\ p[n].file \notin Files(a) /\ i < j
              => m < n
    BY <1>16
  <2>3. QED
    BY <1>3, <1>15, <1>17, <2>1, <2>2

LEMMA FilesJoined ==
  ASSUME NEW a \in Seq(Chunk), NEW d \in Seq(Chunk)
  PROVE  Files(a \o d) = Files(a) \cup Files(d)
<1>1. PICK s : s = a \o d
  OBVIOUS
<1>2. QED
  BY <1>1, Joined

-----------------------------------------------------------------------------
(* Reciprocal ranks *)

LEMMA JoinsOfChunks ==
  ASSUME NEW files \in Seq(FileType)
  PROVE  SplitWithOverlap(files) \in Seq(Chunk)
<1> DEFINE Longer(q, n) == q \o ChunksOf(files[n])
           Is(f) == f = [n \in 0..Len(files) |-> IF n = 0 THEN <<>> ELSE Longer(f[n - 1], n)]
<1>1. PICK N, S, first, step : /\ N = Len(files) /\ S = Seq(Chunk) /\ first = <<>>
                               /\ step = [n \in 1..N |-> [q \in S |-> Longer(q, n)]]
  OBVIOUS
<1>2. N \in Nat /\ first \in S /\ \A n \in 1..N : files[n] \in FileType /\ n - 1 \in 0..N
  BY <1>1
<1>3. \A n \in 1..N : ChunksOf(files[n]) \in Seq(Chunk)
  <2> TAKE n \in 1..N
  <2>1. PICK g : g = files[n]
    OBVIOUS
  <2>2. g \in FileType
    BY <1>2, <2>1
  <2>3. /\ g.name \in STRING /\ g.title \in Title \cup {NoTitle} /\ g.meta \in [Field -> Value]
        /\ g.parts \in Seq(SUBSET Value)
    BY <2>2 DEF FileType
  <2>4. \A i \in 1..Len(g.parts) :
          [file |-> g.name, title |-> g.title, meta |-> g.meta, says |-> g.parts[i]] \in Chunk
    <3> TAKE i \in 1..Len(g.parts)
    <3>1. g.parts[i] \in SUBSET Value
      BY <2>3
    <3>2. QED
      BY <2>3, <3>1 DEF Chunk
  <2>5. DOMAIN g.parts = 1..Len(g.parts) /\ Len(g.parts) \in Nat
    BY <2>3
  <2>6. ChunksOf(g) \in Seq(Chunk)
    BY <2>4, <2>5 DEF ChunksOf
  <2>7. QED
    BY <2>1, <2>6
<1>4. \A q \in S, n \in 1..N : Longer(q, n) \in S
  BY <1>1, <1>3
<1> HIDE DEF Longer
<1>5. /\ step \in [1..N -> [S -> S]]
      /\ \A q \in S, n \in 1..N : step[n][q] = Longer(q, n)
  BY <1>1, <1>4
<1>6. PICK f : f = Recursive(N, S, first, step)
  OBVIOUS
<1>7. f \in [0..N -> S] /\ f[0] = first /\ \A n \in 1..N : f[n] = step[n][f[n - 1]]
  <2>1. N \in Nat /\ first \in S /\ step \in [1..N -> [S -> S]]
    BY <1>2, <1>5
  <2>2. QED
    BY <1>6, <2>1, RecursionExists
<1>8. \A n \in 1..N : f[n] = Longer(f[n - 1], n)
  BY <1>2, <1>5, <1>7
<1>9. Is(f)
  BY <1>1, <1>7, <1>8
<1>10. PICK g : g = (CHOOSE h : Is(h))
  OBVIOUS
<1>11. Is(g)
  BY <1>9, <1>10
<1>12. SplitWithOverlap(files) = g[N]
  BY <1>1, <1>10 DEF SplitWithOverlap, Longer
<1>13. g[0] = first /\ \A n \in 1..N : g[n] = Longer(g[n - 1], n)
  <2>1. N \in Nat /\ N = Len(files) /\ first = <<>>
    BY <1>1, <1>2
  <2>2. QED
    BY <1>11, <2>1
<1>14. \A n \in 0..N : g[n] \in S
  <2> DEFINE T == {n \in 0..N : g[n] \in S}
  <2>1. 0 \in T
    BY <1>2, <1>13
  <2>2. ASSUME NEW n \in 1..N, n - 1 \in T PROVE n \in T
    BY <1>4, <1>13, <2>2
  <2> HIDE DEF T
  <2>3. 0..N \subseteq T
    BY <1>2, <2>1, <2>2, UpTo
  <2>4. QED
    BY <2>3 DEF T
<1>15. QED
  BY <1>1, <1>2, <1>12, <1>14

LEMMA Scaled ==
  ASSUME Params.k \in Nat
  PROVE  /\ Scale \in Nat \ {0}
         /\ \A r \in 1..Params.k : \E q \in Nat \ {0} : Scale = (RrfK + r) * q
<1> DEFINE Is(f) == f = [r \in 0..Params.k |-> IF r = 0 THEN 1 ELSE (RrfK + r) * f[r - 1]]
<1>1. PICK N, S, step : /\ N = Params.k /\ S = Nat \ {0}
                        /\ step = [r \in 1..N |-> [q \in S |-> (RrfK + r) * q]]
  OBVIOUS
<1>2. N \in Nat /\ RrfK \in Nat /\ 1 \in S
  BY <1>1, RankAssumption
<1>3. \A q \in S, r \in Nat \ {0} : (RrfK + r) * q \in S
  <2>1. \A x, y \in Nat \ {0} : x * y \in Nat \ {0}
    OBVIOUS
  <2>2. \A r \in Nat \ {0} : RrfK + r \in Nat \ {0}
    BY <1>2
  <2>3. QED
    BY <1>1, <2>1, <2>2
<1>4. \A r \in 1..N : r \in Nat \ {0} /\ r - 1 \in 0..N
  BY <1>2
<1>5. step \in [1..N -> [S -> S]] /\ \A r \in 1..N, q \in S : step[r][q] = (RrfK + r) * q
  BY <1>1, <1>3, <1>4
<1>6. PICK f : f = Recursive(N, S, 1, step)
  OBVIOUS
<1>7. f \in [0..N -> S] /\ f[0] = 1 /\ \A r \in 1..N : f[r] = step[r][f[r - 1]]
  <2>1. N \in Nat /\ 1 \in S /\ step \in [1..N -> [S -> S]]
    BY <1>2, <1>5
  <2>2. QED
    BY <1>6, <2>1, RecursionExists
<1>8. \A r \in 1..N : f[r] = (RrfK + r) * f[r - 1]
  BY <1>4, <1>5, <1>7
<1>9. Is(f)
  BY <1>1, <1>7, <1>8
<1>10. PICK g : g = (CHOOSE h : Is(h))
  OBVIOUS
<1>11. Is(g)
  BY <1>9, <1>10
<1>12. Scale = g[N]
  BY <1>1, <1>10 DEF Scale
<1>13. g[0] = 1 /\ \A r \in 1..N : g[r] = (RrfK + r) * g[r - 1]
  BY <1>1, <1>2, <1>11
<1>14. \A n \in 0..N : g[n] \in S /\ \A r \in 1..n : \E q \in S : g[n] = (RrfK + r) * q
  <2> DEFINE T == {n \in 0..N : g[n] \in S /\ \A r \in 1..n : \E q \in S : g[n] = (RrfK + r) * q}
  <2>1. 0 \in T
    BY <1>2, <1>13
  <2>2. ASSUME NEW n \in 1..N, n - 1 \in T PROVE n \in T
    <3>1. /\ g[n - 1] \in S /\ g[n] = (RrfK + n) * g[n - 1]
          /\ \A r \in 1..(n - 1) : \E q \in S : g[n - 1] = (RrfK + r) * q
      BY <1>13, <2>2
    <3>2. g[n] \in S
      BY <1>3, <1>4, <3>1
    <3>3. \A r \in 1..n : \E q \in S : g[n] = (RrfK + r) * q
      <4> TAKE r \in 1..n
      <4>1. CASE r = n
        BY <3>1, <4>1
      <4>2. CASE r # n
        <5>1. r \in 1..(n - 1)
          BY <4>2
        <5>2. PICK q \in S : g[n - 1] = (RrfK + r) * q
          BY <3>1, <5>1
        <5>3. (RrfK + n) * q \in S
          BY <1>3, <1>4
        <5>4. (RrfK + n) * ((RrfK + r) * q) = (RrfK + r) * ((RrfK + n) * q)
          <6>1. RrfK + n \in Int /\ RrfK + r \in Int /\ q \in Int
            BY <1>1, <1>2
          <6>2. \A x, y, z \in Int : x * (y * z) = y * (x * z)
            OBVIOUS
          <6>3. QED
            BY <6>1, <6>2
        <5>5. g[n] = (RrfK + r) * ((RrfK + n) * q)
          BY <3>1, <5>2, <5>4
        <5>6. QED
          BY <5>3, <5>5
      <4>3. QED
        BY <4>1, <4>2
    <3>4. QED
      BY <3>2, <3>3
  <2> HIDE DEF T
  <2>3. 0..N \subseteq T
    BY <1>2, <2>1, <2>2, UpTo
  <2>4. QED
    BY <2>3 DEF T
<1>15. N \in 0..N
  BY <1>2
<1>16. QED
  BY <1>1, <1>12, <1>14, <1>15

\* The number the code divides, without division.
LEMMA ReciprocalFacts ==
  ASSUME Params.k \in Nat, NEW r \in 1..Params.k
  PROVE  Reciprocal(r) \in Nat \ {0} /\ Scale = (RrfK + r) * Reciprocal(r)
<1>1. PICK q \in Nat \ {0} : Scale = (RrfK + r) * q
  BY Scaled
<1>2. RrfK + r \in Nat \ {0}
  BY RankAssumption
<1>3. \A a, b \in Nat \ {0} : (a * b) \div a = b
  OBVIOUS
<1>4. Reciprocal(r) = q
  BY <1>1, <1>2, <1>3 DEF Reciprocal
<1>5. QED
  BY <1>1, <1>4

\* Two places among k count for more than one, if k is at most RrfK + 1.
LEMMA TwoBeatOne ==
  ASSUME Params.k \in Nat, Params.k <= RrfK + 1,
         NEW a \in 1..Params.k, NEW b \in 1..Params.k, NEW c \in 1..Params.k
  PROVE  Reciprocal(c) < Reciprocal(a) + Reciprocal(b)
<1>1. PICK K, k, S, x, y, z : /\ K = RrfK /\ k = Params.k /\ S = Scale
                              /\ x = Reciprocal(a) /\ y = Reciprocal(b) /\ z = Reciprocal(c)
  OBVIOUS
<1>2. K \in Nat /\ k \in Nat /\ k <= K + 1 /\ a \in 1..k /\ b \in 1..k /\ c \in 1..k
  BY <1>1, RankAssumption
<1>3. S \in Nat \ {0} /\ x \in Nat \ {0} /\ y \in Nat \ {0} /\ z \in Nat \ {0}
  BY <1>1, Scaled, ReciprocalFacts
<1>4. S = (K + a) * x /\ S = (K + b) * y /\ S = (K + c) * z
  BY <1>1, ReciprocalFacts
<1>5. ASSUME NEW m \in Nat, NEW n \in Nat, NEW u \in Nat, m <= n PROVE m * u <= n * u
  BY <1>5
<1>6. (K + a) * x <= (K + k) * x /\ (K + b) * y <= (K + k) * y
  BY <1>2, <1>3, <1>5
<1>7. (K + 1) * z <= (K + c) * z
  BY <1>2, <1>3, <1>5
<1>8. (K + k) * x <= (K + K + 1) * x /\ (K + k) * y <= (K + K + 1) * y
  BY <1>2, <1>3, <1>5
<1>9. S <= (K + K + 1) * x /\ S <= (K + K + 1) * y
  BY <1>2, <1>3, <1>4, <1>6, <1>8
<1>10. SUFFICES ASSUME x + y <= z PROVE FALSE
  BY <1>1, <1>3
<1>11. (x + y) * (K + 1) <= z * (K + 1)
  BY <1>2, <1>3, <1>5, <1>10
<1>12. (x + y) * (K + 1) <= S
  <2>1. z * (K + 1) = (K + 1) * z
    BY <1>2, <1>3
  <2>2. QED
    BY <1>2, <1>3, <1>4, <1>7, <1>11, <2>1
<1>13. 2 * ((x + y) * (K + 1)) = (K + K + 1) * x + (K + K + 1) * y + (x + y)
  BY <1>2, <1>3
<1>14. QED
  BY <1>2, <1>3, <1>9, <1>12, <1>13

\* What a list gives a file: nothing, or the points of the places it is at.
LEMMA PointsFacts ==
  ASSUME Params.k \in Nat, NEW s \in Seq(Chunk), Len(s) <= Params.k, NEW f
  PROVE  /\ Points(s, f) \in Nat
         /\ f \notin Files(s) => Points(s, f) = 0
         /\ Once(s) => \A i \in DOMAIN s : s[i].file = f => Points(s, f) = Reciprocal(i)
<1> DEFINE Given(n) == IF s[n].file = f THEN Reciprocal(n) ELSE 0
           Is(h) == h = [n \in 0..Len(s) |-> IF n = 0 THEN 0 ELSE h[n - 1] + Given(n)]
<1>1. PICK N, step : N = Len(s) /\ step = [n \in 1..N |-> [q \in Nat |-> q + Given(n)]]
  OBVIOUS
<1>2. N \in Nat /\ DOMAIN s = 1..N /\ \A n \in 1..N : n - 1 \in 0..N /\ n \in 1..Params.k
  BY <1>1
<1>3. \A n \in 1..N : Given(n) \in Nat
  BY <1>2, ReciprocalFacts
<1>4. \A n \in 1..N : (s[n].file = f => Given(n) = Reciprocal(n)) /\ (s[n].file # f => Given(n) = 0)
  OBVIOUS
<1> HIDE DEF Given
<1>5. step \in [1..N -> [Nat -> Nat]] /\ \A n \in 1..N, q \in Nat : step[n][q] = q + Given(n)
  BY <1>1, <1>3
<1>6. PICK h : h = Recursive(N, Nat, 0, step)
  OBVIOUS
<1>7. h \in [0..N -> Nat] /\ h[0] = 0 /\ \A n \in 1..N : h[n] = step[n][h[n - 1]]
  <2>1. N \in Nat /\ 0 \in Nat /\ step \in [1..N -> [Nat -> Nat]]
    BY <1>2, <1>5
  <2>2. PICK S : S = Nat
    OBVIOUS
  <2>3. 0 \in S /\ step \in [1..N -> [S -> S]] /\ h = Recursive(N, S, 0, step)
    BY <1>6, <2>1, <2>2
  <2>4. h \in [0..N -> S] /\ h[0] = 0 /\ \A n \in 1..N : h[n] = step[n][h[n - 1]]
    BY <1>2, <2>3, RecursionExists
  <2>5. QED
    BY <2>2, <2>4
<1>8. \A n \in 1..N : h[n] = h[n - 1] + Given(n)
  BY <1>2, <1>5, <1>7
<1>9. Is(h)
  BY <1>1, <1>7, <1>8
<1>10. PICK g : g = (CHOOSE e : Is(e))
  OBVIOUS
<1>11. Is(g)
  BY <1>9, <1>10
<1>12. Points(s, f) = g[N]
  BY <1>1, <1>10 DEF Points, Given
<1>13. g[0] = 0 /\ \A n \in 1..N : g[n] = g[n - 1] + Given(n)
  BY <1>1, <1>2, <1>11
<1>14. \A n \in 0..N :
         /\ g[n] \in Nat
         /\ (\A i \in 1..n : s[i].file # f) => g[n] = 0
         /\ Once(s) => \A i \in 1..n : s[i].file = f => g[n] = Reciprocal(i)
  <2> DEFINE Right(n) == /\ g[n] \in Nat
                         /\ (\A i \in 1..n : s[i].file # f) => g[n] = 0
                         /\ Once(s) => \A i \in 1..n : s[i].file = f => g[n] = Reciprocal(i)
             T == {n \in 0..N : Right(n)}
  <2>1. 0 \in T
    BY <1>2, <1>13
  <2>2. ASSUME NEW n \in 1..N, n - 1 \in T PROVE n \in T
    <3>1. Right(n - 1)
      BY <2>2
    <3>2. g[n] = g[n - 1] + Given(n) /\ g[n - 1] \in Nat /\ Given(n) \in Nat
      BY <1>3, <1>13, <3>1
    <3>3. \A i \in 1..(n - 1) : i \in 1..n
      OBVIOUS
    <3>4. (\A i \in 1..n : s[i].file # f) => g[n] = 0
      <4> HAVE \A i \in 1..n : s[i].file # f
      <4>1. Given(n) = 0 /\ g[n - 1] = 0
        BY <1>4, <3>1, <3>3
      <4>2. QED
        BY <3>2, <4>1
    <3>5. ASSUME Once(s), NEW i \in 1..n, s[i].file = f PROVE g[n] = Reciprocal(i)
      <4>1. \A j \in 1..n : s[j].file = f => j = i
        <5>1. \A j \in 1..n : j \in DOMAIN s
          BY <1>2
        <5>2. QED
          BY <3>5, <5>1 DEF Once
      <4>2. CASE i = n
        <5>1. \A j \in 1..(n - 1) : s[j].file # f
          BY <3>3, <4>1, <4>2
        <5>2. g[n - 1] = 0 /\ Given(n) = Reciprocal(n)
          BY <1>4, <3>1, <3>5, <4>2, <5>1
        <5>3. QED
          BY <3>2, <4>2, <5>2
      <4>3. CASE i # n
        <5>1. s[n].file # f /\ i \in 1..(n - 1)
          BY <4>1, <4>3
        <5>2. g[n - 1] = Reciprocal(i) /\ Given(n) = 0
          BY <1>4, <3>1, <3>5, <5>1
        <5>3. QED
          BY <3>2, <5>2
      <4>4. QED
        BY <4>2, <4>3
    <3>6. Right(n)
      <4>1. Once(s) => \A i \in 1..n : s[i].file = f => g[n] = Reciprocal(i)
        BY <3>5
      <4>2. g[n] \in Nat
        BY <3>2
      <4>3. QED
        BY <3>4, <4>1, <4>2
    <3> HIDE DEF Right
    <3>7. QED
      BY <3>6
  <2> HIDE DEF T
  <2>3. 0..N \subseteq T
    BY <1>2, <2>1, <2>2, UpTo
  <2>4. QED
    BY <2>3 DEF T
<1>15. N \in 0..N
  BY <1>2
<1>16. f \notin Files(s) => \A i \in 1..N : s[i].file # f
  BY <1>2 DEF Files
<1>17. QED
  BY <1>2, <1>12, <1>14, <1>15, <1>16

-----------------------------------------------------------------------------
(* The merged list *)

\* The lists of the two searches, of at most k chunks each.
Lists(v, w) == /\ v \in Seq(Chunk) /\ w \in Seq(Chunk)
               /\ Params.k \in Nat /\ Len(v) <= Params.k /\ Len(w) <= Params.k

LEMMA ScoreFacts ==
  ASSUME NEW v, NEW w, Lists(v, w)
  PROVE  /\ \A f \in Files(v \o w) : Score(v, w, f) \in Nat
         /\ Once(v) /\ Once(w) /\ Params.k <= RrfK + 1 =>
              \A f \in Files(v) \cap Files(w), g \in Files(v \o w) :
                g \notin Files(v) \cap Files(w) => Score(v, w, f) > Score(v, w, g)
<1>1. \A f : Points(v, f) \in Nat /\ Points(w, f) \in Nat
  BY PointsFacts DEF Lists
<1>2. \A f \in Files(v \o w) : Score(v, w, f) \in Nat
  BY <1>1 DEF Score
<1>3. ASSUME Once(v), Once(w), Params.k <= RrfK + 1,
             NEW f \in Files(v) \cap Files(w), NEW g \in Files(v \o w), g \notin Files(v) \cap Files(w)
      PROVE  Score(v, w, f) > Score(v, w, g)
  <2>1. PICK a \in DOMAIN v : v[a].file = f
    BY <1>3, ChunksInList DEF Lists
  <2>2. PICK b \in DOMAIN w : w[b].file = f
    BY <1>3, ChunksInList DEF Lists
  <2>3. Points(v, f) = Reciprocal(a) /\ Points(w, f) = Reciprocal(b)
    BY <1>3, <2>1, <2>2, PointsFacts DEF Lists
  <2>4. \A i \in DOMAIN v \cup DOMAIN w : i \in 1..Params.k
    BY ChunksInList DEF Lists
  <2>5. PICK c \in 1..Params.k : Score(v, w, g) = Reciprocal(c)
    <3>1. CASE g \in Files(v)
      <4>1. g \notin Files(w)
        BY <1>3, <3>1
      <4>2. PICK c \in DOMAIN v : v[c].file = g
        BY <3>1, ChunksInList DEF Lists
      <4>3. Points(v, g) = Reciprocal(c) /\ Points(w, g) = 0
        BY <1>3, <4>1, <4>2, PointsFacts DEF Lists
      <4>4. Reciprocal(c) \in Nat /\ c \in 1..Params.k
        BY <2>4, ReciprocalFacts DEF Lists
      <4>5. QED
        BY <4>3, <4>4 DEF Score
    <3>2. CASE g \notin Files(v)
      <4>1. g \in Files(w)
        BY <3>2, FilesJoined DEF Lists
      <4>2. PICK c \in DOMAIN w : w[c].file = g
        BY <4>1, ChunksInList DEF Lists
      <4>3. Points(w, g) = Reciprocal(c) /\ Points(v, g) = 0
        BY <1>3, <3>2, <4>2, PointsFacts DEF Lists
      <4>4. Reciprocal(c) \in Nat /\ c \in 1..Params.k
        BY <2>4, ReciprocalFacts DEF Lists
      <4>5. QED
        BY <4>3, <4>4 DEF Score
    <3>3. QED
      BY <3>1, <3>2
  <2>6. Reciprocal(c) < Reciprocal(a) + Reciprocal(b)
    BY <1>3, <2>4, TwoBeatOne DEF Lists
  <2>7. Reciprocal(a) \in Nat /\ Reciprocal(b) \in Nat /\ Reciprocal(c) \in Nat
    BY <2>4, ReciprocalFacts DEF Lists
  <2>8. QED
    BY <2>3, <2>5, <2>6, <2>7 DEF Score
<1>4. QED
  BY <1>2, <1>3

LEMMA StandsForFile ==
  ASSUME NEW v, NEW w, Lists(v, w), NEW f \in Files(v \o w)
  PROVE  /\ DocMap(v, w, f) \in Chunk /\ DocMap(v, w, f).file = f
         /\ \/ \E i \in DOMAIN v : DocMap(v, w, f) = v[i]
            \/ \E i \in DOMAIN w : DocMap(v, w, f) = w[i]
<1>1. CASE f \in Files(w)
  <2>1. DocMap(v, w, f) = w[LastAt(w, f)] /\ LastAt(w, f) \in DOMAIN w /\ w[LastAt(w, f)].file = f
    BY <1>1, LastAtFacts DEF DocMap, Lists
  <2>2. QED
    BY <2>1, ChunksInList DEF Lists
<1>2. CASE f \notin Files(w)
  <2>1. f \in Files(v)
    BY <1>2, FilesJoined DEF Lists
  <2>2. DocMap(v, w, f) = v[LastAt(v, f)] /\ LastAt(v, f) \in DOMAIN v /\ v[LastAt(v, f)].file = f
    BY <1>2, <2>1, LastAtFacts DEF DocMap, Lists
  <2>3. QED
    BY <2>2, ChunksInList DEF Lists
<1>3. QED
  BY <1>1, <1>2

\* Each file once, by falling score.
LEMMA RrfMergeFacts ==
  ASSUME NEW v, NEW w, Lists(v, w), NEW m, m = RrfMerge(v, w)
  PROVE  /\ m \in Seq(Chunk) /\ Once(m) /\ Files(m) = Files(v) \cup Files(w)
         /\ \A n \in DOMAIN m : \/ \E i \in DOMAIN v : m[n] = v[i]
                                \/ \E i \in DOMAIN w : m[n] = w[i]
         /\ \A i, j \in DOMAIN m : i < j => Score(v, w, m[i].file) >= Score(v, w, m[j].file)
<1>1. PICK s, F, R, q, c :
         /\ s = v \o w /\ F = Files(s) /\ c = Cardinality(F) /\ q = InOrder(F, R)
         /\ R = {p \in F \X F : \/ Score(v, w, p[1]) > Score(v, w, p[2])
                                \/ /\ Score(v, w, p[1]) = Score(v, w, p[2])
                                   /\ FirstAt(s, p[1]) < FirstAt(s, p[2])}
  OBVIOUS
<1>2. s \in Seq(Chunk) /\ IsFiniteSet(F) /\ F = Files(v) \cup Files(w)
  BY <1>1, Joined, ChunksInList DEF Lists
<1>3. PICK score, first : score = [f \in F |-> Score(v, w, f)] /\ first = [f \in F |-> FirstAt(s, f)]
  OBVIOUS
<1>4. score \in [F -> Nat] /\ first \in [F -> Nat]
  <2>1. \A f \in F : Score(v, w, f) \in Nat
    BY <1>1, ScoreFacts
  <2>2. \A f \in F : FirstAt(s, f) \in Nat
    BY <1>1, <1>2, FirstAtFacts, ChunksInList
  <2>3. QED
    BY <1>3, <2>1, <2>2
<1>5. \A f, g \in F : first[f] = first[g] => f = g
  <2>1. \A f \in F : s[FirstAt(s, f)].file = f
    BY <1>1, <1>2, FirstAtFacts
  <2>2. QED
    BY <1>3, <2>1
<1>6. \A f, g \in F : <<f, g>> \in R <=> \/ score[f] > score[g]
                                         \/ score[f] = score[g] /\ first[f] < first[g]
  BY <1>1, <1>3
<1>7. Strict(F, R)
  <2>1. \A f \in F : <<f, f>> \notin R
    BY <1>4, <1>6
  <2>2. \A f, g, h \in F : <<f, g>> \in R /\ <<g, h>> \in R => <<f, h>> \in R
    BY <1>4, <1>6
  <2>3. \A f, g \in F : f # g => <<f, g>> \in R \/ <<g, f>> \in R
    BY <1>4, <1>5, <1>6
  <2>4. QED
    BY <2>1, <2>2, <2>3 DEF Strict
<1>8. /\ c \in Nat /\ q \in [1..c -> F]
      /\ \A f \in F : \E n \in 1..c : q[n] = f
      /\ \A i, j \in 1..c : i < j => <<q[i], q[j]>> \in R
  <2>1. /\ Cardinality(F) \in Nat /\ q \in [1..Cardinality(F) -> F]
        /\ \A f \in F : \E n \in 1..Cardinality(F) : q[n] = f
        /\ \A i, j \in 1..Cardinality(F) : i < j => <<q[i], q[j]>> \in R
    <3>1. q = InOrder(F, R) /\ IsFiniteSet(F) /\ Strict(F, R)
      BY <1>1, <1>2, <1>7
    <3>2. QED
      BY <3>1, InOrderFacts
  <2>2. c = Cardinality(F)
    BY <1>1
  <2>3. QED
    BY <2>1, <2>2
<1>9. m = [n \in 1..c |-> DocMap(v, w, q[n])]
  <2>1. DOMAIN q = 1..c
    BY <1>8
  <2>2. m = [n \in DOMAIN q |-> DocMap(v, w, q[n])]
    BY <1>1 DEF RrfMerge
  <2>3. QED
    BY <2>1, <2>2
<1>10. \A n \in 1..c : /\ q[n] \in F /\ m[n] \in Chunk /\ m[n].file = q[n]
                       /\ \/ \E i \in DOMAIN v : m[n] = v[i]
                          \/ \E i \in DOMAIN w : m[n] = w[i]
  <2> TAKE n \in 1..c
  <2>1. q[n] \in Files(v \o w) /\ m[n] = DocMap(v, w, q[n])
    BY <1>1, <1>8, <1>9
  <2>2. PICK f, d : f = q[n] /\ d = DocMap(v, w, f)
    OBVIOUS
  <2>3. f \in Files(v \o w)
    BY <2>1, <2>2
  <2>4. /\ d \in Chunk /\ d.file = f
        /\ \/ \E i \in DOMAIN v : d = v[i]
           \/ \E i \in DOMAIN w : d = w[i]
    BY <2>2, <2>3, StandsForFile
  <2>5. m[n] = d /\ q[n] = f /\ f \in F
    BY <1>1, <2>1, <2>2
  <2>6. QED
    BY <2>4, <2>5
<1>11. m \in Seq(Chunk) /\ DOMAIN m = 1..c
  BY <1>8, <1>9, <1>10
<1>12. Files(m) = F
  BY <1>8, <1>10, <1>11 DEF Files
<1>13. \A i, j \in 1..c : i < j => m[i].file # m[j].file /\ score[m[i].file] >= score[m[j].file]
  <2> TAKE i, j \in 1..c
  <2> HAVE i < j
  <2>1. <<q[i], q[j]>> \in R /\ q[i] \in F /\ q[j] \in F
    BY <1>8
  <2>2. q[i] # q[j]
    BY <1>7, <2>1 DEF Strict
  <2>3. score[q[i]] >= score[q[j]]
    BY <1>4, <1>6, <2>1
  <2>4. QED
    BY <1>10, <2>2, <2>3
<1>14. Once(m)
  <2>1. \A i, j \in 1..c : i < j \/ j < i \/ i = j
    BY <1>8
  <2>2. QED
    BY <1>11, <1>13, <2>1 DEF Once
<1>15. \A i, j \in DOMAIN m : i < j => Score(v, w, m[i].file) >= Score(v, w, m[j].file)
  BY <1>3, <1>10, <1>11, <1>13
<1>16. QED
  BY <1>2, <1>10, <1>11, <1>12, <1>14, <1>15

\* A list cut to some of its places keeps its order.
LEMMA PostFilterFacts ==
  ASSUME NEW p \in Seq(Chunk), Once(p), NEW filter, NEW t, t = PostFilter(p, filter)
  PROVE  /\ t \in Seq(Chunk) /\ Once(t) /\ (t = <<>> => p = <<>>)
         /\ \A n \in DOMAIN t : \E i \in DOMAIN p : t[n] = p[i]
         /\ \A m, n \in DOMAIN t, i, j \in DOMAIN p :
              t[m].file = p[i].file /\ t[n].file = p[j].file /\ i < j => m < n
         /\ (\E i \in DOMAIN p : MatchFilter(p[i], filter)) =>
              \A n \in DOMAIN t : MatchFilter(t[n], filter)
         /\ \A i \in DOMAIN p : MatchFilter(p[i], filter) => \E n \in DOMAIN t : t[n] = p[i] /\ n <= i
<1>1. PICK T : T = Fitting(p, filter)
  OBVIOUS
<1>2. /\ T \in SUBSET DOMAIN p /\ DOMAIN p = 1..Len(p) /\ Len(p) \in Nat
      /\ \A i \in DOMAIN p : i \in T <=> MatchFilter(p[i], filter)
  BY <1>1, ChunksInList DEF Fitting
<1>3. CASE T = {}
  <2>1. t = p
    BY <1>1, <1>3 DEF PostFilter
  <2>2. \A i \in DOMAIN p : ~MatchFilter(p[i], filter)
    BY <1>2, <1>3
  <2>3. \A m, n \in DOMAIN t, i, j \in DOMAIN p :
          t[m].file = p[i].file /\ t[n].file = p[j].file => m = i /\ n = j
    BY <2>1 DEF Once
  <2>4. \A m, n \in DOMAIN t, i, j \in DOMAIN p :
          t[m].file = p[i].file /\ t[n].file = p[j].file /\ i < j => m < n
    BY <2>3
  <2>5. QED
    BY <2>1, <2>2, <2>4
<1>4. CASE T # {}
  <2>1. t = At(p, T)
    BY <1>1, <1>4 DEF PostFilter
  <2>2. t \in Seq(Chunk) /\ \E pos : Picked(t, p, T, pos)
    BY <1>2, <2>1, AtFacts
  <2>3. PICK pos : Picked(t, p, T, pos)
    BY <2>2
  <2>4. PICK N \in Nat : N = Len(t) /\ DOMAIN t = 1..N
    BY <2>3 DEF Picked
  <2>5. /\ \A n \in 1..N : pos[n] \in T /\ pos[n] \in DOMAIN p /\ t[n] = p[pos[n]]
        /\ \A m, n \in 1..N : m < n => pos[m] < pos[n]
        /\ \A i \in T : \E n \in 1..N : pos[n] = i
        /\ pos \in [1..N -> T]
    BY <1>2, <2>3, <2>4 DEF Picked
  <2>6. \A n \in 1..N : pos[n] \in Nat
    BY <1>2, <2>5
  <2>7. \A n \in 1..N, i \in DOMAIN p : t[n].file = p[i].file => pos[n] = i
    BY <2>5 DEF Once
  <2>8. \A m, n \in 1..N : pos[m] < pos[n] => m < n
    <3> TAKE m, n \in 1..N
    <3> HAVE pos[m] < pos[n]
    <3>1. n < m => pos[n] < pos[m]
      BY <2>5
    <3>2. pos[m] \in Nat /\ pos[n] \in Nat
      BY <2>6
    <3>3. QED
      BY <3>1, <3>2
  <2>9. \A m, n \in DOMAIN t, i, j \in DOMAIN p :
          t[m].file = p[i].file /\ t[n].file = p[j].file /\ i < j => m < n
    BY <2>4, <2>7, <2>8
  <2>10. Once(t)
    <3> SUFFICES ASSUME NEW m \in 1..N, NEW n \in 1..N, t[m].file = t[n].file PROVE m = n
      BY <2>4 DEF Once
    <3>1. pos[m] = pos[n]
      BY <2>5, <2>7
    <3>2. m < n => pos[m] < pos[n]
      BY <2>5
    <3>3. n < m => pos[n] < pos[m]
      BY <2>5
    <3>4. pos[m] \in Nat /\ pos[n] \in Nat
      BY <2>6
    <3>5. QED
      BY <3>1, <3>2, <3>3, <3>4
  <2>11. \A n \in DOMAIN t : MatchFilter(t[n], filter)
    BY <1>2, <2>4, <2>5
  <2>12. t # <<>>
    <3>1. PICK i \in T : TRUE
      BY <1>4
    <3>2. PICK n \in 1..N : pos[n] = i
      BY <2>5
    <3>3. N # 0
      BY <3>2
    <3>4. QED
      BY <2>4, <3>3
  <2>13. \A n \in 1..N : n <= pos[n]
    <3>1. T \in SUBSET (Nat \ {0})
      BY <1>2
    <3>2. QED
      BY <2>5, <3>1, PlacesGrow
  <2>14. \A i \in DOMAIN p : MatchFilter(p[i], filter) => \E n \in DOMAIN t : t[n] = p[i] /\ n <= i
    <3> TAKE i \in DOMAIN p
    <3> HAVE MatchFilter(p[i], filter)
    <3>1. PICK n \in 1..N : pos[n] = i
      BY <1>2, <2>5
    <3>2. QED
      BY <2>4, <2>5, <2>13, <3>1
  <2>15. QED
    BY <2>2, <2>4, <2>5, <2>9, <2>10, <2>11, <2>12, <2>14
<1>5. QED
  BY <1>3, <1>4

-----------------------------------------------------------------------------
(* The invariant *)

\* What the searches leave: the named poems, entries that pass the filter, and
\* chunks of the corpus, no more than were asked for.
NamedPlaces == {i \in DOMAIN Corpus : TitleMatches(Corpus[i].title, ask.title)
                                      /\ MatchFilter(Corpus[i], ask.filter)}
SearchInv ==
  /\ at = "shortcut" => searched = {}
  /\ at # "shortcut" => named = At(Corpus, NamedPlaces)
  /\ Len(vectorDocs) <= Params.k
  /\ \A n \in DOMAIN vectorDocs : \E i \in Matching : vectorDocs[n] = Store[i]
  /\ "vector" \in searched /\ Matching # {} => vectorDocs # <<>>
  /\ Len(keywordDocs) <= Params.k
  /\ \A n \in DOMAIN keywordDocs : \E i \in DOMAIN Corpus : keywordDocs[n] = Corpus[i]

\* What the fused list keeps of that, each part in the form a reply needs it in.
FoundByBothFirst ==
  Once(vectorDocs) /\ Once(keywordDocs) /\ Params.k <= RrfK + 1
    => \A i, j \in DOMAIN fused :
         LET both == Files(vectorDocs) \cap Files(keywordDocs)
         IN fused[i].file \in both /\ fused[j].file \notin both
              /\ {fused[i].file, fused[j].file} \cap Files(named) = {} => i < j
AllFit ==
  (\A c \in ask.filter : ~c.padded) /\ Matching # {} /\ (\A i \in Matching : Unreplaced(Store[i]))
    => \A n \in DOMAIN fused : MatchFilter(fused[n], ask.filter)
NamedAreEarly ==
  \A i \in DOMAIN Corpus :
    Corpus[i].title = ask.title /\ ask.title # NoTitle /\ MatchFilter(Corpus[i], ask.filter)
    => \E n \in DOMAIN fused :
         fused[n].file = Corpus[i].file /\ n - 1 <= Cardinality(NamedBefore(i))
FusedWell ==
  /\ searched = {"vector", "keyword"}
  /\ Once(fused)
  /\ fused = <<>> => vectorDocs = <<>> /\ keywordDocs = <<>> /\ named = <<>>
  /\ FoundByBothFirst /\ AllFit /\ NamedAreEarly
FusedInv == fused # <<>> \/ at = "rank" \/ Answered => FusedWell

\* How the reply was taken from it.
ByScores == \E r \in Rankings(DOMAIN Candidates, Least(Params.n, Len(Candidates))) :
              reply = [i \in DOMAIN r |-> Candidates[r[i]]]
ReplyInv ==
  /\ how = "none" <=> at # "done"
  /\ how \in {"none", "error"} => reply = <<>>
  /\ how = "order" => reply = Cut(IF Params.rerank THEN Candidates ELSE fused, Params.n)
  /\ how = "scores" => fused # <<>> /\ ByScores

RetrievalInv == RetrievalTypeOK /\ SearchInv /\ FusedInv /\ ReplyInv

-----------------------------------------------------------------------------
(* Steps *)

LEMMA Texts ==
  ASSUME RetrievalTypeOK
  PROVE  /\ Corpus \in Seq(Chunk) /\ Store \in Seq(Chunk)
         /\ DOMAIN Corpus = 1..Len(Corpus) /\ DOMAIN Store = 1..Len(Store)
         /\ Len(Corpus) \in Nat /\ Len(Store) \in Nat
         /\ Params.k \in Nat \ {0} /\ Params.n \in Nat \ {0} /\ Params.max \in Nat \ {0}
<1>1. lib \in [disk : Seq(FileType), indexed : Seq(FileType)]
  BY LibrariesAssumption DEF RetrievalTypeOK
<1>2. lib.disk \in Seq(FileType) /\ lib.indexed \in Seq(FileType)
  BY <1>1
<1>3. Corpus \in Seq(Chunk) /\ Store \in Seq(Chunk)
  BY <1>2, JoinsOfChunks DEF Corpus, Store
<1>4. ask.profile \in DOMAIN Defaults
  BY DEF RetrievalTypeOK
<1>5. Defaults[ask.profile] \in [k : Nat, n : Nat, max : Nat, skip : BOOLEAN]
  BY <1>4, DefaultsAssumption
<1>6. \A a \in Nat, b \in Nat \ {0} : Or(a, b) \in Nat \ {0}
  BY DEF Or
<1>7. Settings.k \in Nat \ {0} /\ Settings.n \in Nat \ {0} /\ Settings.max \in Nat \ {0}
  BY SettingsAssumption
<1>8. Params.k \in Nat \ {0} /\ Params.n \in Nat \ {0} /\ Params.max \in Nat \ {0}
  BY <1>5, <1>6, <1>7 DEF Params
<1>9. QED
  BY <1>3, <1>8, ChunksInList

LEMMA NamedChunks ==
  ASSUME RetrievalTypeOK, NEW s, s = At(Corpus, NamedPlaces)
  PROVE  /\ s \in Seq(Chunk)
         /\ \E pos : Picked(s, Corpus, NamedPlaces, pos)
         /\ \A n \in DOMAIN s : MatchFilter(s[n], ask.filter)
<1>1. NamedPlaces \in SUBSET DOMAIN Corpus
  BY DEF NamedPlaces
<1>2. s \in Seq(Chunk) /\ \E pos : Picked(s, Corpus, NamedPlaces, pos)
  BY <1>1, Texts, AtFacts
<1>3. PICK pos : Picked(s, Corpus, NamedPlaces, pos)
  BY <1>2
<1>4. \A n \in DOMAIN s : pos[n] \in NamedPlaces /\ s[n] = Corpus[pos[n]]
  BY <1>3 DEF Picked
<1>5. \A n \in DOMAIN s : MatchFilter(s[n], ask.filter)
  BY <1>4 DEF NamedPlaces
<1>6. QED
  BY <1>2, <1>5

LEMMA InitRetrieval == RetrievalInit => RetrievalInv
<1> SUFFICES ASSUME RetrievalInit PROVE RetrievalInv
  OBVIOUS
<1>1. RetrievalTypeOK
  BY DEF RetrievalInit, RetrievalTypeOK
<1>2. SearchInv
  <2>1. Params.k \in Nat /\ Len(vectorDocs) = 0 /\ Len(keywordDocs) = 0
    BY <1>1, Texts DEF RetrievalInit
  <2>2. DOMAIN vectorDocs = {} /\ DOMAIN keywordDocs = {}
    BY DEF RetrievalInit
  <2>3. QED
    BY <2>1, <2>2 DEF RetrievalInit, SearchInv
<1>3. FusedInv
  BY DEF RetrievalInit, FusedInv, Answered
<1>4. ReplyInv
  BY DEF RetrievalInit, ReplyInv
<1>5. QED
  BY <1>1, <1>2, <1>3, <1>4 DEF RetrievalInv

\* A step that leaves the searches and their result alone.
LEMMA SearchesStay ==
  ASSUME SearchInv, at # "shortcut", at' # "shortcut",
         UNCHANGED <<lib, ask, named, searched, vectorDocs, keywordDocs>>
  PROVE  SearchInv'
<1>1. Params' = Params /\ Corpus' = Corpus /\ Store' = Store
  BY DEF Params, Corpus, Store
<1>2. Matching' = Matching /\ NamedPlaces' = NamedPlaces
  BY <1>1 DEF Matching, NamedPlaces
<1>3. named' = At(Corpus', NamedPlaces')
  BY <1>1, <1>2 DEF SearchInv
<1>4. QED
  BY <1>1, <1>2, <1>3 DEF SearchInv

LEMMA FusedStays ==
  ASSUME FusedWell, UNCHANGED <<lib, ask, named, searched, vectorDocs, keywordDocs, fused>>
  PROVE  FusedWell'
<1>1. Params' = Params /\ Corpus' = Corpus /\ Store' = Store
  BY DEF Params, Corpus, Store
<1>2. FoundByBothFirst'
  BY <1>1 DEF FusedWell, FoundByBothFirst
<1>3. Matching' = Matching
  BY <1>1 DEF Matching
<1>4. AllFit'
  BY <1>1, <1>3 DEF FusedWell, AllFit, Unreplaced
<1>5. NamedAreEarly'
  BY <1>1 DEF FusedWell, NamedAreEarly, NamedBefore
<1>6. QED
  BY <1>2, <1>4, <1>5 DEF FusedWell

LEMMA ShortcutKeeps == ASSUME RetrievalInv, MetadataShortcut PROVE RetrievalInv'
<1>1. RetrievalTypeOK /\ SearchInv /\ ReplyInv
  BY DEF RetrievalInv
<1>2. /\ at = "shortcut" /\ at' = "search"
      /\ named' = At(Corpus, NamedPlaces)
      /\ UNCHANGED <<lib, ask, searched, vectorDocs, keywordDocs, fused, how, reply>>
  BY DEF MetadataShortcut, NamedPlaces
<1>3. RetrievalTypeOK'
  <2>1. named' \in Seq(Chunk)
    BY <1>1, <1>2, NamedChunks
  <2>2. QED
    BY <1>1, <1>2, <2>1 DEF RetrievalTypeOK
<1>4. SearchInv'
  <2>1. Params' = Params /\ Corpus' = Corpus /\ Store' = Store
    BY <1>2 DEF Params, Corpus, Store
  <2>2. Matching' = Matching /\ NamedPlaces' = NamedPlaces
    BY <1>2, <2>1 DEF Matching, NamedPlaces
  <2>3. QED
    BY <1>1, <1>2, <2>1, <2>2 DEF SearchInv
<1>5. fused' = <<>> /\ at' # "rank" /\ ~Answered'
  <2>1. searched = {}
    BY <1>1, <1>2 DEF SearchInv
  <2>2. fused = <<>>
    BY <2>1 DEF RetrievalInv, FusedInv, FusedWell
  <2>3. QED
    BY <1>2, <2>2 DEF Answered
<1>6. FusedInv'
  BY <1>5 DEF FusedInv
<1>7. ReplyInv'
  <2>1. how = "none"
    BY <1>1, <1>2 DEF ReplyInv
  <2>2. QED
    BY <1>1, <1>2, <2>1 DEF ReplyInv
<1>8. QED
  BY <1>3, <1>4, <1>6, <1>7 DEF RetrievalInv

\* While the searches run there is nothing to reply.
LEMMA StillSearching ==
  ASSUME RetrievalInv, at = "search", searched # {"vector", "keyword"}
  PROVE  fused = <<>> /\ how = "none" /\ reply = <<>>
<1>1. fused = <<>>
  BY DEF RetrievalInv, FusedInv, FusedWell
<1>2. QED
  BY <1>1 DEF RetrievalInv, ReplyInv

LEMMA VectorKeeps == ASSUME RetrievalInv, VectorSearch PROVE RetrievalInv'
<1>1. RetrievalTypeOK /\ SearchInv /\ ReplyInv
  BY DEF RetrievalInv
<1>2. PICK c : c = Least(Params.k, Cardinality(Matching))
  OBVIOUS
<1>3. /\ at = "search" /\ searched' = searched \cup {"vector"} /\ "vector" \notin searched
      /\ UNCHANGED <<at, lib, ask, named, keywordDocs, fused, how, reply>>
      /\ \E r \in Rankings(Matching, c) : vectorDocs' = [i \in DOMAIN r |-> Store[r[i]]]
  BY <1>2 DEF VectorSearch
<1>4. PICK r \in Rankings(Matching, c) : vectorDocs' = [i \in DOMAIN r |-> Store[r[i]]]
  BY <1>3
<1>5. Matching \in SUBSET DOMAIN Store /\ Store \in Seq(Chunk) /\ Params.k \in Nat \ {0}
  BY <1>1, Texts DEF Matching
<1>6. c \in Nat /\ c <= Params.k /\ (Matching # {} => c # 0)
  <2>1. IsFiniteSet(Matching)
    <3>1. IsFiniteSet(1..Len(Store)) /\ DOMAIN Store = 1..Len(Store)
      BY <1>5, ChunksInList, FS_Interval
    <3>2. QED
      BY <1>5, <3>1, FS_Subset
  <2>2. Cardinality(Matching) \in Nat /\ (Cardinality(Matching) = 0 <=> Matching = {})
    BY <2>1, FS_CardinalityType, FS_EmptySet
  <2>3. QED
    BY <1>2, <1>5, <2>2 DEF Least
<1>7. r \in [1..c -> Matching]
  BY <1>4 DEF Rankings
<1>8. vectorDocs' = [i \in 1..c |-> Store[r[i]]] /\ \A i \in 1..c : r[i] \in Matching
  BY <1>4, <1>7
<1>9. \A i \in 1..c : Store[r[i]] \in Chunk
  BY <1>5, <1>8, ChunksInList
<1>10. /\ vectorDocs' \in Seq(Chunk) /\ Len(vectorDocs') = c /\ DOMAIN vectorDocs' = 1..c
       /\ \A n \in 1..c : vectorDocs'[n] = Store[r[n]]
  BY <1>6, <1>8, <1>9
<1>11. RetrievalTypeOK'
  BY <1>1, <1>3, <1>10 DEF RetrievalTypeOK
<1>12. SearchInv'
  <2>1. Params' = Params /\ Corpus' = Corpus /\ Store' = Store
    BY <1>3 DEF Params, Corpus, Store
  <2>2. Matching' = Matching /\ NamedPlaces' = NamedPlaces
    BY <1>3, <2>1 DEF Matching, NamedPlaces
  <2>3. Len(vectorDocs') <= Params.k
    BY <1>6, <1>10
  <2>4. \A n \in DOMAIN vectorDocs' : \E i \in Matching : vectorDocs'[n] = Store[i]
    BY <1>8, <1>10
  <2>5. Matching # {} => vectorDocs' # <<>>
    <3>1. Len(<<>>) = 0
      OBVIOUS
    <3>2. QED
      BY <1>6, <1>10, <3>1
  <2>6. named' = At(Corpus', NamedPlaces')
    BY <1>1, <1>3, <2>1, <2>2 DEF SearchInv
  <2>7. /\ Len(keywordDocs') <= Params'.k
        /\ \A n \in DOMAIN keywordDocs' : \E i \in DOMAIN Corpus' : keywordDocs'[n] = Corpus'[i]
    BY <1>1, <1>3, <2>1 DEF SearchInv
  <2>8. QED
    BY <1>3, <2>1, <2>2, <2>3, <2>4, <2>5, <2>6, <2>7 DEF SearchInv
<1>13. fused = <<>> /\ how = "none" /\ reply = <<>>
  BY <1>3, StillSearching
<1>14. FusedInv'
  BY <1>3, <1>13 DEF FusedInv, Answered
<1>15. ReplyInv'
  BY <1>3, <1>13 DEF ReplyInv
<1>16. QED
  BY <1>11, <1>12, <1>14, <1>15 DEF RetrievalInv

LEMMA KeywordKeeps == ASSUME RetrievalInv, Bm25Search PROVE RetrievalInv'
<1>1. RetrievalTypeOK /\ SearchInv /\ ReplyInv
  BY DEF RetrievalInv
<1>2. /\ at = "search" /\ searched' = searched \cup {"keyword"} /\ "keyword" \notin searched
      /\ UNCHANGED <<at, lib, ask, named, vectorDocs, fused, how, reply>>
  BY DEF Bm25Search
<1>3. PICK m \in 0..Least(Params.k, Len(Corpus)) :
        \E r \in Rankings(DOMAIN Corpus, m) : keywordDocs' = [i \in 1..m |-> Corpus[r[i]]]
  BY DEF Bm25Search
<1>4. PICK r \in Rankings(DOMAIN Corpus, m) : keywordDocs' = [i \in 1..m |-> Corpus[r[i]]]
  BY <1>3
<1>5. Corpus \in Seq(Chunk) /\ Params.k \in Nat /\ Len(Corpus) \in Nat
  BY <1>1, Texts
<1>6. m \in Nat /\ m <= Params.k
  BY <1>5 DEF Least
<1>7. \A i \in 1..m : r[i] \in DOMAIN Corpus
  BY DEF Rankings
<1>8. \A i \in 1..m : Corpus[r[i]] \in Chunk
  BY <1>5, <1>7, ChunksInList
<1>9. /\ keywordDocs' \in Seq(Chunk) /\ Len(keywordDocs') = m /\ DOMAIN keywordDocs' = 1..m
      /\ \A n \in 1..m : keywordDocs'[n] = Corpus[r[n]]
  BY <1>4, <1>6, <1>8
<1>10. RetrievalTypeOK'
  BY <1>1, <1>2, <1>9 DEF RetrievalTypeOK
<1>11. SearchInv'
  <2>1. Params' = Params /\ Corpus' = Corpus /\ Store' = Store
    BY <1>2 DEF Params, Corpus, Store
  <2>2. Matching' = Matching /\ NamedPlaces' = NamedPlaces
    BY <1>2, <2>1 DEF Matching, NamedPlaces
  <2>3. \A n \in DOMAIN keywordDocs' : \E i \in DOMAIN Corpus : keywordDocs'[n] = Corpus[i]
    BY <1>7, <1>9
  <2>4. Len(keywordDocs') <= Params.k
    BY <1>6, <1>9
  <2>5. named' = At(Corpus', NamedPlaces')
    BY <1>1, <1>2, <2>1, <2>2 DEF SearchInv
  <2>6. /\ Len(vectorDocs') <= Params'.k
        /\ \A n \in DOMAIN vectorDocs' : \E i \in Matching' : vectorDocs'[n] = Store'[i]
        /\ "vector" \in searched' /\ Matching' # {} => vectorDocs' # <<>>
    BY <1>1, <1>2, <2>1, <2>2 DEF SearchInv
  <2>7. QED
    BY <1>2, <2>1, <2>3, <2>4, <2>5, <2>6 DEF SearchInv
<1>12. fused = <<>> /\ how = "none" /\ reply = <<>>
  BY <1>2, StillSearching
<1>13. FusedInv'
  BY <1>2, <1>12 DEF FusedInv, Answered
<1>14. ReplyInv'
  BY <1>2, <1>12 DEF ReplyInv
<1>15. QED
  BY <1>10, <1>11, <1>13, <1>14 DEF RetrievalInv

LEMMA EndKeepsAll ==
  ASSUME RetrievalInv, at # "shortcut", at' # "shortcut", at' # "rank",
         UNCHANGED <<lib, ask, named, searched, vectorDocs, keywordDocs, fused>>,
         Answered' => at = "rank"
  PROVE  SearchInv' /\ FusedInv'
<1>1. SearchInv'
  BY SearchesStay DEF RetrievalInv
<1>2. FusedInv'
  <2>1. SUFFICES ASSUME fused' # <<>> \/ at' = "rank" \/ Answered' PROVE FusedWell'
    BY DEF FusedInv
  <2>2. FusedWell
    BY <2>1 DEF RetrievalInv, FusedInv
  <2>3. QED
    BY <2>2, FusedStays
<1>3. QED
  BY <1>1, <1>2

LEMMA CutFacts ==
  ASSUME NEW s \in Seq(Chunk), NEW n \in Nat, NEW t, t = Cut(s, n)
  PROVE  /\ t \in Seq(Chunk) /\ Len(t) = Least(n, Len(s)) /\ DOMAIN t = 1..Len(t)
         /\ \A i \in DOMAIN t : i \in DOMAIN s /\ t[i] = s[i]
<1>1. PICK m : m = Least(n, Len(s))
  OBVIOUS
<1>2. m \in 0..Len(s)
  BY <1>1 DEF Least
<1>3. t = SubSeq(s, 1, m)
  BY <1>1 DEF Cut
<1>4. t \in Seq(Chunk) /\ Len(t) = m /\ DOMAIN t = 1..m /\ \A i \in 1..m : i \in DOMAIN s /\ t[i] = s[i]
  BY <1>2, <1>3
<1>5. QED
  BY <1>1, <1>4

LEMMA OrderKeeps == ASSUME RetrievalInv, KeepOrder PROVE RetrievalInv'
<1>1. RetrievalTypeOK /\ Params.n \in Nat /\ Params.max \in Nat /\ fused \in Seq(Chunk)
  BY Texts DEF RetrievalInv, RetrievalTypeOK
<1>2. /\ at = "rank" /\ at' = "done" /\ how' = "order"
      /\ UNCHANGED <<lib, ask, named, searched, vectorDocs, keywordDocs, fused>>
      /\ reply' = Cut(IF Params.rerank THEN Candidates ELSE fused, Params.n)
  BY DEF KeepOrder
<1>3. SearchInv' /\ FusedInv'
  BY <1>2, EndKeepsAll
<1>4. Candidates \in Seq(Chunk)
  BY <1>1, CutFacts DEF Candidates
<1>5. reply' \in Seq(Chunk)
  BY <1>1, <1>2, <1>4, CutFacts
<1>6. RetrievalTypeOK'
  BY <1>1, <1>2, <1>5 DEF RetrievalTypeOK
<1>7. ReplyInv'
  <2>1. Params' = Params
    BY <1>2 DEF Params
  <2>2. Candidates' = Candidates
    BY <1>2, <2>1 DEF Candidates
  <2>3. QED
    BY <1>2, <2>1, <2>2 DEF ReplyInv
<1>8. QED
  BY <1>3, <1>6, <1>7 DEF RetrievalInv

LEMMA RerankKeeps == ASSUME RetrievalInv, Rerank PROVE RetrievalInv'
<1>1. RetrievalTypeOK /\ Params.n \in Nat /\ Params.max \in Nat /\ fused \in Seq(Chunk)
  BY Texts DEF RetrievalInv, RetrievalTypeOK
<1>2. PICK c : c = Least(Params.n, Len(Candidates))
  OBVIOUS
<1>3. /\ at = "rank" /\ fused # <<>> /\ at' = "done" /\ how' = "scores"
      /\ UNCHANGED <<lib, ask, named, searched, vectorDocs, keywordDocs, fused>>
      /\ \E r \in Rankings(DOMAIN Candidates, c) : reply' = [i \in DOMAIN r |-> Candidates[r[i]]]
  BY <1>2 DEF Rerank
<1>4. PICK r \in Rankings(DOMAIN Candidates, c) : reply' = [i \in DOMAIN r |-> Candidates[r[i]]]
  BY <1>3
<1>5. SearchInv' /\ FusedInv'
  BY <1>3, EndKeepsAll
<1>6. Candidates \in Seq(Chunk)
  BY <1>1, CutFacts DEF Candidates
<1>7. c \in Nat /\ DOMAIN r = 1..c /\ \A i \in 1..c : r[i] \in DOMAIN Candidates
  BY <1>1, <1>2, <1>4, <1>6 DEF Rankings, Least
<1>8. reply' \in Seq(Chunk)
  <2>1. \A i \in 1..c : Candidates[r[i]] \in Chunk
    BY <1>6, <1>7, ChunksInList
  <2>2. QED
    BY <1>4, <1>7, <2>1
<1>9. RetrievalTypeOK'
  BY <1>1, <1>3, <1>8 DEF RetrievalTypeOK
<1>10. ReplyInv'
  <2>1. Params' = Params
    BY <1>3 DEF Params
  <2>2. Candidates' = Candidates
    BY <1>3, <2>1 DEF Candidates
  <2>3. ByScores'
    BY <1>2, <1>4, <2>1, <2>2 DEF ByScores
  <2>4. QED
    BY <1>3, <2>3 DEF ReplyInv
<1>11. QED
  BY <1>5, <1>9, <1>10 DEF RetrievalInv

LEMMA FailKeeps == ASSUME RetrievalInv, Fail PROVE RetrievalInv'
<1>1. RetrievalTypeOK /\ ReplyInv
  BY DEF RetrievalInv
<1>2. /\ at \in {"search", "rank"} /\ at' = "done" /\ how' = "error"
      /\ UNCHANGED <<lib, ask, named, searched, vectorDocs, keywordDocs, fused, reply>>
  BY DEF Fail
<1>3. SearchInv' /\ FusedInv'
  BY <1>2, EndKeepsAll DEF Answered
<1>4. RetrievalTypeOK'
  BY <1>1, <1>2 DEF RetrievalTypeOK
<1>5. ReplyInv'
  <2>1. how = "none"
    BY <1>1, <1>2 DEF ReplyInv
  <2>2. QED
    BY <1>1, <1>2, <2>1 DEF ReplyInv
<1>6. QED
  BY <1>3, <1>4, <1>5 DEF RetrievalInv

-----------------------------------------------------------------------------
(* The fused list *)

\* What a merge of given lists makes, in the state before it.
Fusing(m, p, t) ==
  /\ RetrievalTypeOK /\ SearchInv /\ at # "shortcut" /\ searched = {"vector", "keyword"}
  /\ m = RrfMerge(vectorDocs, keywordDocs) /\ p = PrependPriority(named, m)
  /\ t = PostFilter(p, ask.filter)

LEMMA WhatIsFused ==
  ASSUME NEW m, NEW p, NEW t, Fusing(m, p, t)
  PROVE  /\ Lists(vectorDocs, keywordDocs) /\ named \in Seq(Chunk)
         /\ m \in Seq(Chunk) /\ Once(m) /\ Files(m) = Files(vectorDocs) \cup Files(keywordDocs)
         /\ p \in Seq(Chunk) /\ Once(p) /\ Files(p) = Files(named) \cup Files(m)
         /\ t \in Seq(Chunk) /\ Once(t)
         /\ t = <<>> => vectorDocs = <<>> /\ keywordDocs = <<>> /\ named = <<>>
<1>1. Lists(vectorDocs, keywordDocs) /\ named \in Seq(Chunk)
  BY Texts DEF Fusing, Lists, RetrievalTypeOK, SearchInv
<1>2. m \in Seq(Chunk) /\ Once(m) /\ Files(m) = Files(vectorDocs) \cup Files(keywordDocs)
  <2>1. m = RrfMerge(vectorDocs, keywordDocs)
    BY DEF Fusing
  <2>2. QED
    BY <1>1, <2>1, RrfMergeFacts
<1>3. p \in Seq(Chunk) /\ Once(p) /\ Files(p) = Files(named) \cup Files(m)
  BY <1>1, <1>2, PrependFacts DEF Fusing
<1>4. t \in Seq(Chunk) /\ Once(t) /\ (t = <<>> => p = <<>>)
  BY <1>3, PostFilterFacts DEF Fusing
<1>5. \A s \in Seq(Chunk) : s # <<>> => Files(s) # {}
  <2> TAKE s \in Seq(Chunk)
  <2> HAVE s # <<>>
  <2>1. 1 \in DOMAIN s
    OBVIOUS
  <2>2. QED
    BY <2>1, ChunksInList
<1>6. p = <<>> => Files(p) = {}
  BY DEF Files
<1>7. t = <<>> => vectorDocs = <<>> /\ keywordDocs = <<>> /\ named = <<>>
  <2>1. vectorDocs \in Seq(Chunk) /\ keywordDocs \in Seq(Chunk)
    BY <1>1 DEF Lists
  <2>2. p = <<>> => Files(named) = {} /\ Files(vectorDocs) = {} /\ Files(keywordDocs) = {}
    BY <1>2, <1>3, <1>6
  <2>3. QED
    BY <1>1, <1>4, <1>5, <2>1, <2>2
<1>8. QED
  BY <1>1, <1>2, <1>3, <1>4, <1>7

LEMMA FusedByScore ==
  ASSUME NEW m, NEW p, NEW t, Fusing(m, p, t),
         Once(vectorDocs), Once(keywordDocs), Params.k <= RrfK + 1,
         NEW i \in DOMAIN t, NEW j \in DOMAIN t,
         t[i].file \in Files(vectorDocs) \cap Files(keywordDocs),
         t[j].file \notin Files(vectorDocs) \cap Files(keywordDocs),
         t[i].file \notin Files(named), t[j].file \notin Files(named)
  PROVE  i < j
<1>1. PICK v, w : v = vectorDocs /\ w = keywordDocs
  OBVIOUS
<1>2. /\ Lists(v, w) /\ named \in Seq(Chunk) /\ m \in Seq(Chunk) /\ Once(m)
      /\ p \in Seq(Chunk) /\ Once(p) /\ m = RrfMerge(v, w)
  BY <1>1, WhatIsFused DEF Fusing
<1>3. PICK x \in DOMAIN p : t[i] = p[x]
  BY <1>2, PostFilterFacts DEF Fusing
<1>4. PICK y \in DOMAIN p : t[j] = p[y]
  BY <1>2, PostFilterFacts DEF Fusing
<1>5. PICK a \in DOMAIN m : p[x] = m[a]
  BY <1>2, <1>3, PrependFacts DEF Fusing
<1>6. PICK b \in DOMAIN m : p[y] = m[b]
  BY <1>2, <1>4, PrependFacts DEF Fusing
<1>7. Files(v \o w) = Files(m) /\ Files(m) = Files(v) \cup Files(w)
  <2>1. Files(m) = Files(v) \cup Files(w)
    BY <1>1, WhatIsFused
  <2>2. Files(v \o w) = Files(v) \cup Files(w)
    BY <1>2, FilesJoined DEF Lists
  <2>3. QED
    BY <2>1, <2>2
<1>8. m[a].file \in Files(v) \cap Files(w) /\ m[b].file \notin Files(v) \cap Files(w)
      /\ m[a].file \in Files(v \o w) /\ m[b].file \in Files(v \o w)
  BY <1>1, <1>2, <1>3, <1>4, <1>5, <1>6, <1>7, ChunksInList
<1>9. Score(v, w, m[a].file) > Score(v, w, m[b].file)
      /\ Score(v, w, m[a].file) \in Nat /\ Score(v, w, m[b].file) \in Nat
  BY <1>1, <1>2, <1>8, ScoreFacts
<1>10. ~(b < a)
  <2>1. b < a => Score(v, w, m[b].file) >= Score(v, w, m[a].file)
    BY <1>2, RrfMergeFacts
  <2>2. QED
    BY <1>9, <2>1
<1>11. a < b
  <2>1. a # b /\ a \in Nat /\ b \in Nat
    BY <1>2, <1>8, ChunksInList
  <2>2. QED
    BY <1>10, <2>1
<1>12. x < y
  <2>1. p[x].file = m[a].file /\ p[y].file = m[b].file
    BY <1>5, <1>6
  <2>2. p[x].file \notin Files(named) /\ p[y].file \notin Files(named)
    BY <1>3, <1>4
  <2>3. QED
    BY <1>2, <1>11, <2>1, <2>2, PrependFacts DEF Fusing
<1>13. QED
  <2>1. t[i].file = p[x].file /\ t[j].file = p[y].file
    BY <1>3, <1>4
  <2>2. QED
    BY <1>2, <1>12, <2>1, PostFilterFacts DEF Fusing

LEMMA FusedFit ==
  ASSUME NEW m, NEW p, NEW t, Fusing(m, p, t),
         \A c \in ask.filter : ~c.padded, Matching # {}, \A i \in Matching : Unreplaced(Store[i])
  PROVE  \A n \in DOMAIN t : MatchFilter(t[n], ask.filter)
<1>1. PICK v, w : v = vectorDocs /\ w = keywordDocs
  OBVIOUS
<1>2. /\ Lists(v, w) /\ named \in Seq(Chunk) /\ m \in Seq(Chunk)
      /\ p \in Seq(Chunk) /\ Once(p) /\ Files(p) = Files(named) \cup Files(m)
      /\ Files(m) = Files(v) \cup Files(w) /\ m = RrfMerge(v, w)
  BY <1>1, WhatIsFused DEF Fusing
<1>3. v # <<>> /\ \A n \in DOMAIN v : \E i \in Matching : v[n] = Store[i]
  BY <1>1 DEF Fusing, SearchInv
<1>4. 1 \in DOMAIN v /\ v[1].file \in Files(v)
  <2>1. v \in Seq(Chunk)
    BY <1>2 DEF Lists
  <2>2. 1 \in DOMAIN v
    BY <1>3, <2>1
  <2>3. QED
    BY <2>1, <2>2, ChunksInList
<1>5. PICK i \in DOMAIN p : p[i].file = v[1].file
  BY <1>2, <1>4, ChunksInList
<1>6. PICK e \in Matching : v[1] = Store[e]
  BY <1>3, <1>4
<1>7. MatchFilter(p[i], ask.filter)
  <2>1. CASE \E n \in DOMAIN named : p[i] = named[n]
    <3>1. \A n \in DOMAIN named : MatchFilter(named[n], ask.filter)
      BY NamedChunks DEF Fusing, SearchInv
    <3>2. QED
      BY <2>1, <3>1
  <2>2. CASE \E n \in DOMAIN m : p[i] = m[n]
    <3>1. PICK n \in DOMAIN m : p[i] = m[n]
      BY <2>2
    <3>2. CASE \E k \in DOMAIN v : m[n] = v[k]
      <4>1. PICK k \in Matching : p[i] = Store[k]
        BY <1>3, <3>1, <3>2
      <4>2. QED
        BY <4>1 DEF Matching, BuildChromaFilter, MatchFilter
    <3>3. CASE \E k \in DOMAIN w : m[n] = w[k]
      <4>1. PICK k \in DOMAIN Corpus : p[i] = Corpus[k]
        BY <1>1, <3>1, <3>3 DEF Fusing, SearchInv
      <4>2. Corpus[k].file = Store[e].file
        BY <1>5, <1>6, <4>1
      <4>3. p[i].meta = Store[e].meta
        BY <4>1, <4>2 DEF Unreplaced
      <4>4. QED
        BY <4>3 DEF Matching, BuildChromaFilter, MatchFilter
    <3>4. QED
      BY <1>2, <3>2, <3>3, RrfMergeFacts
  <2>3. QED
    BY <1>2, <2>1, <2>2, PrependFacts DEF Fusing
<1>8. QED
  BY <1>2, <1>7, PostFilterFacts DEF Fusing

LEMMA FusedNamed ==
  ASSUME NEW m, NEW p, NEW t, Fusing(m, p, t), NEW i \in DOMAIN Corpus,
         Corpus[i].title = ask.title, ask.title # NoTitle, MatchFilter(Corpus[i], ask.filter)
  PROVE  \E n \in DOMAIN t : t[n].file = Corpus[i].file /\ n - 1 <= Cardinality(NamedBefore(i))
<1>1. /\ named \in Seq(Chunk) /\ m \in Seq(Chunk)
      /\ p \in Seq(Chunk) /\ Once(p) /\ Files(p) = Files(named) \cup Files(m) /\ t \in Seq(Chunk)
  BY WhatIsFused
<1>2. RetrievalTypeOK /\ named = At(Corpus, NamedPlaces)
  BY DEF Fusing, SearchInv
<1>3. (\E q : Picked(named, Corpus, NamedPlaces, q)) /\ \A n \in DOMAIN named : MatchFilter(named[n], ask.filter)
  BY <1>2, NamedChunks
<1>4. PICK pos : Picked(named, Corpus, NamedPlaces, pos)
  BY <1>3
<1>5. i \in NamedPlaces
  BY DEF NamedPlaces, TitleMatches
<1>6. PICK n \in DOMAIN named : pos[n] = i /\ named[n] = Corpus[i]
  BY <1>4, <1>5 DEF Picked
<1>7. PICK x \in DOMAIN p : p[x].file = named[n].file
  <2>1. named[n].file \in Files(p)
    BY <1>1, ChunksInList
  <2>2. QED
    BY <1>1, <2>1, ChunksInList
<1>8. MatchFilter(p[x], ask.filter)
  <2>1. p[x].file \in Files(named)
    BY <1>1, <1>7, ChunksInList
  <2>2. \E k \in DOMAIN named : p[x] = named[k]
    BY <1>1, <2>1, PrependFacts DEF Fusing
  <2>3. QED
    BY <1>3, <2>2
<1>9. PICK y \in DOMAIN t : t[y] = p[x] /\ y <= x
  BY <1>1, <1>8, PostFilterFacts DEF Fusing
<1>10. x - 1 <= Cardinality({named[j].file : j \in 1..(n - 1)})
  BY <1>1, <1>7, PrependFacts DEF Fusing
<1>11. {named[j].file : j \in 1..(n - 1)} \subseteq NamedBefore(i)
  <2>1. \A j \in 1..(n - 1) : pos[j] \in NamedPlaces /\ pos[j] < i /\ named[j] = Corpus[pos[j]]
    <3> TAKE j \in 1..(n - 1)
    <3>1. n \in 1..Len(named) /\ Len(named) \in Nat
      BY <1>1, ChunksInList
    <3>2. j \in 1..Len(named) /\ j < n
      BY <3>1
    <3>3. QED
      BY <1>4, <1>6, <3>1, <3>2 DEF Picked
  <2>2. \A k \in NamedPlaces : k < i => k \in 1..(i - 1)
    <3>1. \A k \in DOMAIN Corpus : k \in Nat \ {0}
      BY <1>2, Texts
    <3>2. QED
      BY <3>1 DEF NamedPlaces
  <2>3. \A j \in 1..(n - 1) : named[j].file \in NamedBefore(i)
    BY <2>1, <2>2 DEF NamedBefore, NamedPlaces
  <2>4. QED
    BY <2>3
<1>12. IsFiniteSet(NamedBefore(i))
  <2>1. NamedBefore(i) \in SUBSET Files(Corpus)
    <3>1. \A j \in 1..(i - 1) : j \in DOMAIN Corpus
      BY <1>2, Texts
    <3>2. QED
      BY <3>1 DEF NamedBefore, Files
  <2>2. IsFiniteSet(Files(Corpus))
    BY <1>2, Texts, ChunksInList
  <2>3. QED
    BY <2>1, <2>2, FS_Subset
<1>13. y - 1 <= Cardinality(NamedBefore(i))
  <2>1. PICK G : G = {named[j].file : j \in 1..(n - 1)}
    OBVIOUS
  <2>2. Cardinality(G) <= Cardinality(NamedBefore(i)) /\ IsFiniteSet(G)
    BY <1>11, <1>12, <2>1, FS_Subset
  <2>3. Cardinality(G) \in Nat /\ Cardinality(NamedBefore(i)) \in Nat
    BY <1>12, <2>2, FS_CardinalityType
  <2>4. x \in Nat /\ y \in Nat /\ x - 1 <= Cardinality(G)
    BY <1>1, <1>10, <2>1, ChunksInList
  <2>5. QED
    BY <1>9, <2>2, <2>3, <2>4
<1>14. QED
  BY <1>6, <1>7, <1>9, <1>13

LEMMA MergeKeeps == ASSUME RetrievalInv, Merge PROVE RetrievalInv'
<1>1. RetrievalTypeOK /\ SearchInv /\ ReplyInv
  BY DEF RetrievalInv
<1>2. /\ at = "search" /\ at' = "rank" /\ searched = {"vector", "keyword"}
      /\ UNCHANGED <<lib, ask, named, searched, vectorDocs, keywordDocs, how, reply>>
  BY DEF Merge
<1>3. PICK m, p : m = RrfMerge(vectorDocs, keywordDocs) /\ p = PrependPriority(named, m)
  OBVIOUS
<1>4. Fusing(m, p, fused')
  BY <1>1, <1>2, <1>3 DEF Fusing, Merge
<1>5. PICK t : t = fused'
  OBVIOUS
<1>6. Fusing(m, p, t)
  BY <1>4, <1>5
<1>7. Params' = Params /\ Corpus' = Corpus /\ Store' = Store
  BY <1>2 DEF Params, Corpus, Store
<1>8. Matching' = Matching
  BY <1>2, <1>7 DEF Matching
<1>9. /\ t \in Seq(Chunk) /\ Once(t)
      /\ t = <<>> => vectorDocs = <<>> /\ keywordDocs = <<>> /\ named = <<>>
  BY <1>6, WhatIsFused
<1>10. RetrievalTypeOK'
  BY <1>1, <1>2, <1>5, <1>9 DEF RetrievalTypeOK
<1>11. SearchInv'
  BY <1>1, <1>2, SearchesStay
<1>12. FoundByBothFirst'
  <2>1. SUFFICES ASSUME Once(vectorDocs), Once(keywordDocs), Params.k <= RrfK + 1,
                        NEW i \in DOMAIN t, NEW j \in DOMAIN t,
                        t[i].file \in Files(vectorDocs) \cap Files(keywordDocs),
                        t[j].file \notin Files(vectorDocs) \cap Files(keywordDocs),
                        {t[i].file, t[j].file} \cap Files(named) = {}
                 PROVE  i < j
    BY <1>2, <1>5, <1>7 DEF FoundByBothFirst
  <2>2. t[i].file \notin Files(named) /\ t[j].file \notin Files(named)
    BY <2>1
  <2>3. QED
    BY <1>6, <2>1, <2>2, FusedByScore
<1>13. AllFit'
  <2>1. SUFFICES ASSUME \A c \in ask.filter : ~c.padded, Matching # {},
                        \A i \in Matching : Unreplaced(Store[i])
                 PROVE  \A n \in DOMAIN t : MatchFilter(t[n], ask.filter)
    BY <1>2, <1>5, <1>7, <1>8 DEF AllFit, Unreplaced
  <2>2. QED
    BY <1>6, <2>1, FusedFit
<1>14. NamedAreEarly'
  <2>1. SUFFICES ASSUME NEW i \in DOMAIN Corpus, Corpus[i].title = ask.title, ask.title # NoTitle,
                        MatchFilter(Corpus[i], ask.filter)
                 PROVE  \E n \in DOMAIN t :
                          t[n].file = Corpus[i].file /\ n - 1 <= Cardinality(NamedBefore(i))
    BY <1>2, <1>5, <1>7 DEF NamedAreEarly, NamedBefore
  <2>2. QED
    BY <1>6, <2>1, FusedNamed
<1>15. FusedInv'
  BY <1>2, <1>5, <1>9, <1>12, <1>13, <1>14 DEF FusedInv, FusedWell
<1>16. ReplyInv'
  <2>1. how = "none"
    BY <1>1, <1>2 DEF ReplyInv
  <2>2. QED
    BY <1>1, <1>2, <2>1 DEF ReplyInv
<1>17. QED
  BY <1>10, <1>11, <1>15, <1>16 DEF RetrievalInv

LEMMA RestKeeps == ASSUME RetrievalInv, UNCHANGED retrieval PROVE RetrievalInv'
<1>1. UNCHANGED <<at, lib, ask, named, searched, vectorDocs, keywordDocs, fused, how, reply>>
  BY DEF retrieval
<1>2. RetrievalTypeOK'
  BY <1>1 DEF RetrievalInv, RetrievalTypeOK
<1>3. Params' = Params /\ Corpus' = Corpus /\ Store' = Store
  BY <1>1 DEF Params, Corpus, Store
<1>4. Matching' = Matching /\ NamedPlaces' = NamedPlaces /\ Candidates' = Candidates
  BY <1>1, <1>3 DEF Matching, NamedPlaces, Candidates
<1>5. SearchInv'
  BY <1>1, <1>3, <1>4 DEF RetrievalInv, SearchInv
<1>6. FusedInv'
  <2>1. SUFFICES ASSUME fused' # <<>> \/ at' = "rank" \/ Answered' PROVE FusedWell'
    BY DEF FusedInv
  <2>2. FusedWell
    BY <1>1, <2>1 DEF RetrievalInv, FusedInv, Answered
  <2>3. QED
    BY <1>1, <2>2, FusedStays
<1>7. ReplyInv'
  BY <1>1, <1>3, <1>4 DEF RetrievalInv, ReplyInv, ByScores
<1>8. QED
  BY <1>2, <1>5, <1>6, <1>7 DEF RetrievalInv

\* The invariant holds of every call, for any library, ranks and settings.
THEOREM RetrievalInvariant == RetrievalSpec => []RetrievalInv
<1>1. RetrievalInit => RetrievalInv
  BY InitRetrieval
<1>2. RetrievalInv /\ [RetrievalNext]_retrieval => RetrievalInv'
  <2> SUFFICES ASSUME RetrievalInv, [RetrievalNext]_retrieval PROVE RetrievalInv'
    OBVIOUS
  <2>1. CASE MetadataShortcut
    BY <2>1, ShortcutKeeps
  <2>2. CASE VectorSearch
    BY <2>2, VectorKeeps
  <2>3. CASE Bm25Search
    BY <2>3, KeywordKeeps
  <2>4. CASE Merge
    BY <2>4, MergeKeeps
  <2>5. CASE KeepOrder
    BY <2>5, OrderKeeps
  <2>6. CASE Rerank
    BY <2>6, RerankKeeps
  <2>7. CASE Fail
    BY <2>7, FailKeeps
  <2>8. CASE UNCHANGED retrieval
    BY <2>8, RestKeeps
  <2>9. QED
    BY <2>1, <2>2, <2>3, <2>4, <2>5, <2>6, <2>7, <2>8 DEF RetrievalNext
<1>3. QED
  BY <1>1, <1>2, PTL DEF RetrievalSpec

-----------------------------------------------------------------------------
(* The reply *)

\* A beginning of a list with each file once has each file once.
LEMMA CutOnce ==
  ASSUME NEW s \in Seq(Chunk), Once(s), NEW n \in Nat, NEW t, t = Cut(s, n)
  PROVE  /\ t \in Seq(Chunk) /\ Once(t)
         /\ \A i \in DOMAIN t : i \in DOMAIN s /\ t[i] = s[i]
         /\ n # 0 /\ s # <<>> => t # <<>>
         /\ \A i \in DOMAIN s : i <= n => i \in DOMAIN t
<1>1. /\ t \in Seq(Chunk) /\ Len(t) = Least(n, Len(s)) /\ DOMAIN t = 1..Len(t)
      /\ \A i \in DOMAIN t : i \in DOMAIN s /\ t[i] = s[i]
  BY CutFacts
<1>2. Once(t)
  BY <1>1 DEF Once
<1>3. Len(s) \in Nat /\ DOMAIN s = 1..Len(s) /\ (s # <<>> => Len(s) # 0)
  OBVIOUS
<1>4. n # 0 /\ s # <<>> => t # <<>>
  <2>1. Len(<<>>) = 0
    OBVIOUS
  <2>2. QED
    BY <1>1, <1>3, <2>1 DEF Least
<1>5. \A i \in DOMAIN s : i <= n => i \in DOMAIN t
  BY <1>1, <1>3 DEF Least
<1>6. QED
  BY <1>1, <1>2, <1>4, <1>5

LEMMA CandidatesFacts ==
  ASSUME RetrievalInv
  PROVE  /\ fused \in Seq(Chunk) /\ Once(fused) /\ Candidates \in Seq(Chunk) /\ Once(Candidates)
         /\ \A i \in DOMAIN Candidates : i \in DOMAIN fused /\ Candidates[i] = fused[i]
         /\ fused # <<>> => Candidates # <<>>
         /\ \A i \in DOMAIN fused : i <= Params.max => i \in DOMAIN Candidates
<1>1. fused \in Seq(Chunk) /\ Params.max \in Nat \ {0}
  BY Texts DEF RetrievalInv, RetrievalTypeOK
<1>2. Once(fused)
  <2>1. CASE fused = <<>>
    BY <2>1 DEF Once
  <2>2. CASE fused # <<>>
    BY <2>2 DEF RetrievalInv, FusedInv, FusedWell
  <2>3. QED
    BY <2>1, <2>2
<1>3. QED
  BY <1>1, <1>2, CutOnce DEF Candidates

LEMMA RepliedFacts ==
  ASSUME RetrievalInv
  PROVE  /\ reply \in Seq(Chunk) /\ Once(reply)
         /\ \A n \in DOMAIN reply : \E i \in DOMAIN fused : reply[n] = fused[i]
         /\ Answered /\ reply = <<>> => fused = <<>>
<1>1. reply \in Seq(Chunk) /\ Params.n \in Nat \ {0} /\ how \in {"none", "order", "scores", "error"}
  BY Texts DEF RetrievalInv, RetrievalTypeOK
<1>2. CASE how \in {"none", "error"}
  <2>1. reply = <<>> /\ ~Answered
    BY <1>2 DEF RetrievalInv, ReplyInv, Answered
  <2>2. QED
    BY <1>1, <2>1 DEF Once
<1>3. CASE how = "order"
  <2>1. PICK s : s = IF Params.rerank THEN Candidates ELSE fused
    OBVIOUS
  <2>2. /\ s \in Seq(Chunk) /\ Once(s) /\ (s = <<>> => fused = <<>>)
        /\ \A i \in DOMAIN s : i \in DOMAIN fused /\ s[i] = fused[i]
    BY <2>1, CandidatesFacts
  <2>3. reply = Cut(s, Params.n)
    BY <1>3, <2>1 DEF RetrievalInv, ReplyInv
  <2>4. /\ Once(reply) /\ (s # <<>> => reply # <<>>)
        /\ \A i \in DOMAIN reply : i \in DOMAIN s /\ reply[i] = s[i]
    <3>1. PICK N : N = Params.n
      OBVIOUS
    <3>2. N \in Nat /\ N # 0 /\ reply = Cut(s, N)
      BY <1>1, <2>3, <3>1
    <3>3. QED
      BY <2>2, <3>2, CutOnce
  <2>5. QED
    BY <1>1, <2>2, <2>4
<1>4. CASE how = "scores"
  <2>1. PICK c : c = Least(Params.n, Len(Candidates))
    OBVIOUS
  <2>2. fused # <<>> /\ \E r \in Rankings(DOMAIN Candidates, c) : reply = [i \in DOMAIN r |-> Candidates[r[i]]]
    BY <1>4, <2>1 DEF RetrievalInv, ReplyInv, ByScores
  <2>3. PICK r \in Rankings(DOMAIN Candidates, c) : reply = [i \in DOMAIN r |-> Candidates[r[i]]]
    BY <2>2
  <2>4. /\ DOMAIN r = 1..c /\ \A i \in 1..c : r[i] \in DOMAIN Candidates
        /\ \A i, j \in 1..c : i # j => r[i] # r[j]
    BY <2>3 DEF Rankings
  <2>5. DOMAIN reply = 1..c /\ \A i \in 1..c : reply[i] = Candidates[r[i]]
    BY <2>3, <2>4
  <2>6. Once(reply)
    <3>1. \A i, j \in 1..c : reply[i].file = reply[j].file => r[i] = r[j]
      BY <2>4, <2>5, CandidatesFacts DEF Once
    <3>2. QED
      BY <2>4, <2>5, <3>1 DEF Once
  <2>7. c # 0 /\ c \in Nat
    <3>1. Candidates \in Seq(Chunk) /\ Candidates # <<>>
      BY <2>2, CandidatesFacts
    <3>2. Len(Candidates) \in Nat /\ Len(Candidates) # 0
      BY <3>1
    <3>3. QED
      BY <1>1, <2>1, <3>2 DEF Least
  <2>8. reply # <<>>
    <3>1. 1 \in DOMAIN reply
      BY <2>5, <2>7
    <3>2. QED
      BY <3>1
  <2>9. \A n \in DOMAIN reply : \E i \in DOMAIN fused : reply[n] = fused[i]
    BY <2>4, <2>5, CandidatesFacts
  <2>10. QED
    BY <1>1, <2>6, <2>8, <2>9
<1>5. QED
  BY <1>1, <1>2, <1>3, <1>4

LEMMA ServedFacts ==
  ASSUME RetrievalInv
  PROVE  /\ Once(Served)
         /\ \A n \in DOMAIN Served : \E i \in DOMAIN fused : Served[n] = fused[i]
<1>1. ask.serve \in Nat
  BY RankAssumption DEF RetrievalInv, RetrievalTypeOK
<1>2. /\ reply \in Seq(Chunk) /\ Once(reply)
      /\ \A n \in DOMAIN reply : \E i \in DOMAIN fused : reply[n] = fused[i]
  BY RepliedFacts
<1>3. Once(Served) /\ \A n \in DOMAIN Served : n \in DOMAIN reply /\ Served[n] = reply[n]
  BY <1>1, <1>2, CutOnce DEF Served
<1>4. QED
  BY <1>2, <1>3

\* No reply has a poem twice or is empty without need, and poems that both
\* searches found are fused before those that one found.
THEOREM RepliesAreFit == RetrievalSpec => []RepliesFit
<1>1. RetrievalInv => RepliesFit
  <2> SUFFICES ASSUME RetrievalInv PROVE RepliesFit
    OBVIOUS
  <2>1. NoPoemTwice
    BY ServedFacts DEF NoPoemTwice, Once
  <2>2. BothListsWin
    <3>1. CASE fused = <<>>
      BY <3>1 DEF BothListsWin
    <3>2. CASE fused # <<>>
      BY <3>2 DEF BothListsWin, RetrievalInv, FusedInv, FusedWell, FoundByBothFirst
    <3>3. QED
      BY <3>1, <3>2
  <2>3. NeverEmptyHanded
    <3>1. SUFFICES ASSUME Answered, reply = <<>>
                   PROVE  vectorDocs = <<>> /\ keywordDocs = <<>> /\ named = <<>>
      BY DEF NeverEmptyHanded
    <3>2. fused = <<>>
      BY <3>1, RepliedFacts
    <3>3. QED
      BY <3>1, <3>2 DEF RetrievalInv, FusedInv, FusedWell
  <2>4. QED
    BY <2>1, <2>2, <2>3 DEF RepliesFit
<1>2. QED
  BY <1>1, RetrievalInvariant, PTL

\* What is served has the wanted author, dynasty and genre, or speaks of them.
THEOREM WantedIsServed == RetrievalSpec => []FilterHonoured
<1>1. RetrievalInv => FilterHonoured
  <2>1. SUFFICES ASSUME RetrievalInv, Answered, \A c \in ask.filter : ~c.padded, Matching # {},
                        \A i \in Matching : Unreplaced(Store[i]), NEW n \in DOMAIN Served
                 PROVE  Wanted(Served[n])
    BY DEF FilterHonoured
  <2>2. \A i \in DOMAIN fused : MatchFilter(fused[i], ask.filter)
    BY <2>1 DEF RetrievalInv, FusedInv, FusedWell, AllFit
  <2>3. PICK i \in DOMAIN fused : Served[n] = fused[i]
    BY <2>1, ServedFacts
  <2>4. QED
    BY <2>2, <2>3 DEF Wanted, MatchFilter
<1>2. QED
  BY <1>1, RetrievalInvariant, PTL

\* A poem asked for by its title is among the candidates, or in a reply that is
\* not reranked, unless poems of other titles that overlap take all the room.
THEOREM NamedIsConsidered == RetrievalSpec => []NamedPoemIsConsidered
<1>1. RetrievalInv => NamedPoemIsConsidered
  <2>1. SUFFICES ASSUME RetrievalInv, Answered, NEW i \in DOMAIN Corpus,
                        Corpus[i].title = ask.title, ask.title # NoTitle,
                        MatchFilter(Corpus[i], ask.filter), Cardinality(NamedBefore(i)) < Kept
                 PROVE  Corpus[i].file \in Files(IF how = "order" THEN reply ELSE Candidates)
    BY DEF NamedPoemIsConsidered
  <2>2. /\ Params.n \in Nat \ {0} /\ Params.max \in Nat \ {0} /\ fused \in Seq(Chunk)
        /\ how \in {"order", "scores"}
    BY <2>1, Texts DEF RetrievalInv, RetrievalTypeOK, ReplyInv, Answered
  <2>3. PICK n \in DOMAIN fused :
          fused[n].file = Corpus[i].file /\ n - 1 <= Cardinality(NamedBefore(i))
    BY <2>1 DEF RetrievalInv, FusedInv, FusedWell, NamedAreEarly
  <2>4. Cardinality(NamedBefore(i)) \in Nat
    <3>1. Corpus \in Seq(Chunk) /\ DOMAIN Corpus = 1..Len(Corpus) /\ Len(Corpus) \in Nat
      BY <2>1, Texts DEF RetrievalInv
    <3>2. \A j \in 1..(i - 1) : j \in DOMAIN Corpus
      BY <3>1
    <3>3. NamedBefore(i) \in SUBSET Files(Corpus)
      BY <3>2 DEF NamedBefore, Files
    <3>4. QED
      BY <3>1, <3>3, ChunksInList, FS_Subset, FS_CardinalityType
  <2>5. n \in Nat \ {0} /\ (Kept \in Nat => n <= Kept)
    <3>1. n \in Nat \ {0}
      BY <2>2, ChunksInList
    <3>2. QED
      BY <2>1, <2>3, <2>4, <3>1
  <2>6. CASE how = "scores"
    <3>1. n <= Params.max
      BY <2>2, <2>5, <2>6 DEF Kept
    <3>2. n \in DOMAIN Candidates /\ Candidates[n] = fused[n]
      BY <2>1, <3>1, CandidatesFacts
    <3>3. QED
      BY <2>3, <2>6, <3>2 DEF Files
  <2>7. CASE how = "order"
    <3>1. PICK s : s = IF Params.rerank THEN Candidates ELSE fused
      OBVIOUS
    <3>2. n <= Params.n /\ (Params.rerank => n <= Params.max)
      <4>1. Kept = IF Params.rerank THEN Least(Params.n, Params.max) ELSE Params.n
        BY <2>7 DEF Kept
      <4>2. Least(Params.n, Params.max) \in Nat
        BY <2>2 DEF Least
      <4>3. Kept \in Nat /\ n <= Kept
        BY <2>2, <2>5, <4>1, <4>2
      <4>4. QED
        BY <2>2, <2>5, <4>1, <4>3 DEF Least
    <3>3. s \in Seq(Chunk) /\ Once(s) /\ n \in DOMAIN s /\ s[n] = fused[n]
      BY <2>1, <3>1, <3>2, CandidatesFacts
    <3>4. reply = Cut(s, Params.n)
      BY <2>1, <2>7, <3>1 DEF RetrievalInv, ReplyInv
    <3>5. n \in DOMAIN reply /\ reply[n] = s[n]
      <4>1. PICK N : N = Params.n
        OBVIOUS
      <4>2. N \in Nat /\ n <= N /\ reply = Cut(s, N)
        BY <2>2, <3>2, <3>4, <4>1
      <4>3. QED
        BY <3>3, <4>2, CutOnce
    <3>6. QED
      BY <2>3, <2>7, <3>3, <3>5 DEF Files
  <2>8. QED
    BY <2>2, <2>6, <2>7
<1>2. QED
  BY <1>1, RetrievalInvariant, PTL
===============================================================================
