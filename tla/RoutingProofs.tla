---------------------------- MODULE RoutingProofs -----------------------------
(***************************************************************************)
(* Four invariants of ReactLoop, for any tools, documents, steps and       *)
(* budgets. A turn stays within its budget of searches, and every tool     *)
(* call has exactly one result when the model is asked again and when the  *)
(* turn ends: this needs to know how far the results of the last round     *)
(* have come in each phase, which is what Progress says. The answer is     *)
(* given every result, and every source once: this follows from what the   *)
(* folds over results and hits compute, unfolded one element at a time.    *)
(*                                                                         *)
(* The poem of a reference, for any titles, any number of questions and    *)
(* any order in which they end. What the memory holds is, after every      *)
(* step, exactly what the committed questions left, in the order in which  *)
(* they were committed; the newest title of it is found by unfolding the   *)
(* sequence one element at a time. So two questions about "this poem"      *)
(* answered with nothing committed between them are about the same one.    *)
(*                                                                         *)
(* The path of a question, for every set of words, all confidences and any *)
(* settings. The invariant is that each step has computed what its         *)
(* function computes of the question: the rule and its contest, the        *)
(* fusion, the path. What is left is a fact about three functions of three *)
(* files: a contested rule that was not overruled leaves the fusion below  *)
(* the threshold of the agent, any other rule above it.                    *)
(***************************************************************************)
EXTENDS ReactLoop, PoemContext, IntentRouting, Induction, TLAPS

-----------------------------------------------------------------------------
(* The ReAct loop *)

\* The results so far are those of the first calls, in their order.
Ordered(r) == \A i \in DOMAIN r.results : r.results[i].call = i

\* How far the rounds are answered in each phase.
Progress ==
  /\ \A i \in DOMAIN rounds : i < Len(rounds) => Complete(rounds[i])
  /\ phase = "ask" => \A i \in DOMAIN rounds : Complete(rounds[i])
  /\ phase = "run" => /\ Len(rounds) > 0
                      /\ Len(Last.results) < Len(Last.calls) /\ Ordered(Last)
  /\ phase \in {"end", "parked"} =>
       /\ Len(rounds) > 0
       /\ Complete(Last) \/ (Last.results = <<>> /\ Defers)
  /\ phase = "done" /\ ~told.rejected => \A i \in DOMAIN rounds : Complete(rounds[i])

\* What is left of the budget and what was spent make up the budget.
Budget == remaining \in 0..MaxSearches /\ searches = MaxSearches - remaining

IInv == rounds \in Seq(Round) /\ Budget /\ Progress

-----------------------------------------------------------------------------
(* Lemmas *)

\* An answer of the model is a sequence of names of tools.
LEMMA CallsAreNames == \A calls \in Calls : calls \in Seq(Tool \cup {Search, Unknown})
  BY BoundAssumption DEF Calls, SeqsUpTo

\* A turn begins with its whole budget and no rounds.
LEMMA InitIInv == Init => IInv
  BY SearchesAssumption DEF Init, IInv, Budget, Progress

\* Results numbered as their calls stay so when the next one is recorded.
LEMMA NextResult ==
  ASSUME NEW s \in Seq([call : Nat, is : Outcome]), NEW is \in Outcome,
         \A i \in DOMAIN s : s[i].call = i
  PROVE  LET res == Append(s, [call |-> Len(s) + 1, is |-> is])
         IN /\ res \in Seq([call : Nat, is : Outcome])
            /\ Len(res) = Len(s) + 1
            /\ \A i \in DOMAIN res : res[i].call = i
<1> DEFINE e == [call |-> Len(s) + 1, is |-> is]
           res == Append(s, e)
<1>1. Len(s) \in Nat /\ DOMAIN s = 1..Len(s)
  OBVIOUS
<1>2. e \in [call : Nat, is : Outcome] /\ e.call = Len(s) + 1
  BY <1>1
<1>3. res \in Seq([call : Nat, is : Outcome]) /\ Len(res) = Len(s) + 1
  BY <1>2
<1>4. ASSUME NEW i \in DOMAIN res PROVE res[i].call = i
  <2>1. i \in 1..(Len(s) + 1)
    BY <1>1, <1>3
  <2>2. CASE i = Len(s) + 1
    <3>1. res[i] = e
      BY <1>1, <2>2
    <3>2. QED  BY <1>2, <2>2, <3>1
  <2>3. CASE i # Len(s) + 1
    <3>1. i \in DOMAIN s
      BY <1>1, <2>1, <2>3
    <3>2. res[i] = s[i]
      BY <1>1, <3>1
    <3>3. QED  BY <3>1, <3>2
  <2>4. QED  BY <2>2, <2>3
<1>5. QED  BY <1>3, <1>4

\* Recording a result keeps the rounds well-formed and moves on to the phase
\* that fits how many results the last round has.
LEMMA AnswerKeepsProgress ==
  ASSUME rounds \in Seq(Round), Progress, phase = "run",
         NEW is \in Outcome, Answer(is), UNCHANGED <<turn, told>>
  PROVE  rounds' \in Seq(Round) /\ Progress'
<1> DEFINE n == Len(rounds)
           res == Append(rounds[n].results, [call |-> Len(rounds[n].results) + 1, is |-> is])
<1>1. n \in Nat /\ n > 0 /\ n \in DOMAIN rounds /\ rounds[n] \in Round
  BY DEF Progress
<1>2. /\ rounds[n].results \in Seq([call : Nat, is : Outcome])
      /\ rounds[n].calls \in Seq(Tool \cup {Search, Unknown})
      /\ Len(rounds[n].results) < Len(rounds[n].calls)
      /\ \A i \in DOMAIN rounds[n].results : rounds[n].results[i].call = i
  BY <1>1 DEF Progress, Last, Ordered, Round
<1>3. /\ res \in Seq([call : Nat, is : Outcome])
      /\ Len(res) = Len(rounds[n].results) + 1
      /\ \A i \in DOMAIN res : res[i].call = i
  BY <1>2, NextResult
<1>4. rounds' = [rounds EXCEPT ![n] = [rounds[n] EXCEPT !.results = res]]
  BY DEF Answer
<1>5. [rounds[n] EXCEPT !.results = res] \in Round
  BY <1>1, <1>3 DEF Round
<1>6. rounds' \in Seq(Round) /\ Len(rounds') = n /\ DOMAIN rounds' = DOMAIN rounds
  BY <1>1, <1>4, <1>5
<1>7. rounds'[n].calls = rounds[n].calls /\ rounds'[n].results = res
  BY <1>1, <1>4 DEF Round
<1>8. \A i \in DOMAIN rounds : i # n => rounds'[i] = rounds[i] /\ Complete(rounds[i])
  <2>1. \A i \in DOMAIN rounds : i # n => i < n
    BY <1>1
  <2>2. QED  BY <1>1, <1>4, <2>1 DEF Progress
<1>9. Ordered(rounds'[n])
  BY <1>3, <1>7 DEF Ordered
<1>10. CASE Len(rounds[n].results) + 1 = Len(rounds[n].calls)
  <2>1. Complete(rounds'[n])
    BY <1>3, <1>7, <1>10 DEF Complete
  <2>2. \A i \in DOMAIN rounds' : Complete(rounds'[i])
    BY <1>6, <1>8, <2>1 DEF Complete
  <2>3. phase' \in {"ask", "end"}
    BY <1>10 DEF Answer, LastOfRound, Last
  <2>4. Complete(Last')
    BY <1>6, <2>1 DEF Last
  <2>5. QED  BY <1>1, <1>6, <2>2, <2>3, <2>4 DEF Progress
<1>11. CASE Len(rounds[n].results) + 1 # Len(rounds[n].calls)
  <2>1. phase' = "run"
    BY <1>11 DEF Answer, LastOfRound, Last
  <2>2. Len(res) < Len(rounds[n].calls)
    BY <1>2, <1>3, <1>11
  <2>3. \A i \in DOMAIN rounds' : i < Len(rounds') => Complete(rounds'[i])
    BY <1>1, <1>6, <1>8 DEF Complete
  <2>4. Len(Last'.results) < Len(Last'.calls) /\ Ordered(Last')
    BY <1>6, <1>7, <1>9, <2>2 DEF Last
  <2>5. QED  BY <1>1, <1>6, <2>1, <2>3, <2>4 DEF Progress
<1>12. QED  BY <1>6, <1>10, <1>11

\* Every step keeps the invariant.
LEMMA NextIInv == IInv /\ [Next]_vars => IInv'
<1> SUFFICES ASSUME IInv, [Next]_vars PROVE IInv'
  OBVIOUS
<1> USE DEF IInv
<1>1. CASE Ask
  <2>1. PICK calls \in Calls : /\ rounds' = Append(rounds, [calls |-> calls, results |-> <<>>])
                               /\ phase' = IF calls = <<>> \/ Defers THEN "end" ELSE "run"
    BY <1>1 DEF Ask
  <2>2. calls \in Seq(Tool \cup {Search, Unknown})
    BY CallsAreNames
  <2> DEFINE r == [calls |-> calls, results |-> <<>>]
  <2>3. r \in Round
    BY <2>2 DEF Round
  <2>4. rounds' \in Seq(Round) /\ Len(rounds') = Len(rounds) + 1 /\ rounds'[Len(rounds')] = r
        /\ \A i \in DOMAIN rounds : rounds'[i] = rounds[i]
    BY <2>1, <2>3
  <2>5. \A i \in DOMAIN rounds : Complete(rounds[i])
    BY <1>1 DEF Ask, Progress
  <2>6. \A i \in DOMAIN rounds' : i < Len(rounds') => Complete(rounds'[i])
    BY <2>4, <2>5 DEF Complete
  <2>7. Last' = r
    BY <2>4 DEF Last
  <2>8. Defers' = Defers
    BY <1>1 DEF Ask, Defers
  <2>9. ASSUME calls = <<>> PROVE Progress'
    BY <2>1, <2>4, <2>6, <2>7, <2>9 DEF Progress, Complete
  <2>10. ASSUME calls # <<>>, Defers PROVE Progress'
    BY <2>1, <2>4, <2>6, <2>7, <2>8, <2>10 DEF Progress
  <2>11. ASSUME calls # <<>>, ~Defers PROVE Progress'
    <3>1. Len(calls) > 0
      BY <2>2, <2>11
    <3>2. QED  BY <2>1, <2>4, <2>6, <2>7, <2>11, <3>1 DEF Progress, Ordered
  <2>12. Progress'
    BY <2>9, <2>10, <2>11
  <2>13. QED  BY <1>1, <2>4, <2>12 DEF Ask, Budget
<1>2. CASE AskRaises
  BY <1>2 DEF AskRaises, Budget, Progress, Last, Complete
<1>3. CASE RunTool
  <2>1. PICK is \in {"data", "failed"} : Answer(is)
    BY <1>3 DEF RunTool
  <2>2. QED  BY <1>3, <2>1, AnswerKeepsProgress DEF RunTool, Budget, Outcome
<1>4. CASE RunUnknown
  BY <1>4, AnswerKeepsProgress DEF RunUnknown, Budget, Outcome
<1>5. CASE SearchRefused
  BY <1>5, AnswerKeepsProgress DEF SearchRefused, Budget, Outcome
<1>6. CASE SearchPoetry
  <2>1. PICK is \in {"data", "failed"} : Answer(is)
    BY <1>6 DEF SearchPoetry
  <2>2. rounds' \in Seq(Round) /\ Progress'
    BY <1>6, <2>1, AnswerKeepsProgress DEF SearchPoetry, Outcome
  <2>3. Budget'
    BY <1>6, SearchesAssumption DEF SearchPoetry, Budget
  <2>4. QED  BY <2>2, <2>3
<1>7. CASE Finish
  <2>1. UNCHANGED <<rounds, turn, remaining, searches>> /\ phase' \in {"parked", "done"}
    BY <1>7 DEF Finish
  <2>2. Last' = Last /\ Defers' = Defers /\ phase = "end"
    BY <1>7 DEF Finish, Last, Defers
  <2>3. Len(rounds) \in Nat /\ Len(rounds) > 0 /\ rounds[Len(rounds)] \in Round
    BY <2>2 DEF Progress
  <2>4. ASSUME phase' = "done" PROVE Complete(Last)
    <3>1. CASE Complete(Last)
      BY <3>1
    <3>2. CASE Last.results = <<>> /\ Defers
      <4>1. ~PendingToolCalls
        BY <1>7, <2>4, <3>2 DEF Finish, Defers
      <4>2. Last.calls = <<>>
        BY <2>3, <4>1 DEF PendingToolCalls, Last
      <4>3. QED  BY <3>2, <4>2 DEF Complete
    <3>3. QED  BY <2>2, <3>1, <3>2 DEF Progress
  <2>5. ASSUME phase' = "done" PROVE \A i \in DOMAIN rounds : Complete(rounds[i])
    <3>1. \A i \in DOMAIN rounds : i < Len(rounds) \/ i = Len(rounds)
      BY <2>3
    <3>2. QED  BY <2>4, <2>5, <3>1 DEF Progress, Last
  <2>6. Progress'
    BY <2>1, <2>2, <2>5 DEF Progress, Complete, Last
  <2>7. QED  BY <2>1, <2>6 DEF Budget
<1>8. CASE Reject
  BY <1>8 DEF Reject, Budget, Progress, Complete, Last
<1>9. CASE Approve
  <2>1. UNCHANGED <<turn, remaining, searches>> /\ phase = "parked" /\ phase' = "done"
    BY <1>9 DEF Approve
  <2>2. Len(rounds) \in Nat /\ Len(rounds) > 0 /\ rounds[Len(rounds)] \in Round
    BY <2>1 DEF Progress
  <2>3. \A i \in DOMAIN rounds : i < Len(rounds) \/ i = Len(rounds)
    BY <2>2
  <2>4. CASE Last.calls # <<>> /\ Last.results = <<>>
    <3>1. PICK is \in [DOMAIN Last.calls -> {"data", "failed", "unknown"}] :
            rounds' = [rounds EXCEPT ![Len(rounds)].results =
                        [i \in DOMAIN Last.calls |-> [call |-> i, is |-> is[i]]]]
      BY <1>9, <2>4 DEF Approve
    <3> DEFINE res == [i \in DOMAIN Last.calls |-> [call |-> i, is |-> is[i]]]
    <3>2. Last.calls \in Seq(Tool \cup {Search, Unknown})
      BY <2>2 DEF Last, Round
    <3>3. /\ res \in Seq([call : Nat, is : Outcome]) /\ Len(res) = Len(Last.calls)
          /\ \A i \in DOMAIN res : res[i].call = i
      <4>1. DOMAIN Last.calls = 1..Len(Last.calls) /\ Len(Last.calls) \in Nat
        BY <3>2
      <4>2. \A i \in DOMAIN Last.calls : [call |-> i, is |-> is[i]] \in [call : Nat, is : Outcome]
        BY <4>1 DEF Outcome
      <4>3. QED  BY <4>1, <4>2
    <3>4. rounds' = [rounds EXCEPT ![Len(rounds)] = [rounds[Len(rounds)] EXCEPT !.results = res]]
      BY <3>1
    <3>5. [rounds[Len(rounds)] EXCEPT !.results = res] \in Round
      BY <2>2, <3>3 DEF Round
    <3>6. rounds' \in Seq(Round) /\ Len(rounds') = Len(rounds) /\ DOMAIN rounds' = DOMAIN rounds
      BY <2>2, <3>4, <3>5
    <3>7. rounds'[Len(rounds)].calls = Last.calls /\ rounds'[Len(rounds)].results = res
      BY <2>2, <3>4 DEF Round, Last
    <3>8. Complete(rounds'[Len(rounds)])
      BY <3>3, <3>7 DEF Complete
    <3>9. \A i \in DOMAIN rounds' : Complete(rounds'[i])
      <4>1. \A i \in DOMAIN rounds : i < Len(rounds) => rounds'[i] = rounds[i] /\ Complete(rounds[i])
        BY <2>2, <3>4 DEF Progress
      <4>2. QED  BY <2>3, <3>6, <3>8, <4>1 DEF Complete
    <3>10. QED  BY <2>1, <3>6, <3>9 DEF Progress, Budget
  <2>5. CASE ~(Last.calls # <<>> /\ Last.results = <<>>)
    <3>1. rounds' = rounds
      BY <1>9, <2>5 DEF Approve
    <3>2. Complete(Last)
      BY <2>1, <2>5 DEF Progress, Complete
    <3>3. \A i \in DOMAIN rounds : Complete(rounds[i])
      BY <2>3, <3>2 DEF Progress, Last
    <3>4. QED  BY <2>1, <3>1, <3>3 DEF Progress, Complete, Budget
  <2>6. QED  BY <2>4, <2>5
<1>10. CASE UNCHANGED vars
  BY <1>10 DEF vars, Budget, Progress, Complete, Last, Ordered, Defers
<1>11. QED
  BY <1>1, <1>2, <1>3, <1>4, <1>5, <1>6, <1>7, <1>8, <1>9, <1>10 DEF Next

\* The invariant holds in every state of every turn.
THEOREM InductiveInvariant == Spec => []IInv
  BY InitIInv, NextIInv, PTL DEF Spec

\* No turn begins more retrievals than its budget, whatever the model asks
\* for and however many retrievals raise.
THEOREM BudgetIsKept == Spec => []SearchesWithinBudget
<1>1. IInv => SearchesWithinBudget
  BY SearchesAssumption DEF IInv, Budget, SearchesWithinBudget
<1>2. QED  BY <1>1, InductiveInvariant, PTL

\* Each call the model made has exactly one result, in order, whenever the
\* model is asked again and when the turn ends without a rejection.
THEOREM CallsAreAnswered == Spec => []EveryCallIsAnswered
<1>1. IInv => EveryCallIsAnswered
  BY DEF IInv, Progress, EveryCallIsAnswered
<1>2. QED  BY <1>1, InductiveInvariant, PTL

-----------------------------------------------------------------------------
(* The documents found, once each *)

\* FirstOfEach is the last of its own beginnings.
LEMMA FirstsStepByStep ==
  ASSUME NEW s \in Seq(Doc)
  PROVE  \E f \in [0..Len(s) -> Seq(Doc)] :
           /\ f[0] = <<>> /\ FirstOfEach(s) = f[Len(s)]
           /\ \A n \in 1..Len(s) :
                f[n] = IF Key[s[n]] \in Keys(f[n - 1]) THEN f[n - 1] ELSE Append(f[n - 1], s[n])
<1> DEFINE Longer(q, n) == IF Key[s[n]] \in Keys(q) THEN q ELSE Append(q, s[n])
           Is(f) == f = [n \in 0..Len(s) |-> IF n = 0 THEN <<>> ELSE Longer(f[n - 1], n)]
<1>1. PICK N, S, first, grow : /\ N = Len(s) /\ S = Seq(Doc) /\ first = <<>>
                               /\ grow = [n \in 1..N |-> [q \in S |-> Longer(q, n)]]
  OBVIOUS
<1>2. /\ N \in Nat /\ first \in S
      /\ \A n \in 1..N : s[n] \in Doc /\ n - 1 \in 0..N
  BY <1>1
<1>3. \A q \in S, n \in 1..N : Longer(q, n) \in S
  BY <1>1, <1>2
<1> HIDE DEF Longer
<1>4. /\ grow \in [1..N -> [S -> S]]
      /\ \A q \in S, n \in 1..N : grow[n][q] = Longer(q, n)
  BY <1>1, <1>3
<1>5. PICK f : f = Recursive(N, S, first, grow)
  OBVIOUS
<1>6. f \in [0..N -> S] /\ f[0] = first /\ \A n \in 1..N : f[n] = grow[n][f[n - 1]]
  <2>1. N \in Nat /\ first \in S /\ grow \in [1..N -> [S -> S]]
    BY <1>2, <1>4
  <2>2. QED
    BY <1>5, <2>1, RecursionExists
<1>7. \A n \in 1..N : f[n] = Longer(f[n - 1], n)
  BY <1>2, <1>4, <1>6
<1>8. Is(f)
  BY <1>1, <1>6, <1>7
<1>9. PICK g : g = (CHOOSE h : Is(h))
  OBVIOUS
<1>10. Is(g)
  BY <1>8, <1>9
<1>11. FirstOfEach(s) = g[N]
  BY <1>1, <1>9 DEF FirstOfEach, Longer
<1>12. g[0] = first /\ \A n \in 1..N : g[n] = Longer(g[n - 1], n)
  BY <1>1, <1>2, <1>10
<1>13. \A n \in 0..N : g[n] \in S
  <2> DEFINE T == {n \in 0..N : g[n] \in S}
  <2>1. 0 \in T
    BY <1>2, <1>12
  <2>2. ASSUME NEW n \in 1..N, n - 1 \in T PROVE n \in T
    BY <1>3, <1>12, <2>2
  <2> HIDE DEF T
  <2>3. 0..N \subseteq T
    BY <1>2, <2>1, <2>2, UpTo
  <2>4. QED
    BY <2>3 DEF T
<1>14. g \in [0..N -> S]
  BY <1>1, <1>10, <1>13
<1>15. QED
  BY <1>1, <1>11, <1>12, <1>14 DEF Longer

LEMMA AppendKeys ==
  ASSUME NEW q \in Seq(Doc), NEW d \in Doc
  PROVE  /\ Append(q, d) \in Seq(Doc) /\ Keys(Append(q, d)) = Keys(q) \cup {Key[d]}
         /\ Len(Append(q, d)) = Len(q) + 1 /\ Append(q, d)[Len(q) + 1] = d
         /\ \A i \in DOMAIN q : Append(q, d)[i] = q[i]
<1>1. /\ Append(q, d) \in Seq(Doc)
      /\ Len(Append(q, d)) = Len(q) + 1 /\ Append(q, d)[Len(q) + 1] = d
      /\ \A i \in 1..Len(q) : Append(q, d)[i] = q[i]
  OBVIOUS
<1>2. DOMAIN q = 1..Len(q) /\ DOMAIN Append(q, d) = 1..(Len(q) + 1) /\ Len(q) \in Nat
  OBVIOUS
<1>3. Keys(Append(q, d)) = Keys(q) \cup {Key[d]}
  BY <1>1, <1>2 DEF Keys
<1>4. QED
  BY <1>1, <1>2, <1>3

\* One document of each title and author that was found, and no other.
NoKeyTwice(q) == \A i, j \in DOMAIN q : i # j => Key[q[i]] # Key[q[j]]
LEMMA FirstsAreOnce ==
  ASSUME NEW s \in Seq(Doc)
  PROVE  /\ FirstOfEach(s) \in Seq(Doc) /\ NoKeyTwice(FirstOfEach(s))
         /\ Keys(FirstOfEach(s)) = Keys(s)
<1>1. PICK f \in [0..Len(s) -> Seq(Doc)] :
        /\ f[0] = <<>> /\ FirstOfEach(s) = f[Len(s)]
        /\ \A n \in 1..Len(s) :
             f[n] = IF Key[s[n]] \in Keys(f[n - 1]) THEN f[n - 1] ELSE Append(f[n - 1], s[n])
  BY FirstsStepByStep
<1>2. PICK N : N = Len(s) /\ N \in Nat
  OBVIOUS
<1> DEFINE Upto(n) == {Key[s[i]] : i \in 1..n}
           T == {n \in 0..N : NoKeyTwice(f[n]) /\ Keys(f[n]) = Upto(n)}
<1>3. 0 \in T
  <2>1. NoKeyTwice(<<>>) /\ Keys(<<>>) = {} /\ Upto(0) = {}
    BY DEF NoKeyTwice, Keys
  <2>2. QED
    BY <1>1, <1>2, <2>1
<1>4. ASSUME NEW n \in 1..N, n - 1 \in T PROVE n \in T
  <2>1. PICK q : q = f[n - 1]
    OBVIOUS
  <2>2. q \in Seq(Doc) /\ s[n] \in Doc /\ n \in 0..N /\ n - 1 \in 0..N
    BY <1>1, <1>2, <2>1
  <2>3. NoKeyTwice(q) /\ Keys(q) = Upto(n - 1)
    BY <1>4, <2>1
  <2>4. Upto(n) = Upto(n - 1) \cup {Key[s[n]]}
    <3>1. 1..n = 1..(n - 1) \cup {n}
      OBVIOUS
    <3>2. QED
      BY <3>1
  <2> HIDE DEF Upto
  <2>5. CASE Key[s[n]] \in Keys(q)
    <3>1. f[n] = q
      BY <1>1, <1>2, <2>1, <2>5
    <3>2. Upto(n) = Upto(n - 1)
      BY <2>3, <2>4, <2>5
    <3>3. QED
      BY <2>2, <2>3, <3>1, <3>2
  <2>6. CASE Key[s[n]] \notin Keys(q)
    <3>1. PICK r : r = Append(q, s[n])
      OBVIOUS
    <3>2. f[n] = r
      BY <1>1, <1>2, <2>1, <2>6, <3>1
    <3>3. /\ Keys(r) = Keys(q) \cup {Key[s[n]]} /\ r \in Seq(Doc) /\ Len(r) = Len(q) + 1
          /\ r[Len(q) + 1] = s[n] /\ \A i \in DOMAIN q : r[i] = q[i]
      BY <2>2, <3>1, AppendKeys
    <3>4. NoKeyTwice(r)
      <4>1. \A i \in DOMAIN q : Key[q[i]] # Key[s[n]]
        BY <2>6 DEF Keys
      <4>2. \A i \in DOMAIN r : i = Len(q) + 1 \/ i \in DOMAIN q
        BY <2>2, <3>3
      <4>3. \A i, j \in DOMAIN q : i # j => Key[q[i]] # Key[q[j]]
        BY <2>3 DEF NoKeyTwice
      <4>4. QED
        BY <3>3, <4>1, <4>2, <4>3 DEF NoKeyTwice
    <3>5. QED
      BY <2>2, <2>3, <2>4, <3>2, <3>3, <3>4
  <2>7. QED
    BY <2>5, <2>6
<1> HIDE DEF T
<1>5. 0..N \subseteq T
  BY <1>2, <1>3, <1>4, UpTo
<1>6. N \in T
  BY <1>2, <1>5
<1>7. Upto(N) = Keys(s)
  BY <1>2 DEF Keys
<1>8. QED
  BY <1>1, <1>2, <1>6, <1>7 DEF T

-----------------------------------------------------------------------------
(* The results of all rounds *)

Said == [round : Nat, is : Outcome]
\* What the writer is told of round n.
ResultsIn(rs, n) == [i \in DOMAIN rs[n].results |-> [round |-> n, is |-> rs[n].results[i].is]]

LEMMA RoundIsSaid ==
  ASSUME NEW rs \in Seq(Round), NEW n \in 1..Len(rs)
  PROVE  /\ ResultsIn(rs, n) \in Seq(Said)
         /\ DOMAIN ResultsIn(rs, n) = DOMAIN rs[n].results
         /\ \A i \in DOMAIN rs[n].results :
              ResultsIn(rs, n)[i] = [round |-> n, is |-> rs[n].results[i].is]
<1>1. rs[n] \in Round /\ n \in Nat
  OBVIOUS
<1>2. PICK res : res = rs[n].results
  OBVIOUS
<1>3. res \in Seq([call : Nat, is : Outcome])
  BY <1>1, <1>2 DEF Round
<1>4. /\ DOMAIN res = 1..Len(res) /\ Len(res) \in Nat
      /\ \A i \in 1..Len(res) : res[i] \in [call : Nat, is : Outcome]
  <2>1. PICK R : R = [call : Nat, is : Outcome]
    OBVIOUS
  <2>2. res \in Seq(R)
    BY <1>3, <2>1
  <2>3. DOMAIN res = 1..Len(res) /\ Len(res) \in Nat /\ \A i \in 1..Len(res) : res[i] \in R
    BY <2>2
  <2>4. QED
    BY <2>1, <2>3
<1>5. \A i \in 1..Len(res) : res[i].is \in Outcome
  BY <1>4
<1>6. PICK said : said = [i \in 1..Len(res) |-> [round |-> n, is |-> res[i].is]]
  OBVIOUS
<1>7. \A i \in 1..Len(res) : said[i] = [round |-> n, is |-> res[i].is] /\ said[i] \in Said
  BY <1>1, <1>5, <1>6 DEF Said
<1>8. DOMAIN said = 1..Len(res) /\ said = [i \in 1..Len(res) |-> said[i]]
  BY <1>6
<1>9. said \in [1..Len(res) -> Said]
  BY <1>7, <1>8
<1>10. said \in Seq(Said)
  BY <1>4, <1>9
<1>11. ResultsIn(rs, n) = said
  BY <1>2, <1>4, <1>6 DEF ResultsIn
<1>12. QED
  BY <1>2, <1>4, <1>7, <1>8, <1>10, <1>11

\* ResultsOf is the last of its own beginnings, too.
LEMMA ResultsStepByStep ==
  ASSUME NEW rs \in Seq(Round)
  PROVE  \E f \in [0..Len(rs) -> Seq(Said)] :
           /\ f[0] = <<>> /\ ResultsOf(rs) = f[Len(rs)]
           /\ \A n \in 1..Len(rs) : f[n] = f[n - 1] \o ResultsIn(rs, n)
<1> DEFINE Is(f) == f = [n \in 0..Len(rs) |-> IF n = 0 THEN <<>> ELSE f[n - 1] \o ResultsIn(rs, n)]
<1>1. PICK N, S, first, part : /\ N = Len(rs) /\ S = Seq(Said) /\ first = <<>>
                               /\ part = [n \in 1..N |-> ResultsIn(rs, n)]
  OBVIOUS
<1>2. /\ N \in Nat /\ first \in S
      /\ \A n \in 1..N : n - 1 \in 0..N /\ n \in 0..N /\ n # 0
      /\ \A n \in 0..N : n = 0 \/ n \in 1..N
  BY <1>1
<1>3. \A n \in 1..N : ResultsIn(rs, n) \in S
  BY <1>1, RoundIsSaid
<1>4. \A n \in 1..N : part[n] = ResultsIn(rs, n) /\ part[n] \in S
  BY <1>1, <1>3
<1>5. \A q, r \in S : q \o r \in S
  BY <1>1
<1>6. PICK grow : grow = [n \in 1..N |-> [q \in S |-> q \o part[n]]]
  OBVIOUS
<1>7. \A n \in 1..N : \A q \in S : q \o part[n] \in S
  BY <1>4, <1>5
<1>8. /\ grow \in [1..N -> [S -> S]]
      /\ \A n \in 1..N : \A q \in S : grow[n][q] = q \o part[n]
  BY <1>6, <1>7
<1>9. PICK f : f = Recursive(N, S, first, grow)
  OBVIOUS
<1>10. f \in [0..N -> S] /\ f[0] = first /\ \A n \in 1..N : f[n] = grow[n][f[n - 1]]
  <2>1. N \in Nat /\ first \in S /\ grow \in [1..N -> [S -> S]]
    BY <1>2, <1>8
  <2>2. QED
    BY <1>9, <2>1, RecursionExists
<1>11. \A n \in 1..N : f[n] = f[n - 1] \o part[n]
  BY <1>2, <1>8, <1>10
<1>12. \A n \in 0..N : f[n] = IF n = 0 THEN <<>> ELSE f[n - 1] \o ResultsIn(rs, n)
  <2>1. f[0] = <<>>
    BY <1>1, <1>10
  <2>2. \A n \in 1..N : f[n] = f[n - 1] \o ResultsIn(rs, n)
    BY <1>4, <1>11
  <2>3. QED
    BY <1>2, <2>1, <2>2
<1>13. Is(f)
  <2>1. DOMAIN f = 0..N /\ f = [n \in DOMAIN f |-> f[n]] /\ N = Len(rs)
    BY <1>1, <1>10
  <2>2. QED
    BY <1>12, <2>1
<1>14. PICK g : g = (CHOOSE h : Is(h))
  OBVIOUS
<1>15. Is(g)
  BY <1>13, <1>14
<1>16. ResultsOf(rs) = g[N]
  BY <1>1, <1>14 DEF ResultsOf, ResultsIn
<1>17. DOMAIN g = 0..N /\ g = [n \in DOMAIN g |-> g[n]]
  BY <1>1, <1>15
<1>18. \A n \in 0..N : g[n] = IF n = 0 THEN <<>> ELSE g[n - 1] \o ResultsIn(rs, n)
  BY <1>1, <1>15
<1> HIDE DEF Is
<1>19. g[0] = first
  BY <1>1, <1>2, <1>18
<1>20. \A n \in 1..N : g[n] = g[n - 1] \o part[n]
  BY <1>2, <1>4, <1>18
<1>21. \A n \in 0..N : g[n] \in S
  <2> DEFINE T == {n \in 0..N : g[n] \in S}
  <2>1. 0 \in T
    BY <1>2, <1>19
  <2>2. ASSUME NEW n \in 1..N, n - 1 \in T PROVE n \in T
    <3>1. g[n - 1] \in S /\ part[n] \in S
      BY <1>4, <2>2
    <3>2. g[n] \in S
      BY <1>5, <1>20, <3>1
    <3>3. QED
      BY <1>2, <3>2
  <2> HIDE DEF T
  <2>3. 0..N \subseteq T
    BY <1>2, <2>1, <2>2, UpTo
  <2>4. QED
    BY <2>3 DEF T
<1>22. g \in [0..N -> S]
  BY <1>17, <1>21
<1>23. \A n \in 1..N : g[n] = g[n - 1] \o ResultsIn(rs, n)
  BY <1>4, <1>20
<1>24. QED
  BY <1>1, <1>16, <1>19, <1>22, <1>23

\* No result is left out.
LEMMA ResultsAreAll ==
  ASSUME NEW rs \in Seq(Round), NEW n \in DOMAIN rs, NEW i \in DOMAIN rs[n].results
  PROVE  \E k \in DOMAIN ResultsOf(rs) :
           ResultsOf(rs)[k] = [round |-> n, is |-> rs[n].results[i].is]
<1>1. PICK f \in [0..Len(rs) -> Seq(Said)] :
        /\ f[0] = <<>> /\ ResultsOf(rs) = f[Len(rs)]
        /\ \A m \in 1..Len(rs) : f[m] = f[m - 1] \o ResultsIn(rs, m)
  BY ResultsStepByStep
<1>2. PICK N : N = Len(rs) /\ N \in Nat
  OBVIOUS
<1>3. PICK said : said = [round |-> n, is |-> rs[n].results[i].is]
  OBVIOUS
<1>4. n \in 1..N
  BY <1>2
<1> DEFINE T == {m \in 0..N : n <= m => \E k \in DOMAIN f[m] : f[m][k] = said}
<1>5. 0 \in T
  BY <1>2, <1>4
<1>6. ASSUME NEW m \in 1..N, m - 1 \in T PROVE m \in T
  <2>1. PICK p, q : p = f[m - 1] /\ q = ResultsIn(rs, m)
    OBVIOUS
  <2>2. p \in Seq(Said) /\ q \in Seq(Said) /\ f[m] = p \o q
    <3>1. q \in Seq(Said) /\ m \in 1..Len(rs) /\ m - 1 \in 0..Len(rs)
      BY <1>2, <2>1, RoundIsSaid
    <3>2. PICK S : S = Seq(Said)
      OBVIOUS
    <3>3. f[m - 1] \in S
      BY <1>1, <3>1, <3>2
    <3>4. QED
      BY <1>1, <2>1, <3>1, <3>2, <3>3
  <2>3. /\ \A k \in 1..Len(p) : k \in 1..Len(f[m]) /\ f[m][k] = p[k]
        /\ \A k \in 1..Len(q) : Len(p) + k \in 1..Len(f[m]) /\ f[m][Len(p) + k] = q[k]
    BY <2>2
  <2>4. DOMAIN f[m] = 1..Len(f[m]) /\ DOMAIN p = 1..Len(p) /\ DOMAIN q = 1..Len(q)
    BY <2>2
  <2>5. CASE n < m
    <3>1. m - 1 \in T /\ n <= m - 1 /\ m \in 0..N
      BY <1>4, <1>6, <2>5
    <3>2. PICK k \in DOMAIN p : p[k] = said
      BY <2>1, <3>1
    <3>3. \E l \in DOMAIN f[m] : f[m][l] = said
      BY <2>3, <2>4, <3>2
    <3>4. QED
      BY <3>1, <3>3
  <2>6. CASE n = m
    <3>1. i \in DOMAIN q /\ q[i] = said
      BY <1>2, <1>3, <1>4, <2>1, <2>6, RoundIsSaid
    <3>2. QED
      BY <2>3, <2>4, <3>1
  <2>7. CASE n > m
    BY <2>7, <1>4
  <2>8. QED
    BY <1>4, <2>5, <2>6, <2>7
<1> HIDE DEF T
<1>7. 0..N \subseteq T
  BY <1>2, <1>5, <1>6, UpTo
<1>8. N \in T /\ n <= N
  BY <1>2, <1>4, <1>7
<1>9. QED
  BY <1>1, <1>2, <1>3, <1>8 DEF T

-----------------------------------------------------------------------------
(* What the answer rests on *)

\* Everything found is among the sources, the turn is left with the first of each
\* key, and the writer is told the results of the rounds; the short path finds nothing.
Gathered ==
  /\ sources \in Seq(Doc) /\ contexts \in Seq(Seq(Doc))
  /\ \A i \in DOMAIN contexts : Keys(contexts[i]) \subseteq Keys(sources)
  /\ React /\ phase \in {"parked", "done"} => refs = FirstOfEach(sources)
  /\ ~React => refs = <<>> /\ contexts = <<>>
  /\ phase = "done" /\ ~told.rejected => told.results = ResultsOf(rounds)

LEMMA HitsAreDocuments == \A docs \in SeqsUpTo(Doc, MaxHits) : docs \in Seq(Doc)
  BY BoundAssumption DEF SeqsUpTo

LEMMA ConcatKeys ==
  ASSUME NEW q \in Seq(Doc), NEW r \in Seq(Doc)
  PROVE  q \o r \in Seq(Doc) /\ Keys(q) \subseteq Keys(q \o r) /\ Keys(r) \subseteq Keys(q \o r)
<1>1. PICK s : s = q \o r
  OBVIOUS
<1>2. /\ s \in Seq(Doc) /\ DOMAIN s = 1..(Len(q) + Len(r))
      /\ \A i \in 1..Len(q) : s[i] = q[i]
      /\ \A i \in 1..Len(r) : s[Len(q) + i] = r[i]
      /\ Len(q) \in Nat /\ Len(r) \in Nat /\ DOMAIN q = 1..Len(q) /\ DOMAIN r = 1..Len(r)
  BY <1>1
<1>3. \A i \in 1..Len(q) : i \in DOMAIN s
  BY <1>2
<1>4. \A i \in 1..Len(r) : Len(q) + i \in DOMAIN s
  BY <1>2
<1>5. Keys(q) \subseteq Keys(s)
  BY <1>2, <1>3 DEF Keys
<1>6. Keys(r) \subseteq Keys(s)
  <2>1. \A i \in DOMAIN r : Len(q) + i \in DOMAIN s /\ s[Len(q) + i] = r[i]
    BY <1>2, <1>4
  <2>2. QED
    BY <2>1 DEF Keys
<1>7. QED
  BY <1>1, <1>2, <1>5, <1>6

LEMMA NextGathered == IInv /\ Gathered /\ [Next]_vars => Gathered'
<1> SUFFICES ASSUME IInv, Gathered, [Next]_vars PROVE Gathered'
  OBVIOUS
<1>1. ASSUME UNCHANGED <<turn, contexts, sources, refs>>, phase' \notin {"parked", "done"}
      PROVE  Gathered'
  BY <1>1 DEF Gathered, React
<1>2. ASSUME NEW is, Answer(is) PROVE phase' \notin {"parked", "done"}
  BY <1>2 DEF Answer
<1>3. CASE Ask \/ AskRaises
  <2>1. UNCHANGED <<turn, contexts, sources, refs>> /\ phase' \notin {"parked", "done"}
    BY <1>3 DEF Ask, AskRaises
  <2>2. QED
    BY <2>1, <1>1
<1>4. CASE RunTool \/ RunUnknown \/ SearchRefused
  <2>1. UNCHANGED <<turn, contexts, sources, refs>> /\ phase' \notin {"parked", "done"}
    BY <1>2, <1>4 DEF RunTool, RunUnknown, SearchRefused
  <2>2. QED
    BY <2>1, <1>1
<1>5. CASE SearchPoetry
  <2>1. UNCHANGED <<turn, refs>> /\ Search \in Bound /\ phase' \notin {"parked", "done"}
    BY <1>2, <1>5 DEF SearchPoetry
  <2>2. React /\ React'
    BY <2>1, ToolAssumption DEF Bound, React
  <2>3. CASE UNCHANGED <<sources, contexts>>
    BY <2>1, <2>3, <1>1
  <2>4. ASSUME NEW docs \in SeqsUpTo(Doc, MaxHits), sources' = sources \o docs,
               contexts' = IF docs = <<>> THEN contexts ELSE Append(contexts, docs)
        PROVE  Gathered'
    <3>1. docs \in Seq(Doc) /\ sources \in Seq(Doc) /\ contexts \in Seq(Seq(Doc))
      BY HitsAreDocuments DEF Gathered
    <3>2. /\ sources' \in Seq(Doc)
          /\ Keys(sources) \subseteq Keys(sources') /\ Keys(docs) \subseteq Keys(sources')
      BY <2>4, <3>1, ConcatKeys
    <3>3. contexts' \in Seq(Seq(Doc))
      BY <2>4, <3>1
    <3>4. \A i \in DOMAIN contexts' :
            (i \in DOMAIN contexts /\ contexts'[i] = contexts[i]) \/ contexts'[i] = docs
      BY <2>4, <3>1
    <3>5. \A i \in DOMAIN contexts' : Keys(contexts'[i]) \subseteq Keys(sources')
      <4> TAKE i \in DOMAIN contexts'
      <4>1. CASE i \in DOMAIN contexts /\ contexts'[i] = contexts[i]
        <5>1. Keys(contexts[i]) \subseteq Keys(sources)
          BY <4>1 DEF Gathered
        <5>2. QED
          BY <3>2, <4>1, <5>1
      <4>2. CASE contexts'[i] = docs
        BY <3>2, <4>2
      <4>3. QED
        BY <3>4, <4>1, <4>2
    <3>6. \A i \in DOMAIN contexts' : (Keys(contexts[i]) \subseteq Keys(sources))' 
      BY <3>5
    <3>7. QED
      BY <2>1, <2>2, <3>2, <3>3, <3>5 DEF Gathered, Keys
  <2>5. QED
    BY <1>5, <2>3, <2>4 DEF SearchPoetry
<1>6. CASE Finish
  <2>1. /\ UNCHANGED <<turn, rounds, contexts, sources>> /\ phase' \in {"parked", "done"}
        /\ phase' = "done" => told'.results = ResultsOf(rounds)
    BY <1>6 DEF Finish, Defers
  <2>2. refs' = IF React THEN FirstOfEach(sources) ELSE refs
    BY <1>6 DEF Finish
  <2>3. React' = React
    BY <2>1 DEF React
  <2>4. QED
    BY <2>1, <2>2, <2>3 DEF Gathered
<1>7. CASE Reject
  <2>1. UNCHANGED <<turn, contexts, sources, refs, rounds>> /\ told'.rejected /\ phase = "parked"
    BY <1>7 DEF Reject
  <2>2. React' = React
    BY <2>1 DEF React
  <2>3. QED
    BY <2>1, <2>2 DEF Gathered
<1>8. CASE Approve
  <2>1. UNCHANGED <<turn, contexts, sources, refs>> /\ phase = "parked"
        /\ told'.results = ResultsOf(rounds')
    BY <1>8 DEF Approve
  <2>2. React' = React
    BY <2>1 DEF React
  <2>3. QED
    BY <2>1, <2>2 DEF Gathered
<1>9. CASE UNCHANGED vars
  <2>1. UNCHANGED <<phase, turn, contexts, sources, refs, rounds, told>>
    BY <1>9 DEF vars
  <2>2. React' = React
    BY <2>1 DEF React
  <2>3. QED
    BY <2>1, <2>2 DEF Gathered
<1>10. QED
  BY <1>3, <1>4, <1>5, <1>6, <1>7, <1>8, <1>9 DEF Next

LEMMA AlwaysGathered == Spec => []Gathered
<1>1. Init => Gathered
  BY DEF Init, Gathered
<1>2. QED
  BY <1>1, NextGathered, InductiveInvariant, PTL DEF Spec

\* Each document found, in whatever round, is among the sources of the answer,
\* once by title and author (react_loop.py, tool_agent.py).
THEOREM SourcesComeOnce == Spec => []SourcesOnce
<1>1. Gathered => SourcesOnce
  <2> SUFFICES ASSUME Gathered, phase \in {"parked", "done"}
               PROVE  /\ \A i, j \in DOMAIN refs : i # j => Key[refs[i]] # Key[refs[j]]
                      /\ \A i \in DOMAIN contexts : Keys(contexts[i]) \subseteq Keys(refs)
    BY DEF SourcesOnce
  <2>1. CASE React
    <3>1. sources \in Seq(Doc) /\ refs = FirstOfEach(sources)
      BY <2>1 DEF Gathered
    <3>2. NoKeyTwice(refs) /\ Keys(refs) = Keys(sources)
      BY <3>1, FirstsAreOnce
    <3>3. QED
      BY <3>2 DEF Gathered, NoKeyTwice
  <2>2. CASE ~React
    <3>1. refs = <<>> /\ contexts = <<>>
      BY <2>2 DEF Gathered
    <3>2. QED
      BY <3>1
  <2>3. QED
    BY <2>1, <2>2
<1>2. QED
  BY <1>1, AlwaysGathered, PTL

\* The writer of the answer is given every result of every round, unless the calls
\* were rejected (tool_agent.py, routes.py).
THEOREM AnswerIsGivenAll == Spec => []AnswerSeesAllResults
<1>1. IInv /\ Gathered => AnswerSeesAllResults
  <2> SUFFICES ASSUME IInv, Gathered, phase = "done", ~told.rejected,
                      NEW n \in DOMAIN rounds, NEW i \in 1..MaxCalls,
                      i \in DOMAIN rounds[n].results
               PROVE  \E k \in DOMAIN told.results :
                        told.results[k] = [round |-> n, is |-> rounds[n].results[i].is]
    BY DEF AnswerSeesAllResults, BuildStreamMessages
  <2>1. told.results = ResultsOf(rounds) /\ rounds \in Seq(Round)
    BY DEF Gathered, IInv
  <2>2. QED
    BY <2>1, ResultsAreAll
<1>2. QED
  BY <1>1, AlwaysGathered, InductiveInvariant, PTL

-----------------------------------------------------------------------------
(* Which poem is meant *)

-----------------------------------------------------------------------------
(* The newest title of a sequence *)

\* Its place, if there is one.
LEMMA NewestPlace ==
  ASSUME NEW s \in Seq(NamedPoem), NEW k \in DOMAIN s, s[k] # NoPoem,
         \A j \in DOMAIN s : s[j] # NoPoem => j <= k
  PROVE  Newest(s) = s[k]
<1> DEFINE titled == {j \in DOMAIN s : s[j] # NoPoem}
<1>1. k \in titled /\ \A j \in titled : j \in Nat /\ j <= k
  OBVIOUS
<1>2. titled # {}
  BY <1>1
<1> HIDE DEF titled
<1>3. \A i \in titled : (\A j \in titled : j <= i) => i = k
  BY <1>1
<1>4. (CHOOSE i \in titled : \A j \in titled : j <= i) = k
  BY <1>1, <1>3
<1>5. Newest(s) = IF titled = {} THEN NoPoem ELSE s[CHOOSE i \in titled : \A j \in titled : j <= i]
  BY DEF Newest, titled
<1> QED BY <1>2, <1>4, <1>5

LEMMA NewestOfNone ==
  ASSUME NEW s, \A j \in DOMAIN s : s[j] = NoPoem
  PROVE  Newest(s) = NoPoem
BY DEF Newest

\* Without a title there is none; otherwise the place is the greatest of those.
LEMMA NewestExists ==
  ASSUME NEW s \in Seq(NamedPoem)
  PROVE  \/ Newest(s) = NoPoem /\ \A j \in DOMAIN s : s[j] = NoPoem
         \/ \E k \in DOMAIN s : /\ s[k] # NoPoem /\ Newest(s) = s[k]
                                /\ \A j \in DOMAIN s : s[j] # NoPoem => j <= k
<1> DEFINE titled == {j \in DOMAIN s : s[j] # NoPoem}
<1>1. CASE titled = {}
  BY <1>1, NewestOfNone
<1>2. CASE titled # {}
  <2>1. Len(s) \in Nat /\ titled \in SUBSET (1..Len(s))
    OBVIOUS
  <2> HIDE DEF titled
  <2>2. PICK k \in titled : \A j \in titled : j <= k
    BY <1>2, <2>1, GreatestNumber
  <2>3. k \in DOMAIN s /\ s[k] # NoPoem /\ \A j \in DOMAIN s : s[j] # NoPoem => j <= k
    BY <2>2 DEF titled
  <2> QED BY <2>3, NewestPlace
<1> QED BY <1>1, <1>2

LEMMA NewestType ==
  ASSUME NEW s \in Seq(NamedPoem)
  PROVE  Newest(s) \in NamedPoem
BY NewestExists DEF NamedPoem

\* One more, with or without a title.
LEMMA NewestAppend ==
  ASSUME NEW s \in Seq(NamedPoem), NEW t \in NamedPoem
  PROVE  Newest(Append(s, t)) = IF t # NoPoem THEN t ELSE Newest(s)
<1>0. SUFFICES ASSUME NEW r, r = Append(s, t)
               PROVE  Newest(r) = IF t # NoPoem THEN t ELSE Newest(s)
  OBVIOUS
<1>1. r \in Seq(NamedPoem) /\ DOMAIN r = 1..(Len(s) + 1) /\ Len(s) \in Nat /\ DOMAIN s = 1..Len(s)
  BY <1>0
<1>2. r[Len(s) + 1] = t /\ \A j \in DOMAIN s : r[j] = s[j]
  BY <1>0
<1>3. CASE t # NoPoem
  BY <1>1, <1>2, <1>3, NewestPlace
<1>4. CASE t = NoPoem
  <2>1. CASE Newest(s) = NoPoem /\ \A j \in DOMAIN s : s[j] = NoPoem
    <3>1. \A j \in DOMAIN r : r[j] = NoPoem
      BY <1>1, <1>2, <1>4, <2>1
    <3> QED BY <1>4, <2>1, <3>1, NewestOfNone
  <2>2. ASSUME NEW k \in DOMAIN s, s[k] # NoPoem, Newest(s) = s[k],
               \A j \in DOMAIN s : s[j] # NoPoem => j <= k
        PROVE  Newest(r) = Newest(s)
    <3>1. k \in DOMAIN r /\ r[k] # NoPoem /\ \A j \in DOMAIN r : r[j] # NoPoem => j <= k
      BY <1>1, <1>2, <1>4, <2>2
    <3> QED BY <1>1, <1>2, <2>2, <3>1, NewestPlace
  <2> QED BY <1>4, <2>1, <2>2, NewestExists
<1> QED BY <1>3, <1>4

\* A question and its answer.
LEMMA NewestPair ==
  ASSUME NEW s \in Seq(NamedPoem), NEW t \in NamedPoem, NEW a \in NamedPoem
  PROVE  /\ s \o <<t, a>> \in Seq(NamedPoem)
         /\ Newest(s \o <<t, a>>) = IF a # NoPoem THEN a ELSE IF t # NoPoem THEN t ELSE Newest(s)
<1>1. s \o <<t, a>> = Append(Append(s, t), a)
  OBVIOUS
<1>2. Append(s, t) \in Seq(NamedPoem) /\ Append(Append(s, t), a) \in Seq(NamedPoem)
  OBVIOUS
<1> QED BY <1>1, <1>2, NewestAppend

-----------------------------------------------------------------------------
(* What the steps do to the turns *)

\* The fate of one turn has changed, or that of those that waited too.
FateSet(n, fate) ==
  /\ turns' \in Seq(Turn) /\ Len(turns') = Len(turns)
  /\ \A m \in DOMAIN turns : turns'[m].asked = turns[m].asked /\ turns'[m].used = turns[m].used
  /\ turns'[n].fate = fate
Others(n) == \A m \in DOMAIN turns : m # n => turns'[m] = turns[m]

LEMMA FateFacts ==
  ASSUME turns \in Seq(Turn), NEW n \in DOMAIN turns, NEW fate \in Fate,
         turns' = [turns EXCEPT ![n].fate = fate]
  PROVE  FateSet(n, fate) /\ Others(n)
<1>1. turns[n] \in Turn
  OBVIOUS
<1>2. PICK e : e = [turns[n] EXCEPT !.fate = fate]
  OBVIOUS
<1>3. e \in Turn /\ e.asked = turns[n].asked /\ e.used = turns[n].used /\ e.fate = fate
  BY <1>1, <1>2 DEF Turn
<1>4. turns' = [turns EXCEPT ![n] = e]
  BY <1>2
<1> QED BY <1>3, <1>4 DEF FateSet, Others

LEMMA SaveFacts ==
  ASSUME turns \in Seq(Turn), NEW n \in DOMAIN turns, SavePending(n)
  PROVE  /\ FateSet(n, "waiting")
         /\ \A m \in DOMAIN turns : m # n =>
              turns'[m].fate = IF turns[m].fate = "waiting" THEN "lost" ELSE turns[m].fate
<1> DEFINE t(m) == IF m = n THEN [turns[m] EXCEPT !.fate = "waiting"]
                   ELSE IF turns[m].fate = "waiting" THEN [turns[m] EXCEPT !.fate = "lost"]
                   ELSE turns[m]
<1>1. turns' = [m \in 1..Len(turns) |-> t(m)] /\ Len(turns) \in Nat
  BY DEF SavePending
<1>2. \A m \in 1..Len(turns) :
        /\ t(m) \in Turn /\ t(m).asked = turns[m].asked /\ t(m).used = turns[m].used
        /\ t(m).fate = IF m = n THEN "waiting" ELSE IF turns[m].fate = "waiting" THEN "lost" ELSE turns[m].fate
  <2>1. \A m \in 1..Len(turns) : turns[m] \in Turn
    OBVIOUS
  <2> QED BY <2>1 DEF Turn, Fate
<1> HIDE DEF t
<1>3. turns' \in Seq(Turn) /\ Len(turns') = Len(turns) /\ \A m \in 1..Len(turns) : turns'[m] = t(m)
  BY <1>1, <1>2
<1> QED BY <1>2, <1>3 DEF FateSet

\* The questions kept so far, by the poems they were about.
LEMMA AboutSeq ==
  ASSUME NEW ts \in Seq(Turn), NEW ks \in Seq(DOMAIN ts), NEW f, f = [k \in DOMAIN ks |-> ts[ks[k]].used]
  PROVE  f \in Seq(NamedPoem) /\ Len(f) = Len(ks)
<1>1. DOMAIN ks = 1..Len(ks) /\ Len(ks) \in Nat
  OBVIOUS
<1>2. \A k \in 1..Len(ks) : ts[ks[k]] \in Turn
  BY <1>1
<1>3. \A k \in 1..Len(ks) : ts[ks[k]].used \in NamedPoem
  BY <1>2 DEF Turn
<1> QED BY <1>1, <1>3
LEMMA AboutType == ASSUME PoemTypeOK PROVE About \in Seq(NamedPoem) /\ Len(About) = Len(order)
BY AboutSeq DEF About, PoemTypeOK

\* Nothing that ReferencesKeepToThePoem looks at has changed.
LEMMA SameAbout ==
  ASSUME PoemTypeOK, ReferencesKeepToThePoem, UNCHANGED <<memory, order>>, DOMAIN turns \subseteq DOMAIN turns',
         \A m \in DOMAIN turns : turns'[m].used = turns[m].used
  PROVE  ReferencesKeepToThePoem'
<1>1. About' = About
  BY DEF About, PoemTypeOK
<1>2. InTurn' = InTurn
  BY DEF InTurn
<1> QED BY <1>1, <1>2 DEF ReferencesKeepToThePoem, ResolvePoemContext

-----------------------------------------------------------------------------
(* Steps *)

LEMMA PrepareStep ==
  ASSUME PoemInv, NEW q \in Question, PrepareAgent(q)
  PROVE  PoemInv'
<1> DEFINE t == [asked |-> q, used |-> AugmentQuery(q), fate |-> "working"]
           l == Len(turns) + 1
<1>0. PoemTypeOK /\ OneOpen /\ UsedIsMeant /\ OrderIsOfKept /\ ReferencesKeepToThePoem
  BY DEF PoemInv
<1>1. t \in Turn
  BY <1>0, NewestType DEF Turn, Fate, AugmentQuery, ResolvePoemContext, Question, PoemTypeOK, NamedPoem
<1>2. t.asked = q /\ t.used = AugmentQuery(q) /\ t.fate = "working"
  OBVIOUS
<1> HIDE DEF t
<1>3. turns' \in Seq(Turn) /\ Len(turns') = l /\ turns'[l] = t /\ \A m \in DOMAIN turns : turns'[m] = turns[m]
  BY <1>0, <1>1 DEF PrepareAgent, PoemTypeOK, t
<1>4. Len(turns) < MaxTurns /\ UNCHANGED <<memory, order>> /\ \A m \in DOMAIN turns : turns[m].fate # "working"
  BY DEF PrepareAgent, AreAt
<1>5. Len(turns) \in Nat /\ DOMAIN turns = 1..Len(turns) /\ DOMAIN turns' = 1..l /\ l \notin DOMAIN turns
  BY <1>0, <1>3 DEF PoemTypeOK
<1>6. PoemTypeOK'
  <2>1. order' \in Seq(DOMAIN turns')
    BY <1>0, <1>4, <1>5 DEF PoemTypeOK
  <2> QED BY <1>0, <1>3, <1>4, <1>5, <2>1, TurnsAssumption DEF PoemTypeOK
<1>7. OneOpen'
  BY <1>0, <1>2, <1>3, <1>4, <1>5 DEF OneOpen, Open
<1>8. UsedIsMeant'
  BY <1>0, <1>2, <1>3, <1>4, <1>5 DEF UsedIsMeant, Open, AugmentQuery, ResolvePoemContext
<1>9. OrderIsOfKept'
  BY <1>0, <1>2, <1>3, <1>4, <1>5 DEF OrderIsOfKept, PoemTypeOK
<1>10. ReferencesKeepToThePoem'
  BY <1>0, <1>3, <1>4, <1>5, SameAbout
<1> QED BY <1>6, <1>7, <1>8, <1>9, <1>10 DEF PoemInv

\* A turn waits, goes on or is lost; nothing is committed.
LEMMA FateStep ==
  ASSUME PoemInv, NEW n \in DOMAIN turns, SavePending(n) \/ TakePending(n) \/ Lose(n)
  PROVE  PoemInv'
<1>0. PoemTypeOK /\ OneOpen /\ UsedIsMeant /\ OrderIsOfKept /\ ReferencesKeepToThePoem
  BY DEF PoemInv
<1>1. Len(turns) \in Nat /\ DOMAIN turns = 1..Len(turns) /\ UNCHANGED <<memory, order>> /\ turns \in Seq(Turn)
  BY <1>0 DEF PoemTypeOK, SavePending, TakePending, Lose
<1>2. \E fate \in Fate : /\ FateSet(n, fate) /\ fate # "kept" /\ turns[n].fate \in {"working", "waiting"}
                         /\ \/ /\ fate = "waiting" /\ turns[n].fate = "working"
                               /\ \A m \in DOMAIN turns : m # n =>
                                    turns'[m].fate = IF turns[m].fate = "waiting" THEN "lost" ELSE turns[m].fate
                            \/ /\ fate = "working" /\ turns[n].fate = "waiting" /\ Others(n)
                               /\ \A m \in DOMAIN turns : turns[m].fate # "working"
                            \/ fate = "lost" /\ Others(n)
  <2>1. CASE SavePending(n)
    BY <1>1, <2>1, SaveFacts DEF SavePending, Fate
  <2>2. CASE TakePending(n)
    BY <1>1, <2>2, FateFacts DEF TakePending, Fate, AreAt
  <2>3. CASE Lose(n)
    BY <1>1, <2>3, FateFacts DEF Lose, Fate
  <2> QED BY <2>1, <2>2, <2>3
<1>3. DOMAIN turns' = DOMAIN turns
  BY <1>1, <1>2 DEF FateSet
<1>4. PoemTypeOK'
  BY <1>0, <1>1, <1>2, <1>3 DEF PoemTypeOK, FateSet
<1>5. OneOpen'
  BY <1>0, <1>2, <1>3 DEF OneOpen, Open, FateSet, Others
<1>6. \A m \in DOMAIN turns : Open(m)' => Open(m)
  BY <1>2, <1>3 DEF Open, FateSet, Others
<1>7. UsedIsMeant'
  BY <1>0, <1>1, <1>2, <1>3, <1>6 DEF UsedIsMeant, FateSet
<1>8. \A m \in DOMAIN turns : turns'[m].fate = "kept" <=> turns[m].fate = "kept"
  BY <1>2 DEF FateSet, Others
<1>9. OrderIsOfKept'
  BY <1>0, <1>1, <1>3, <1>8 DEF OrderIsOfKept
<1>10. ReferencesKeepToThePoem'
  BY <1>0, <1>1, <1>2, <1>3, SameAbout DEF FateSet
<1> QED BY <1>4, <1>5, <1>7, <1>9, <1>10 DEF PoemInv

LEMMA CommitStep ==
  ASSUME PoemInv, NEW n \in DOMAIN turns, CommitAgentState(n)
  PROVE  PoemInv'
<1> DEFINE c == Len(order) + 1
<1>0. PoemTypeOK /\ OneOpen /\ UsedIsMeant /\ OrderIsOfKept /\ ReferencesKeepToThePoem
  BY DEF PoemInv
<1>1. turns \in Seq(Turn) /\ Len(turns) \in Nat /\ DOMAIN turns = 1..Len(turns) /\ turns[n].fate = "working"
  BY <1>0 DEF PoemTypeOK, CommitAgentState
<1>2. FateSet(n, "kept") /\ Others(n)
  BY <1>1, FateFacts DEF CommitAgentState, Fate
<1>3. DOMAIN turns' = DOMAIN turns
  BY <1>1, <1>2 DEF FateSet
<1>4. /\ order' \in Seq(DOMAIN turns) /\ DOMAIN order' = 1..c /\ order'[c] = n
      /\ DOMAIN order = 1..Len(order) /\ Len(order) \in Nat /\ \A k \in DOMAIN order : order'[k] = order[k]
  BY <1>0 DEF PoemTypeOK, CommitAgentState
<1> HIDE DEF c
<1>5. turns[n].asked.title \in NamedPoem /\ turns[n].used \in NamedPoem
  <2>1. turns[n] \in Turn
    BY <1>1
  <2> QED BY <2>1 DEF Turn, Question
<1>6. PICK a \in {NoPoem, turns[n].used} : memory' = memory \o <<turns[n].asked.title, a>>
  BY DEF CommitAgentState
<1>7. /\ memory' \in Seq(NamedPoem)
      /\ Newest(memory') = IF a # NoPoem THEN a
                           ELSE IF turns[n].asked.title # NoPoem THEN turns[n].asked.title ELSE Newest(memory)
  <2>1. a \in NamedPoem /\ memory \in Seq(NamedPoem)
    BY <1>0, <1>5 DEF PoemTypeOK, NamedPoem
  <2> QED BY <1>5, <1>6, <2>1, NewestPair
<1>8. PoemTypeOK'
  BY <1>0, <1>2, <1>3, <1>4, <1>7 DEF PoemTypeOK, FateSet
<1>9. OneOpen'
  BY <1>0, <1>1, <1>2, <1>3 DEF OneOpen, Open, FateSet, Others
<1>10. UsedIsMeant'
  <2> SUFFICES ASSUME NEW m \in DOMAIN turns
               PROVE  /\ ~NeedsPoemContext(turns'[m].asked) => turns'[m].used = turns'[m].asked.title
                      /\ ~(Open(m)' /\ \A k \in DOMAIN order' : order'[k] <= m)
    BY <1>3 DEF UsedIsMeant
  <2>1. ~NeedsPoemContext(turns'[m].asked) => turns'[m].used = turns'[m].asked.title
    BY <1>0, <1>2 DEF UsedIsMeant, FateSet
  <2>2. Open(m)' => m # n /\ turns[m].fate = "waiting"
    BY <1>0, <1>1, <1>2 DEF OneOpen, Open, FateSet, Others
  <2>3. Open(m)' => m < n
    BY <1>0, <1>1, <2>2 DEF OneOpen
  <2>4. c \in DOMAIN order' /\ order'[c] = n
    BY <1>4 DEF c
  <2> QED BY <1>1, <2>1, <2>3, <2>4
<1>11. OrderIsOfKept'
  <2>1. ASSUME NEW m \in DOMAIN turns PROVE turns'[m].fate = "kept" <=> \E k \in DOMAIN order' : order'[k] = m
    <3>1. (\E k \in DOMAIN order' : order'[k] = m) <=> m = n \/ \E k \in DOMAIN order : order[k] = m
      BY <1>4 DEF c
    <3>2. turns'[m].fate = "kept" <=> m = n \/ turns[m].fate = "kept"
      BY <1>2 DEF FateSet, Others
    <3> QED BY <1>0, <3>1, <3>2 DEF OrderIsOfKept
  <2>2. \A k \in DOMAIN order : order[k] # n
    BY <1>0, <1>1 DEF OrderIsOfKept
  <2>3. \A j, k \in DOMAIN order' : order'[j] = order'[k] => j = k
    BY <1>0, <1>4, <2>2 DEF OrderIsOfKept, c
  <2> QED BY <1>3, <2>1, <2>3 DEF OrderIsOfKept
<1>12. ReferencesKeepToThePoem'
  <2> SUFFICES ASSUME InTurn' PROVE Newest(memory') = Newest(About')
    BY DEF ReferencesKeepToThePoem, ResolvePoemContext, NeedsPoemContext
  <2>1. InTurn /\ \A k \in DOMAIN order : order[k] < n
    BY <1>4 DEF InTurn, c
  <2>2. Newest(memory) = Newest(About)
    BY <1>0, <2>1 DEF ReferencesKeepToThePoem, ResolvePoemContext, NeedsPoemContext
  <2>3. About' = Append(About, turns[n].used)
    <3>1. About \in Seq(NamedPoem) /\ Len(About) = Len(order) /\ DOMAIN About = DOMAIN order
      BY <1>0, AboutType DEF About
    <3>2. DOMAIN About' = 1..c /\ About' \in Seq(NamedPoem)
      BY <1>4, <1>8, AboutSeq DEF About, PoemTypeOK
    <3>3. \A k \in DOMAIN order : About'[k] = About[k]
      BY <1>0, <1>2, <1>4 DEF About, FateSet, PoemTypeOK, c
    <3>4. About'[c] = turns[n].used
      BY <1>2, <1>4 DEF About, FateSet, c
    <3> QED BY <1>4, <1>5, <3>1, <3>2, <3>3, <3>4 DEF c
  <2>4. Newest(About') = IF turns[n].used # NoPoem THEN turns[n].used ELSE Newest(About)
    BY <1>0, <1>5, <2>3, AboutType, NewestAppend
  <2>5. CASE NeedsPoemContext(turns[n].asked)
    <3>1. turns[n].used = Newest(memory) /\ turns[n].asked.title = NoPoem
      BY <1>0, <1>1, <2>1, <2>5 DEF UsedIsMeant, Open, NeedsPoemContext, PoemTypeOK
    <3> QED BY <1>7, <2>2, <2>4, <3>1
  <2>6. CASE ~NeedsPoemContext(turns[n].asked)
    <3>1. turns[n].used = turns[n].asked.title
      BY <1>0, <2>6 DEF UsedIsMeant
    <3> QED BY <1>7, <2>2, <2>4, <3>1
  <2> QED BY <2>5, <2>6
<1> QED BY <1>8, <1>9, <1>10, <1>11, <1>12 DEF PoemInv

\* What a question is answered about, and what the memory holds of it.
THEOREM PoemInvariant == PoemSpec => []PoemInv
<1>1. PoemInit => PoemInv
  <2> SUFFICES ASSUME PoemInit PROVE PoemInv
    OBVIOUS
  <2>1. PoemTypeOK /\ OneOpen /\ UsedIsMeant /\ OrderIsOfKept
    BY TurnsAssumption DEF PoemInit, PoemTypeOK, OneOpen, UsedIsMeant, OrderIsOfKept
  <2>2. Newest(memory) = NoPoem /\ Newest(About) = NoPoem
    BY NewestOfNone DEF PoemInit, About
  <2> QED BY <2>1, <2>2 DEF PoemInv, ReferencesKeepToThePoem, ResolvePoemContext
<1>2. PoemInv /\ [PoemNext]_poems => PoemInv'
  <2>1. CASE UNCHANGED poems
    <3>1. UNCHANGED <<turns, memory, order>>
      BY <2>1 DEF poems
    <3>2. UNCHANGED <<PoemTypeOK, OneOpen, UsedIsMeant, OrderIsOfKept, About, InTurn>>
      BY <3>1 DEF PoemTypeOK, OneOpen, UsedIsMeant, OrderIsOfKept, About, InTurn, Open
    <3> QED BY <3>1, <3>2 DEF PoemInv, ReferencesKeepToThePoem, ResolvePoemContext
  <2>2. PoemInv /\ PoemNext => PoemInv'
    BY PrepareStep, FateStep, CommitStep DEF PoemNext
  <2> QED BY <2>1, <2>2
<1> QED BY <1>1, <1>2, PTL DEF PoemSpec

\* resolve_poem_context, on the messages that were committed, finds the poem of the
\* last turn that was answered about one, however many questions refer to it.
THEOREM ReferencesKept == PoemSpec => []ReferencesKeepToThePoem
<1>1. PoemInv => ReferencesKeepToThePoem
  BY DEF PoemInv
<1> QED BY <1>1, PoemInvariant, PTL

-----------------------------------------------------------------------------
(* The path of a question *)

-----------------------------------------------------------------------------
(* The rules *)

IsRule(r) ==
  r \in [name : {r.name}, intent : VALID_INTENTS, priority : 1..100, confidence : Nat]
\* No rule of the table is less certain, and only a title alone is less certain than
\* what a suggestion may overrule.
LowestConfidence == 7500
OverruledBelow == 8000

LEMMA RulesAreTyped ==
  /\ \A r \in Rules : IsRule(r) /\ r.confidence >= LowestConfidence
  /\ \A r \in Rules : r.name # "poem_title" => r.confidence >= OverruledBelow
  /\ NoRule \notin Rules
<1>1. \A r \in Rules : IsRule(r)
  <2>1. \A r \in Rules : r.intent \in VALID_INTENTS
    BY DEF Rules, IntentRule, VALID_INTENTS
  <2>2. \A r \in Rules : r.priority \in 1..100
    BY DEF Rules, IntentRule
  <2>3. \A r \in Rules : r.confidence \in Nat
    BY DEF Rules, IntentRule
  <2>4. \A r \in Rules : r = [name |-> r.name, intent |-> r.intent, priority |-> r.priority,
                              confidence |-> r.confidence]
    BY DEF Rules, IntentRule
  <2>5. QED
    BY <2>1, <2>2, <2>3, <2>4 DEF IsRule
<1>2. \A r \in Rules : r.confidence >= LowestConfidence
  BY DEF Rules, IntentRule, LowestConfidence
<1>3. NoRule.priority = 0
  BY DEF NoRule, IntentRule
<1>4. \A r \in Rules : r.priority # 0
  BY <1>1 DEF IsRule
<1>5. \A r \in Rules : r.name # "poem_title" => r.confidence >= OverruledBelow
  BY DEF Rules, IntentRule, OverruledBelow
<1>6. QED
  BY <1>1, <1>2, <1>3, <1>4, <1>5

\* Of the rules that match the first is one, and none is above it.
LEMMA BestFacts ==
  ASSUME NEW m \in SUBSET Rules, m # {}
  PROVE  Best(m) \in m /\ \A o \in m : o.priority <= Best(m).priority
<1>1. \A r \in m : r.priority \in 1..100
  BY RulesAreTyped DEF IsRule
<1>2. PICK P : P = {r.priority : r \in m}
  OBVIOUS
<1>3. P \in SUBSET (1..100) /\ P # {}
  BY <1>1, <1>2
<1>4. PICK x \in P : \A y \in P : y <= x
  BY <1>3, GreatestNumber
<1>5. PICK r \in m : r.priority = x
  BY <1>2, <1>4
<1>6. \A o \in m : o.priority <= r.priority
  BY <1>2, <1>4, <1>5
<1>7. QED
  BY <1>6 DEF Best

LEMMA NothingResolved == ResolveRuleMatch({})[1] = NoRule /\ ResolveRuleMatch({})[2] = FALSE
BY DEF ResolveRuleMatch

\* A contested rule is lowered, the others keep their confidence.
LEMMA ResolvedFacts ==
  ASSUME NEW m \in SUBSET Rules, m # {}, NEW rr, NEW contested,
         rr = ResolveRuleMatch(m)[1], contested = ResolveRuleMatch(m)[2]
  PROVE  /\ rr # NoRule
         /\ rr.intent = Best(m).intent
         /\ rr.confidence \in Nat
         /\ \/ contested = TRUE /\ rr.confidence <= RULE_AMBIGUOUS_CONFIDENCE_CAP
            \/ /\ contested = FALSE /\ rr.confidence >= LowestConfidence
               /\ rr.name # "poem_title" => rr.confidence >= OverruledBelow
<1>1. PICK b : b = Best(m)
  OBVIOUS
<1>2. /\ IsRule(b) /\ b.confidence >= LowestConfidence
      /\ b.name # "poem_title" => b.confidence >= OverruledBelow
  BY <1>1, BestFacts, RulesAreTyped
<1>3. /\ b \in [name : {b.name}, intent : VALID_INTENTS, priority : 1..100, confidence : Nat]
      /\ b.confidence \in Nat /\ b.confidence >= LowestConfidence /\ b.priority # 0
      /\ b.name # "poem_title" => b.confidence >= OverruledBelow
  BY <1>2 DEF IsRule
<1>4. NoRule.priority = 0
  BY DEF NoRule, IntentRule
<1>5. CASE IsAmbiguousRuleMatch(m)
  <2>1. PICK e : e = [b EXCEPT !.confidence = AtMost(@, RULE_AMBIGUOUS_CONFIDENCE_CAP)]
    OBVIOUS
  <2>2. ResolveRuleMatch(m) = <<e, TRUE>>
    BY <1>1, <1>5, <2>1 DEF ResolveRuleMatch
  <2>3. e.intent = b.intent /\ e.priority = b.priority /\ e.confidence = RULE_AMBIGUOUS_CONFIDENCE_CAP
    BY <1>3, <2>1 DEF AtMost, RULE_AMBIGUOUS_CONFIDENCE_CAP, LowestConfidence
  <2>4. rr = e /\ contested = TRUE
    BY <2>2
  <2>5. e # NoRule
    BY <1>3, <1>4, <2>3
  <2>6. QED
    BY <1>1, <2>3, <2>4, <2>5 DEF RULE_AMBIGUOUS_CONFIDENCE_CAP
<1>6. CASE ~IsAmbiguousRuleMatch(m)
  <2>1. ResolveRuleMatch(m) = <<b, FALSE>>
    BY <1>1, <1>6 DEF ResolveRuleMatch
  <2>2. rr = b /\ contested = FALSE
    BY <2>1
  <2>3. QED
    BY <1>1, <1>3, <1>4, <2>2
<1>7. QED
  BY <1>5, <1>6

LEMMA ResolvedTypes ==
  ASSUME NEW m \in SUBSET Rules
  PROVE  ResolveRuleMatch(m)[1] \in RuleType /\ ResolveRuleMatch(m)[2] \in BOOLEAN
<1>1. CASE m = {}
  <2>1. NoRule \in RuleType
    <3>1. "chat" \in VALID_INTENTS
      BY DEF VALID_INTENTS
    <3>2. QED
      BY <3>1 DEF NoRule, IntentRule, RuleType
  <2>2. QED
    BY <1>1, <2>1, NothingResolved
<1>2. CASE m # {}
  <2>1. PICK b, N : b = Best(m) /\ N = {r.name : r \in Rules} \cup {"none"}
    OBVIOUS
  <2>2. b \in Rules /\ IsRule(b)
    BY <1>2, <2>1, BestFacts, RulesAreTyped
  <2>3. b.name \in N
    BY <2>1, <2>2
  <2>4. b \in [name : N, intent : VALID_INTENTS, priority : Nat, confidence : Nat]
    BY <2>2, <2>3 DEF IsRule
  <2>5. CASE IsAmbiguousRuleMatch(m)
    <3>1. PICK e : e = [b EXCEPT !.confidence = AtMost(@, RULE_AMBIGUOUS_CONFIDENCE_CAP)]
      OBVIOUS
    <3>2. e \in [name : N, intent : VALID_INTENTS, priority : Nat, confidence : Nat]
      BY <2>4, <3>1 DEF AtMost, RULE_AMBIGUOUS_CONFIDENCE_CAP
    <3>3. ResolveRuleMatch(m) = <<e, TRUE>>
      BY <1>2, <2>1, <2>5, <3>1 DEF ResolveRuleMatch
    <3>4. QED
      BY <2>1, <3>2, <3>3 DEF RuleType
  <2>6. CASE ~IsAmbiguousRuleMatch(m)
    <3>1. ResolveRuleMatch(m) = <<b, FALSE>>
      BY <1>2, <2>1, <2>6 DEF ResolveRuleMatch
    <3>2. QED
      BY <2>1, <2>4, <3>1 DEF RuleType
  <2>7. QED
    BY <2>5, <2>6
<1>3. QED
  BY <1>1, <1>2

LEMMA MatchesAreRules == \A q : MatchIntentRules(q) \in SUBSET Rules
BY DEF MatchIntentRules

-----------------------------------------------------------------------------
(* Types *)

ResultType == [intent : VALID_INTENTS, confidence : Nat, source : Sources]

LEMMA ClassifiedTypes ==
  ASSUME NEW i \in VALID_INTENTS, NEW c \in Nat, NEW s \in Sources
  PROVE  Classified(i, s, c) \in ResultType
BY DEF Classified, ResultType

LEMMA Words ==
  /\ "chat" \in VALID_INTENTS
  /\ {"none", "empty", "rule", "suggested", "rule+suggested", "llm"} \subseteq Sources
  /\ {"title"} \subseteq AllKeywords
BY DEF VALID_INTENTS, Sources, AllKeywords

LEMMA FusionTypes ==
  ASSUME NEW r \in RuleType, NEW contested \in BOOLEAN,
         NEW s \in [intent : VALID_INTENTS, confidence : Nat]
  PROVE  FuseRuleAndSuggested(r, contested, s) \in ResultType
<1>1. /\ r.intent \in VALID_INTENTS /\ r.confidence \in Nat
      /\ s.intent \in VALID_INTENTS /\ s.confidence \in Nat
  BY DEF RuleType
<1>2. PICK agreed : agreed = IF r.confidence >= s.confidence THEN r.confidence ELSE s.confidence
  OBVIOUS
<1>3. agreed \in Nat /\ AtMost(agreed, 6200) \in Nat
  BY <1>1, <1>2 DEF AtMost
<1>4. AtMost(r.confidence, 5500) \in Nat /\ AtMost(r.confidence, 6200) \in Nat
  BY <1>1 DEF AtMost
<1>5. (s.confidence * 92) \div 100 \in Nat
  BY <1>1
<1>6. NoResult \in ResultType
  BY Words, ClassifiedTypes DEF NoResult
<1>7. PICK low : low = (s.confidence * 92) \div 100
  OBVIOUS
<1>8. \/ FuseRuleAndSuggested(r, contested, s) = NoResult
      \/ \E i \in {r.intent, s.intent}, src \in {"rule", "suggested", "rule+suggested"},
            c \in {agreed, AtMost(agreed, 6200), low, AtMost(r.confidence, 5500),
                   AtMost(r.confidence, 6200), r.confidence, s.confidence} :
           FuseRuleAndSuggested(r, contested, s) = Classified(i, src, c)
  BY <1>2, <1>7 DEF FuseRuleAndSuggested
<1>9. QED
  BY <1>1, <1>3, <1>4, <1>5, <1>6, <1>7, <1>8, Words, ClassifiedTypes

LEMMA InitIntentTypes == IntentInit => IntentTypeOK
<1>1. NoRule \in RuleType
  <2>1. {} \in SUBSET Rules
    OBVIOUS
  <2>2. QED
    BY <2>1, ResolvedTypes, NothingResolved
<1>2. NoResult \in ResultType
  BY Words, ClassifiedTypes DEF NoResult
<1>3. NoSuggestion \in [intent : VALID_INTENTS, confidence : Nat]
  BY Words DEF NoSuggestion
<1>4. QED
  BY <1>1, <1>2, <1>3 DEF IntentInit, IntentTypeOK, ResultType

LEMMA NextIntentTypes == IntentTypeOK /\ [IntentNext]_routing => IntentTypeOK'
<1> SUFFICES ASSUME IntentTypeOK, [IntentNext]_routing PROVE IntentTypeOK'
  OBVIOUS
<1>1. CASE \E word \in Keyword : Type(word)
  <2>1. PICK word \in Keyword : Type(word)
    BY <1>1
  <2>2. question' \subseteq AllKeywords
    BY <2>1, VocabularyAssumption DEF Type, IntentTypeOK
  <2>3. QED
    BY <2>1, <2>2 DEF Type, IntentTypeOK
<1>2. CASE Submit
  <2>1. suggestion' \in [intent : VALID_INTENTS, confidence : Nat]
    <3>1. suggestion' = NoSuggestion \/ suggestion' \in [intent : Suggested, confidence : Confidence]
      BY <1>2 DEF Submit
    <3>2. NoSuggestion \in [intent : VALID_INTENTS, confidence : Nat]
      BY Words DEF NoSuggestion
    <3>3. Suggested \subseteq VALID_INTENTS /\ Confidence \subseteq Nat
      BY VocabularyAssumption, ConfidenceAssumption
    <3>4. QED
      BY <3>1, <3>2, <3>3
  <2>2. QED
    BY <1>2, <2>1 DEF Submit, IntentTypeOK
<1>3. CASE PrepareQueryForIntent
  <2>1. augmented' \subseteq AllKeywords
    BY <1>3, Words DEF PrepareQueryForIntent, AugmentQueryWithContext, IntentTypeOK
  <2>2. result' = result \/ result' \in ResultType
    BY <1>3, Words, ClassifiedTypes DEF PrepareQueryForIntent
  <2>3. QED
    BY <1>3, <2>1, <2>2 DEF PrepareQueryForIntent, IntentTypeOK, ResultType
<1>4. CASE MatchRules
  <2>1. MatchIntentRules(augmented) \in SUBSET Rules
    BY MatchesAreRules
  <2>2. rule' \in RuleType /\ ambiguous' \in BOOLEAN
    BY <1>4, <2>1, ResolvedTypes DEF MatchRules
  <2>3. QED
    BY <1>4, <2>2 DEF MatchRules, IntentTypeOK
<1>5. CASE Fuse
  <2>1. result' \in ResultType
    BY <1>5, FusionTypes DEF Fuse, IntentTypeOK
  <2>2. step' \in {"classify", "route"}
    BY <1>5 DEF Fuse
  <2>3. QED
    BY <1>5, <2>1, <2>2 DEF Fuse, IntentTypeOK, ResultType
<1>6. CASE LlmClassifyIntent
  <2>1. result' \in ResultType
    BY <1>6, Words, ClassifiedTypes, ConfidenceAssumption DEF LlmClassifyIntent
  <2>2. QED
    BY <1>6, <2>1 DEF LlmClassifyIntent, IntentTypeOK, ResultType
<1>7. CASE Route
  <2>1. path' \in {"react_low_confidence", "rag_retrieve", "general_chat", "react_loop",
                   "legacy_single", "parallel"}
    BY <1>7 DEF Route, PathOf
  <2>2. refers' \in BOOLEAN
    BY <1>7 DEF Route, RefersToPoem, IntentTypeOK
  <2>3. QED
    BY <1>7, <2>1, <2>2 DEF Route, IntentTypeOK
<1>8. CASE UNCHANGED routing
  BY <1>8 DEF routing, IntentTypeOK
<1>9. QED
  BY <1>1, <1>2, <1>3, <1>4, <1>5, <1>6, <1>7, <1>8 DEF IntentNext

\* The types of the classification, for any words and confidences.
THEOREM RoutingTypes == IntentSpec => []IntentTypeOK
BY InitIntentTypes, NextIntentTypes, PTL DEF IntentSpec

-----------------------------------------------------------------------------
(* The invariant: what each step computed is what it computes *)

RuleFits == /\ rule = ResolveRuleMatch(MatchIntentRules(augmented))[1]
            /\ ambiguous = ResolveRuleMatch(MatchIntentRules(augmented))[2]
Fused == FuseRuleAndSuggested(rule, ambiguous, suggestion)
EmptyQuestion == question = {} /\ rule = NoRule /\ result = Classified("chat", "empty", 10000)
FusedResult == Fused # NoResult /\ result = Fused
AskedTheModel == Fused = NoResult /\ result.source = "llm" /\ result.intent \in VALID_INTENTS
Routed == IF compound THEN path \in {PathOf(HandedOn(result), refers), "parallel"} /\ (path = "parallel" => ~refers)
          ELSE refers = RefersToPoem(question) /\ path = PathOf(result, refers)

IntentInv ==
  /\ step \in {"ask", "resolve", "match", "fuse", "classify", "route", "done"}
  /\ suggestion.confidence \in Nat /\ compound \in BOOLEAN /\ (~compound => suggestion = NoSuggestion)
  /\ step # "done" => ~refers
  /\ step \notin {"ask", "resolve"} => augmented = AugmentQueryWithContext(question, known)
  /\ step \in {"ask", "resolve", "match"} => rule = NoRule
  /\ step \in {"fuse", "classify"} => RuleFits
  /\ step = "classify" => Fused = NoResult
  /\ step \in {"route", "done"} =>
       \/ EmptyQuestion
       \/ RuleFits /\ (AskedTheModel \/ FusedResult)
  /\ step = "done" => Routed

LEMMA InitIntent == IntentInit => IntentInv
<1>1. NoSuggestion.confidence \in Nat
  BY DEF NoSuggestion
<1>2. QED
  BY <1>1 DEF IntentInit, IntentInv

LEMMA NextIntent == IntentInv /\ [IntentNext]_routing => IntentInv'
<1> SUFFICES ASSUME IntentInv, [IntentNext]_routing PROVE IntentInv'
  OBVIOUS
<1>1. CASE \E word \in Keyword : Type(word)
  BY <1>1 DEF Type, IntentInv
<1>2. CASE Submit
  <2>1. suggestion'.confidence \in Nat
    <3>1. suggestion' \in {NoSuggestion} \cup [intent : Suggested, confidence : Confidence]
      BY <1>2 DEF Submit
    <3>2. NoSuggestion.confidence = 0
      BY DEF NoSuggestion
    <3>3. CASE suggestion' = NoSuggestion
      BY <3>2, <3>3
    <3>4. CASE suggestion' \in [intent : Suggested, confidence : Confidence]
      <4>1. suggestion'.confidence \in Confidence
        BY <3>4
      <4>2. QED
        BY <4>1, ConfidenceAssumption
    <3>5. QED
      BY <3>1, <3>3, <3>4
  <2>2. QED
    BY <1>2, <2>1 DEF Submit, IntentInv
<1>3. CASE PrepareQueryForIntent
  <2>1. augmented' = AugmentQueryWithContext(question', known')
    BY <1>3 DEF PrepareQueryForIntent
  <2>2. CASE step' = "match"
    BY <1>3, <2>1, <2>2 DEF PrepareQueryForIntent, IntentInv
  <2>3. CASE question = {} /\ step' = "route" /\ result' = Classified("chat", "empty", 10000)
    <3>1. EmptyQuestion'
      BY <1>3, <2>3 DEF PrepareQueryForIntent, IntentInv, EmptyQuestion
    <3>2. QED
      BY <1>3, <2>1, <2>3, <3>1 DEF PrepareQueryForIntent, IntentInv
  <2>4. QED
    BY <1>3, <2>2, <2>3 DEF PrepareQueryForIntent
<1>4. CASE MatchRules
  <2>1. RuleFits'
    BY <1>4 DEF MatchRules, RuleFits
  <2>2. QED
    BY <1>4, <2>1 DEF MatchRules, IntentInv
<1>5. CASE Fuse
  <2>1. RuleFits' /\ Fused' = Fused
    BY <1>5 DEF Fuse, IntentInv, RuleFits, Fused
  <2>2. result' = Fused /\ step' = IF Fused = NoResult THEN "classify" ELSE "route"
    BY <1>5 DEF Fuse, Fused
  <2>3. CASE Fused = NoResult
    BY <1>5, <2>1, <2>2, <2>3 DEF Fuse, IntentInv
  <2>4. CASE Fused # NoResult
    <3>1. FusedResult'
      BY <2>1, <2>2, <2>4 DEF FusedResult
    <3>2. QED
      BY <1>5, <2>1, <2>2, <2>4, <3>1 DEF Fuse, IntentInv
  <2>5. QED
    BY <2>3, <2>4
<1>6. CASE LlmClassifyIntent
  <2>1. RuleFits' /\ Fused' = Fused /\ Fused = NoResult
    BY <1>6 DEF LlmClassifyIntent, IntentInv, RuleFits, Fused
  <2>2. result'.source = "llm" /\ result'.intent \in VALID_INTENTS
    BY <1>6 DEF LlmClassifyIntent, Classified
  <2>3. AskedTheModel'
    BY <2>1, <2>2 DEF AskedTheModel
  <2>4. QED
    BY <1>6, <2>1, <2>3 DEF LlmClassifyIntent, IntentInv
<1>7. CASE Route
  <2>1. /\ step = "route" /\ step' = "done"
        /\ UNCHANGED <<question, known, augmented, compound, suggestion, rule, ambiguous, result>>
    BY <1>7 DEF Route
  <2>2. EmptyQuestion \/ (RuleFits /\ (AskedTheModel \/ FusedResult))
    BY <2>1 DEF IntentInv
  <2>3. (EmptyQuestion \/ (RuleFits /\ (AskedTheModel \/ FusedResult)))'
    BY <2>1, <2>2 DEF EmptyQuestion, RuleFits, AskedTheModel, FusedResult, Fused
  <2>4. Routed'
    <3>1. (HandedOn(result) = HandedOn(result))' /\ HandedOn(result)' = HandedOn(result)
      BY <2>1 DEF HandedOn
    <3>2. PathOf(HandedOn(result), refers)' = PathOf(HandedOn(result), refers')
      BY <3>1 DEF PathOf, ShouldReactFallback, ShouldUseReactToolLoop
    <3>3. PathOf(result, refers)' = PathOf(result, refers')
      BY <2>1 DEF PathOf, ShouldReactFallback, ShouldUseReactToolLoop
    <3>4. RefersToPoem(question)' = RefersToPoem(question)
      BY <2>1 DEF RefersToPoem
    <3>5. CASE ~compound
      BY <1>7, <2>1, <3>3, <3>4, <3>5 DEF Route, Routed
    <3>6. CASE compound
      <4>1. ~refers
        BY <2>1 DEF IntentInv
      <4>2. \A i, c, r : PathOf(Classified(i, "none", c), r) # "parallel"
        BY DEF PathOf
      <4>3. PathOf(HandedOn(result), refers') # "parallel"
        BY <4>2 DEF HandedOn
      <4>4. QED
        BY <1>7, <2>1, <3>2, <3>6, <4>1, <4>3 DEF Route, Routed
    <3>7. QED
      BY <3>5, <3>6
  <2>5. QED
    BY <2>1, <2>3, <2>4 DEF IntentInv
<1>8. CASE UNCHANGED routing
  BY <1>8 DEF routing, IntentInv, EmptyQuestion, RuleFits, AskedTheModel, FusedResult, Fused, Routed
<1>9. QED
  BY <1>1, <1>2, <1>3, <1>4, <1>5, <1>6, <1>7, <1>8 DEF IntentNext

LEMMA AlwaysRouted == IntentSpec => []IntentInv
BY InitIntent, NextIntent, PTL DEF IntentSpec

-----------------------------------------------------------------------------
(* What fusion makes of a rule *)

LEMMA RuleFacts ==
  ASSUME RuleFits
  PROVE  \/ rule = NoRule /\ ambiguous = FALSE
         \/ /\ rule # NoRule /\ rule.confidence \in Nat
            /\ \/ ambiguous = TRUE /\ rule.confidence <= RULE_AMBIGUOUS_CONFIDENCE_CAP
               \/ /\ ambiguous = FALSE /\ rule.confidence >= LowestConfidence
                  /\ rule.name # "poem_title" => rule.confidence >= OverruledBelow
<1>1. PICK m : m = MatchIntentRules(augmented)
  OBVIOUS
<1>2. m \in SUBSET Rules
  BY <1>1, MatchesAreRules
<1>3. rule = ResolveRuleMatch(m)[1] /\ ambiguous = ResolveRuleMatch(m)[2]
  BY <1>1 DEF RuleFits
<1>4. CASE m = {}
  BY <1>3, <1>4, NothingResolved
<1>5. CASE m # {}
  BY <1>2, <1>3, <1>5, ResolvedFacts
<1>6. QED
  BY <1>4, <1>5

LEMMA FusedFacts ==
  ASSUME RuleFits, suggestion.confidence \in Nat, NEW r, r = Fused
  PROVE  /\ r = NoResult => rule = NoRule
         /\ rule # NoRule /\ suggestion = NoSuggestion => r.intent = rule.intent
         /\ rule # NoRule /\ ~ambiguous /\ rule.name # "poem_title" => r.intent = rule.intent
         /\ r # NoResult => r.source \in {"rule", "suggested", "rule+suggested"}
         /\ r # NoResult /\ suggestion = NoSuggestion =>
              /\ rule # NoRule /\ r.source = "rule"
              /\ ambiguous => r.confidence < REACT_THRESHOLD
              /\ ~ambiguous => r.confidence >= LowestConfidence /\ r.confidence \in Int
<1>1. PICK rc, sc : rc = rule.confidence /\ sc = suggestion.confidence
  OBVIOUS
<1>2. sc \in Nat /\ (suggestion = NoSuggestion => sc < SUGGESTED_INTENT_MIN_CONF)
  BY <1>1 DEF NoSuggestion, SUGGESTED_INTENT_MIN_CONF
<1>3. \/ rule = NoRule
      \/ /\ rc \in Nat
         /\ \/ ambiguous = TRUE /\ rc <= RULE_AMBIGUOUS_CONFIDENCE_CAP
            \/ /\ ambiguous = FALSE /\ rc >= LowestConfidence
               /\ rule.name # "poem_title" => rc >= OverruledBelow
  BY <1>1, RuleFacts
<1>4. NoResult.source = "none"
  BY DEF NoResult, Classified
<1>5. CASE rule # NoRule /\ sc >= SUGGESTED_INTENT_MIN_CONF
  <2>1. suggestion # NoSuggestion
    BY <1>2, <1>5 DEF SUGGESTED_INTENT_MIN_CONF
  <2>2. \/ r.source = "rule+suggested" /\ r.intent = rule.intent
        \/ r.source = "suggested" /\ rc < OverruledBelow
        \/ r.source = "rule" /\ r.intent = rule.intent
    BY <1>1, <1>5 DEF Fused, FuseRuleAndSuggested, Classified, OverruledBelow
  <2>3. r # NoResult
    BY <1>4, <2>2
  <2>4. ~ambiguous /\ rule.name # "poem_title" => ~(rc < OverruledBelow)
    BY <1>3, <1>5 DEF OverruledBelow
  <2>5. QED
    BY <2>1, <2>2, <2>3, <2>4
<1>6. CASE rule # NoRule /\ ~(sc >= SUGGESTED_INTENT_MIN_CONF)
  <2>1. r = Classified(rule.intent, "rule", rc)
    BY <1>1, <1>6 DEF Fused, FuseRuleAndSuggested
  <2>2. r.source = "rule" /\ r.confidence = rc /\ r.intent = rule.intent
    BY <2>1 DEF Classified
  <2>3. r # NoResult
    BY <1>4, <2>2
  <2>4. QED
    BY <1>3, <1>6, <2>2, <2>3
       DEF REACT_THRESHOLD, LowestConfidence, RULE_AMBIGUOUS_CONFIDENCE_CAP
<1>7. CASE rule = NoRule /\ sc >= SUGGESTED_INTENT_MIN_CONF
  <2>1. r.source = "suggested" /\ suggestion # NoSuggestion
    BY <1>1, <1>2, <1>7 DEF Fused, FuseRuleAndSuggested, Classified, SUGGESTED_INTENT_MIN_CONF
  <2>2. QED
    BY <1>4, <1>7, <2>1
<1>8. CASE rule = NoRule /\ ~(sc >= SUGGESTED_INTENT_MIN_CONF)
  <2>1. r = NoResult
    BY <1>1, <1>8 DEF Fused, FuseRuleAndSuggested
  <2>2. QED
    BY <1>8, <2>1
<1>9. QED
  BY <1>5, <1>6, <1>7, <1>8

\* The order of the table: an image before all, the background of a poem next.
LEMMA FirstRules ==
  ASSUME NEW q, NEW b, b = Best(MatchIntentRules(q))
  PROVE  /\ "image" \in q => MatchIntentRules(q) # {} /\ b.intent = "tool_writing"
         /\ "bgPhrase" \in q /\ "image" \notin q =>
              MatchIntentRules(q) # {} /\ b.intent # "tool_writing"
<1>1. PICK m : m = MatchIntentRules(q)
  OBVIOUS
<1>2. m \in SUBSET Rules /\ \A r \in Rules : r \in m <=> Match(r.name, Says(q))
  BY <1>1 DEF MatchIntentRules
<1>3. PICK image : image = IntentRule("image_writing", "tool_writing", 100, 10000)
  OBVIOUS
<1>4. PICK background : background = IntentRule("poem_background", "rag", 96, 9200)
  OBVIOUS
<1>5. image \in Rules /\ background \in Rules
  BY <1>3, <1>4 DEF Rules
<1>6. \A r \in Rules : r.priority \in 1..100 /\ (r.priority > 96 => r = image)
                       /\ (r.priority = 96 => r = background)
  BY <1>3, <1>4 DEF Rules, IntentRule
<1>7. /\ image.name = "image_writing" /\ image.priority = 100 /\ image.intent = "tool_writing"
      /\ background.name = "poem_background" /\ background.priority = 96 /\ background.intent = "rag"
  BY <1>3, <1>4 DEF IntentRule
<1>8. image \in m <=> "image" \in q
  <2>1. Match("image_writing", Says(q)) <=> "image" \in Says(q)
    BY DEF Match
  <2>2. "image" \in Says(q) <=> "image" \in q
    BY DEF Says
  <2>3. QED
    BY <1>2, <1>5, <1>7, <2>1, <2>2
<1>9. "bgPhrase" \in q => background \in m
  <2>1. Match("poem_background", Says(q)) <=> IsPoemBackgroundQuery(Says(q))
    BY DEF Match
  <2>2. "bgPhrase" \in q => IsPoemBackgroundQuery(Says(q))
    BY DEF Says, IsPoemBackgroundQuery
  <2>3. QED
    BY <1>2, <1>5, <1>7, <2>1, <2>2
<1>10. m # {} => b \in m /\ \A o \in m : o.priority <= b.priority
  BY <1>1, <1>2, BestFacts
<1>11. CASE "image" \in q
  <2>1. b \in Rules /\ 100 <= b.priority
    BY <1>2, <1>7, <1>8, <1>10, <1>11
  <2>2. b = image
    BY <1>6, <2>1
  <2>3. QED
    BY <1>1, <1>7, <1>8, <1>11, <2>2
<1>12. CASE "bgPhrase" \in q /\ "image" \notin q
  <2>1. b \in Rules /\ b \in m /\ 96 <= b.priority /\ b # image
    BY <1>2, <1>7, <1>8, <1>9, <1>10, <1>12
  <2>2. b = background
    BY <1>6, <2>1
  <2>3. QED
    BY <1>1, <1>7, <1>9, <1>12, <2>2
<1>13. QED
  BY <1>11, <1>12

\* The table gives the intent: of the poem's background and of an image always, of every
\* rule but a title alone if it is uncontested.
LEMMA IntentOfRule ==
  ASSUME IntentInv, step = "done"
  PROVE  BackgroundIsNotWriting /\ CertainRuleDecides
<1>1. suggestion.confidence \in Nat /\ (EmptyQuestion \/ (RuleFits /\ (AskedTheModel \/ FusedResult)))
  BY DEF IntentInv
<1>2. CASE EmptyQuestion
  BY <1>2 DEF EmptyQuestion, BackgroundIsNotWriting, CertainRuleDecides, NoRule, IntentRule
<1>3. CASE RuleFits /\ (AskedTheModel \/ FusedResult)
  <2>1. PICK r : r = Fused
    OBVIOUS
  <2>2. /\ r = NoResult => rule = NoRule
        /\ rule # NoRule /\ suggestion = NoSuggestion => r.intent = rule.intent
        /\ rule # NoRule /\ ~ambiguous /\ rule.name # "poem_title" => r.intent = rule.intent
    BY <1>1, <1>3, <2>1, FusedFacts
  <2>3. rule # NoRule => result = r
    BY <1>3, <2>1, <2>2 DEF AskedTheModel, FusedResult
  <2>4. CertainRuleDecides
    <3>1. NoRule.name = "none"
      BY DEF NoRule, IntentRule
    <3>2. QED
      BY <2>2, <2>3, <3>1 DEF CertainRuleDecides
  <2>5. BackgroundIsNotWriting
    <3>1. SUFFICES ASSUME suggestion = NoSuggestion
                   PROVE  /\ "image" \in question => result.intent = "tool_writing"
                          /\ "bgPhrase" \in question /\ "image" \notin question =>
                               result.intent # "tool_writing"
      BY DEF BackgroundIsNotWriting
    <3>2. PICK m, b : m = MatchIntentRules(augmented) /\ b = Best(m)
      OBVIOUS
    <3>3. /\ "image" \in augmented <=> "image" \in question
          /\ "bgPhrase" \in augmented <=> "bgPhrase" \in question
      BY DEF IntentInv, AugmentQueryWithContext
    <3>4. m # {} => rule.intent = b.intent /\ rule # NoRule
      <4>1. m \in SUBSET Rules
        BY <3>2, MatchesAreRules
      <4>2. rule = ResolveRuleMatch(m)[1] /\ ambiguous = ResolveRuleMatch(m)[2]
        BY <1>3, <3>2 DEF RuleFits
      <4>3. QED
        BY <3>2, <4>1, <4>2, ResolvedFacts
    <3>5. rule # NoRule => result.intent = rule.intent
      BY <2>2, <2>3, <3>1
    <3>6. QED
      BY <3>2, <3>3, <3>4, <3>5, FirstRules
  <2>6. QED
    BY <2>4, <2>5
<1>4. QED
  BY <1>1, <1>2, <1>3

\* The doubt and the rounds of ReAct go together, for every question and all
\* confidences the models may give; of a decomposed message only a reference counts.
THEOREM DoubtReachesReact == IntentSpec => []ReactWhenInDoubt
<1>1. IntentInv => ReactWhenInDoubt
  <2> SUFFICES ASSUME IntentInv PROVE ReactWhenInDoubt
    OBVIOUS
  <2>1. CASE step # "done"
    BY <2>1 DEF ReactWhenInDoubt, ConflictReachesReact, ReactOnlyWhenUncertain,
                ReferenceReachesReact, BackgroundIsNotWriting, CertainRuleDecides
  <2>2. CASE step = "done"
    <3>1. Routed /\ suggestion.confidence \in Nat /\ compound \in BOOLEAN
      BY <2>2 DEF IntentInv
    <3>2. CASE compound
      <4>1. /\ path = PathOf(HandedOn(result), refers) \/ path = "parallel"
            /\ path = "parallel" => ~refers
        BY <3>1, <3>2 DEF Routed
      <4>2. /\ HandedOn(result).intent = result.intent /\ HandedOn(result).source = "none"
            /\ HandedOn(result).confidence = 10000
        BY DEF HandedOn, Classified
      <4>3. Reacts => refers
        <5>1. path = PathOf(HandedOn(result), refers) /\ Reacts => refers
          BY <4>2 DEF Reacts, PathOf, ShouldReactFallback, ShouldUseReactToolLoop, REACT_THRESHOLD
        <5>2. QED
          BY <4>1, <5>1 DEF Reacts
      <4>4. ConflictReachesReact /\ ReactOnlyWhenUncertain
        BY <3>2, <4>3 DEF ConflictReachesReact, ReactOnlyWhenUncertain
      <4>5. ReferenceReachesReact
        BY <4>1, <4>2 DEF ReferenceReachesReact, Enabled, Reacts, PathOf, ShouldReactFallback,
                          ShouldUseReactToolLoop
      <4>6. QED
        BY <4>4, <4>5, IntentOfRule, <2>2 DEF ReactWhenInDoubt
    <3>3. CASE ~compound
      <4>1. suggestion = NoSuggestion /\ refers = RefersToPoem(question) /\ path = PathOf(result, refers)
        BY <3>1, <3>3 DEF IntentInv, Routed
      <4>2. ReferenceReachesReact
        BY <4>1 DEF ReferenceReachesReact, Enabled, Reacts, PathOf, ShouldReactFallback,
                    ShouldUseReactToolLoop
      <4>3. ConflictReachesReact /\ ReactOnlyWhenUncertain
        <5>1. CASE EmptyQuestion
          <6>1. result.intent = "chat" /\ result.source = "empty" /\ result.confidence = 10000
            BY <5>1 DEF EmptyQuestion, Classified
          <6>2. ~Reacts
            BY <4>1, <6>1 DEF Reacts, PathOf, ShouldReactFallback, REACT_THRESHOLD
          <6>3. QED
            BY <6>1, <6>2 DEF ConflictReachesReact, ReactOnlyWhenUncertain, IsTool
        <5>2. CASE RuleFits /\ AskedTheModel
          <6>1. rule = NoRule
            BY <3>1, <5>2, FusedFacts DEF AskedTheModel
          <6>2. ~ambiguous /\ result.source = "llm"
            BY <5>2, <6>1, RuleFacts DEF AskedTheModel
          <6>3. Reacts => result.confidence < REACT_THRESHOLD \/ refers
            BY <4>1 DEF Reacts, PathOf, ShouldReactFallback, ShouldUseReactToolLoop
          <6>4. QED
            BY <3>3, <6>2, <6>3 DEF ConflictReachesReact, ReactOnlyWhenUncertain
        <5>3. CASE RuleFits /\ FusedResult
          <6>1. /\ ambiguous => result.confidence < REACT_THRESHOLD
                /\ ~ambiguous => result.confidence >= LowestConfidence /\ result.confidence \in Int
            BY <3>1, <4>1, <5>3, FusedFacts DEF FusedResult
          <6>2. ~ambiguous => ~(result.confidence < REACT_THRESHOLD)
            BY <6>1 DEF REACT_THRESHOLD, LowestConfidence
          <6>3. ConflictReachesReact
            BY <4>1, <6>1 DEF ConflictReachesReact, Enabled, Reacts, PathOf, IsTool, ShouldReactFallback,
                              ShouldUseReactToolLoop
          <6>4. Reacts => result.confidence < REACT_THRESHOLD \/ refers
            BY <4>1 DEF Reacts, PathOf, ShouldReactFallback, ShouldUseReactToolLoop
          <6>5. QED
            BY <3>3, <6>2, <6>3, <6>4 DEF ReactOnlyWhenUncertain
        <5>4. QED
          BY <2>2, <5>1, <5>2, <5>3 DEF IntentInv
      <4>4. QED
        BY <4>2, <4>3, IntentOfRule, <2>2 DEF ReactWhenInDoubt
    <3>4. QED
      BY <3>1, <3>2, <3>3
  <2>3. QED
    BY <2>1, <2>2
<1>2. QED
  BY <1>1, AlwaysRouted, PTL
===============================================================================
