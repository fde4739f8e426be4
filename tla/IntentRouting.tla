---------------------------- MODULE IntentRouting ----------------------------
(***************************************************************************)
(* How one question finds its path: references are resolved against the    *)
(* history, the rule table is matched, the rules are fused with what the   *)
(* decomposition suggested, the language model classifies what is left,    *)
(* and intent, source and confidence choose the path.  With compound       *)
(* intents enabled the question is one part of a decomposed message and    *)
(* only its intent takes part in the choice; otherwise nothing is          *)
(* suggested.  A question is the set of keyword classes it contains: every *)
(* rule of the table looks at nothing else.  Confidences are in            *)
(* ten-thousandths.                                                        *)
(***************************************************************************)
EXTENDS Naturals, FiniteSets

CONSTANTS
  ReactEnabled, Fallback, ToolLoop,  \* settings.react_*
  Keyword,     \* keyword classes in use, a subset of AllKeywords
  Suggested,   \* intents the decomposition may suggest; with none, compound mode is off
  Confidence,  \* confidences the models may answer
  MaxKeywords  \* bound: keyword classes of a question

AllKeywords == {
  "image", "write", "bgPhrase", "bgWhat", "bgWhen", "mean", "meaning", "ref", "recommend",
  "about", "enumerate", "introduce", "topic", "works", "masterpieces", "mainWorks",
  "poetryWord", "find", "whichPoem", "contrast", "versus", "poet", "poetWord", "style",
  "author", "nameOf", "life", "meterWord", "genre", "analyse", "appreciate", "enjoy",
  "title", "famous", "thisPoem", "thisOne"}

VALID_INTENTS == {"rag", "tool_author", "tool_meter", "tool_compare", "tool_lookup",
                  "tool_theme", "tool_allusion", "tool_writing", "chat"}

ASSUME SettingsAssumption == {ReactEnabled, Fallback, ToolLoop} \subseteq BOOLEAN
ASSUME VocabularyAssumption == Keyword \subseteq AllKeywords /\ Suggested \subseteq VALID_INTENTS
ASSUME ConfidenceAssumption == Confidence \subseteq Nat
ASSUME WordsAssumption == MaxKeywords \in Nat

VARIABLES
  step,        \* where classify_single_intent and _prepare_single_agent are
  question,    \* keyword classes of the question as it was asked
  known,       \* the history names a poem
  augmented,   \* the question with its reference resolved
  compound,    \* the question is a part of a decomposed message
  suggestion,  \* what the decomposition suggested for it
  rule,        \* the best rule, its confidence lowered when contested
  ambiguous,   \* another intent's rule is close
  result,      \* intent, source, confidence
  refers,      \* the message refers to a poem without naming one
  path         \* how the turn is prepared

routing == <<step, question, known, augmented, compound, suggestion, rule, ambiguous, result, refers, path>>

-----------------------------------------------------------------------------
(* The rule table *)

\* Words that contain others.
Says(q) == q \cup (IF q \cap {"whichPoem", "poetryWord", "poetWord", "thisPoem"} # {} THEN {"topic"} ELSE {})
             \cup (IF "image" \in q THEN {"write"} ELSE {})
             \cup (IF "mainWorks" \in q THEN {"works"} ELSE {})
             \cup (IF "thisPoem" \in q THEN {"thisOne"} ELSE {})
\* 「某某的」 is followed by one of these words.
WellFormed(q) == "nameOf" \in q => q \cap {"life", "masterpieces", "style", "topic"} # {}

IntentRule(name, intent, priority, confidence) ==
  [name |-> name, intent |-> intent, priority |-> priority, confidence |-> confidence]
\* Mutant: the priority of the image rule is below the background of a poem.
Rules_Mutation == {
  IntentRule("image_writing", "tool_writing", 95, 10000),
  IntentRule("poem_background", "rag", 96, 9200)}
Rules == {
  IntentRule("image_writing", "tool_writing", 100, 10000),
  IntentRule("poem_background", "rag", 96, 9200),
  IntentRule("writing", "tool_writing", 95, 9500),
  IntentRule("allusion", "tool_allusion", 90, 8800),
  IntentRule("theme", "tool_theme", 85, 8800),
  IntentRule("lookup", "tool_lookup", 80, 9500),
  IntentRule("compare", "tool_compare", 78, 9200),
  IntentRule("author_works", "tool_author", 76, 9000),
  IntentRule("author", "tool_author", 75, 8800),
  IntentRule("meter", "tool_meter", 70, 9200),
  IntentRule("meter_analyze", "tool_meter", 68, 9000),
  IntentRule("appreciation", "rag", 60, 9000),
  IntentRule("poem_title", "rag", 55, 7500)}

HasPoemContext(q) == q \cap {"title", "thisOne", "famous", "author", "poetWord"} # {}
IsPoemBackgroundQuery(q) ==
  "bgPhrase" \in q \/ (q \cap {"bgWhat", "bgWhen"} # {} /\ HasPoemContext(q))
IsWritingRequest(q) == "write" \in q /\ q \cap {"bgPhrase", "bgWhat"} = {}

Match(name, q) ==
  CASE name = "image_writing" -> "image" \in q
    [] name = "poem_background" -> IsPoemBackgroundQuery(q)
    [] name = "writing" -> IsWritingRequest(q)
    [] name = "allusion" -> q \cap {"mean", "meaning"} # {} /\ "ref" \in q
    [] name = "theme" -> /\ q \cap {"recommend", "about"} # {} /\ "topic" \in q
                         /\ q \cap {"works", "masterpieces"} = {}
    [] name = "lookup" -> q \cap {"find", "whichPoem"} # {}
    [] name = "compare" -> /\ q \cap {"contrast", "versus"} # {}
                           /\ q \cap {"poet", "poetWord", "style", "nameOf"} # {}
    [] name = "author_works" -> /\ q \cap {"recommend", "enumerate", "introduce"} # {}
                                /\ q \cap {"works", "masterpieces", "poetryWord"} # {}
                                /\ "contrast" \notin q
    [] name = "author" -> /\ q \cap {"life", "introduce", "masterpieces", "mainWorks"} # {}
                          /\ q \cap {"author", "poetWord", "nameOf", "poet"} # {}
                          /\ "contrast" \notin q
    [] name = "meter" -> q \cap {"meterWord", "genre"} # {} /\ "appreciate" \notin q
    [] name = "meter_analyze" -> {"analyse", "meterWord"} \subseteq q /\ "appreciate" \notin q
    [] name = "appreciation" -> q \cap {"appreciate", "enjoy"} # {} \/ {"meaning", "title"} \subseteq q
    [] name = "poem_title" -> q \cap {"title", "famous"} # {} /\ q \cap {"find", "meterWord"} = {}

MatchIntentRules(q) == {r \in Rules : Match(r.name, Says(q))}

RULE_AMBIGUITY_PRIORITY_GAP == 10
RULE_AMBIGUOUS_CONFIDENCE_CAP == 5800
NoRule == IntentRule("none", "chat", 0, 0)
AtMost(a, b) == IF a <= b THEN a ELSE b

Best(matches) == CHOOSE r \in matches : \A o \in matches : o.priority <= r.priority

IsAmbiguousRuleMatch(matches) ==
  \E o \in matches : /\ o.intent # Best(matches).intent
                     /\ Best(matches).priority - o.priority <= RULE_AMBIGUITY_PRIORITY_GAP

\* Mutant: a contested rule keeps its confidence.
ResolveRuleMatch_Mutation(matches) ==
  IF matches = {} THEN <<NoRule, FALSE>> ELSE <<Best(matches), IsAmbiguousRuleMatch(matches)>>
ResolveRuleMatch(matches) ==
  IF matches = {} THEN <<NoRule, FALSE>>
  ELSE IF IsAmbiguousRuleMatch(matches)
  THEN <<[Best(matches) EXCEPT !.confidence = AtMost(@, RULE_AMBIGUOUS_CONFIDENCE_CAP)], TRUE>>
  ELSE <<Best(matches), FALSE>>

-----------------------------------------------------------------------------
(* References and fusion *)

\* The question refers to a poem without naming one.
RefersToPoem(q) == "thisPoem" \in q /\ "title" \notin q

AugmentQueryWithContext(q, isKnown) ==
  IF isKnown /\ RefersToPoem(q) THEN (q \ {"thisPoem"}) \cup {"title"} ELSE q

SUGGESTED_INTENT_MIN_CONF == 7000
SUGGESTED_OVERRIDE_MIN_CONF == 9000
NoSuggestion == [intent |-> "chat", confidence |-> 0]

Classified(intent, source, confidence) ==
  [intent |-> intent, source |-> source, confidence |-> confidence]
NoResult == Classified("chat", "none", 0)

\* Mutant: every rule is lowered, also when nothing is suggested.
FuseRuleAndSuggested_Doubt(r, contested, s) ==
  IF r # NoRule THEN Classified(r.intent, "rule", AtMost(r.confidence, 6200))
  ELSE IF s.confidence >= SUGGESTED_INTENT_MIN_CONF
  THEN Classified(s.intent, "suggested", s.confidence)
  ELSE NoResult
\* NoResult: the language model has to classify.
FuseRuleAndSuggested(r, contested, s) ==
  LET hasRule == r # NoRule
      hasSuggested == s.confidence >= SUGGESTED_INTENT_MIN_CONF
      agreed == IF r.confidence >= s.confidence THEN r.confidence ELSE s.confidence
  IN IF hasRule /\ hasSuggested
     THEN IF r.intent = s.intent
          THEN Classified(r.intent, "rule+suggested", IF contested THEN AtMost(agreed, 6200) ELSE agreed)
          ELSE IF s.confidence >= SUGGESTED_OVERRIDE_MIN_CONF /\ r.confidence < 8000
          THEN Classified(s.intent, "suggested", (s.confidence * 92) \div 100)
          ELSE Classified(r.intent, "rule", AtMost(r.confidence, IF contested THEN 5500 ELSE 6200))
     ELSE IF hasRule THEN Classified(r.intent, "rule", r.confidence)
     ELSE IF hasSuggested THEN Classified(s.intent, "suggested", s.confidence)
     ELSE NoResult

-----------------------------------------------------------------------------
(* Choice of the path *)

REACT_THRESHOLD == 6500
IsTool(intent) == intent \notin {"rag", "chat"}

ShouldReactFallback(r) ==
  ReactEnabled /\ Fallback /\ r.source # "rule" /\ r.confidence < REACT_THRESHOLD

\* Mutant: the reference is looked for in the question whose reference was resolved.
ShouldUseReactToolLoop_Mutation(r, refersToPoem) ==
  /\ ReactEnabled /\ ToolLoop
  /\ \/ r.intent \in {"tool_meter", "tool_lookup", "tool_allusion"} /\ RefersToPoem(augmented)
     \/ r.confidence < REACT_THRESHOLD
ShouldUseReactToolLoop(r, refersToPoem) ==
  /\ ReactEnabled /\ ToolLoop
  /\ \/ r.intent \in {"tool_meter", "tool_lookup", "tool_allusion"} /\ refersToPoem
     \/ r.confidence < REACT_THRESHOLD

PathOf(r, refersToPoem) ==
  IF ShouldReactFallback(r) THEN "react_low_confidence"
  ELSE IF r.intent = "rag" THEN "rag_retrieve"
  ELSE IF r.intent = "chat" THEN "general_chat"
  ELSE IF ShouldUseReactToolLoop(r, refersToPoem) THEN "react_loop" ELSE "legacy_single"

\* The only part of a message hands on its intent; the state it is put into has
\* full confidence and no source.
HandedOn(r) == Classified(r.intent, "none", 10000)

-----------------------------------------------------------------------------
RuleType == [name : {r.name : r \in Rules} \cup {"none"}, intent : VALID_INTENTS,
             priority : Nat, confidence : Nat]
Sources == {"none", "empty", "rule", "suggested", "rule+suggested", "llm"}
IntentTypeOK ==
  /\ step \in {"ask", "resolve", "match", "fuse", "classify", "route", "done"}
  /\ question \subseteq AllKeywords /\ augmented \subseteq AllKeywords /\ known \in BOOLEAN
  /\ compound \in BOOLEAN /\ suggestion \in [intent : VALID_INTENTS, confidence : Nat]
  /\ rule \in RuleType
  /\ ambiguous \in BOOLEAN
  /\ result \in [intent : VALID_INTENTS, confidence : Nat, source : Sources]
  /\ refers \in BOOLEAN
  /\ path \in {"none", "react_low_confidence", "rag_retrieve", "general_chat", "react_loop",
               "legacy_single", "parallel"}

IntentInit == /\ step = "ask" /\ question = {} /\ known = FALSE /\ augmented = {}
        /\ compound = FALSE /\ suggestion = NoSuggestion /\ rule = NoRule /\ ambiguous = FALSE
        /\ result = NoResult /\ refers = FALSE /\ path = "none"

\* The user types words in any order ...
Type(word) ==
  /\ step = "ask" /\ Cardinality(question) < MaxKeywords
  /\ question' = question \cup {word}
  /\ UNCHANGED <<step, known, augmented, compound, suggestion, rule, ambiguous, result, refers, path>>

\* ... and asks; in compound mode the decomposition suggests an intent for each part.
Submit ==
  /\ step = "ask" /\ step' = "resolve" /\ WellFormed(question)
  /\ known' \in BOOLEAN /\ compound' \in BOOLEAN
  /\ suggestion' \in IF compound' THEN [intent : Suggested, confidence : Confidence] ELSE {NoSuggestion}
  /\ UNCHANGED <<question, augmented, rule, ambiguous, result, refers, path>>

\* A message of nothing but a stripped marker is empty and classified at once.
PrepareQueryForIntent ==
  /\ step = "resolve"
  /\ augmented' = AugmentQueryWithContext(question, known)
  /\ \/ step' = "match" /\ UNCHANGED result
     \/ question = {} /\ step' = "route" /\ result' = Classified("chat", "empty", 10000)
  /\ UNCHANGED <<question, known, compound, suggestion, rule, ambiguous, refers, path>>

MatchRules ==
  /\ step = "match" /\ step' = "fuse"
  /\ LET m == ResolveRuleMatch(MatchIntentRules(augmented)) IN rule' = m[1] /\ ambiguous' = m[2]
  /\ UNCHANGED <<question, known, augmented, compound, suggestion, result, refers, path>>

\* A fused result is final; without one the model is asked.
Fuse ==
  /\ step = "fuse"
  /\ result' = FuseRuleAndSuggested(rule, ambiguous, suggestion)
  /\ step' = IF result' = NoResult THEN "classify" ELSE "route"
  /\ UNCHANGED <<question, known, augmented, compound, suggestion, rule, ambiguous, refers, path>>

\* A structured or parsed answer, or the first intent named in the text.
LlmClassifyIntent ==
  /\ step = "classify" /\ step' = "route"
  /\ \E i \in VALID_INTENTS, c \in Confidence \cup {5000, 6000} : result' = Classified(i, "llm", c)
  /\ UNCHANGED <<question, known, augmented, compound, suggestion, rule, ambiguous, refers, path>>

\* Several intents run in parallel, whatever their confidence.
Route ==
  /\ step = "route" /\ step' = "done"
  /\ \/ /\ ~compound /\ refers' = RefersToPoem(question)
        /\ path' = PathOf(result, refers')
     \/ /\ compound /\ refers' \in BOOLEAN
        /\ path' = PathOf(HandedOn(result), refers')
     \/ compound /\ path' = "parallel" /\ UNCHANGED refers
  /\ UNCHANGED <<question, known, augmented, compound, suggestion, rule, ambiguous, result>>

IntentNext == (\E word \in Keyword : Type(word)) \/ Submit \/ PrepareQueryForIntent \/ MatchRules \/ Fuse \/ LlmClassifyIntent \/ Route
IntentSpec == IntentInit /\ [][IntentNext]_routing

-----------------------------------------------------------------------------
(* Properties *)

Reacts == path \in {"react_low_confidence", "react_loop"}

\* The cap of the rule engine and the threshold of the agent are set in two files:
\* together they send every tool question whose rules contradict each other to the
\* ReAct loop and never to a single round of tools, unless it was decomposed.
Enabled == ReactEnabled /\ Fallback /\ ToolLoop
ConflictReachesReact ==
  Enabled /\ step = "done" /\ ~compound /\ ambiguous /\ IsTool(result.intent) => Reacts

\* "高置信度 legacy 单轮，低置信度/指代性提问 ReAct 多轮": the several rounds are spent
\* only on a reference without a title, a conflict of the rules, or a doubtful answer of
\* the model that classifies; on a decomposed message only on the reference.
ReactOnlyWhenUncertain ==
  step = "done" /\ Reacts =>
    \/ refers
    \/ ~compound /\ (ambiguous \/ (result.source = "llm" /\ result.confidence < REACT_THRESHOLD))

\* A tool question that refers to a poem gets the rounds to look it up, although
\* the rules were matched with the reference resolved; also when the message was
\* decomposed and one intent is left of it.
ReferenceReachesReact ==
  Enabled /\ step = "done" /\ refers
    /\ result.intent \in {"tool_meter", "tool_lookup", "tool_allusion"} => Reacts

\* Asking for the background of a poem, in whatever words around it, is not asking to
\* write one; an image always is.
BackgroundIsNotWriting ==
  step = "done" /\ suggestion = NoSuggestion =>
    /\ "image" \in question => result.intent = "tool_writing"
    /\ "bgPhrase" \in question /\ "image" \notin question => result.intent # "tool_writing"

\* What the decomposition suggests, however surely, overrules a contested rule or a
\* title alone: the confidences of the table and the threshold of the fusion leave the
\* intent of every other rule as it is.
CertainRuleDecides ==
  step = "done" /\ rule.name \notin {"none", "poem_title"} /\ ~ambiguous => result.intent = rule.intent

\* The rounds of the ReAct loop are for questions in doubt, all of them, and the
\* order of the rules settles what is not.
ReactWhenInDoubt ==
  /\ ConflictReachesReact /\ ReactOnlyWhenUncertain /\ ReferenceReachesReact
  /\ BackgroundIsNotWriting /\ CertainRuleDecides

\* "不同 intent 的 top 规则 priority 差 ≤ 此值时视为冲突，下调 confidence 触发 ReAct":
\* every contested question reaches ReAct.  Does not hold (README, section 4).
EveryConflictReachesReact == step = "done" /\ ambiguous => Reacts
=============================================================================
