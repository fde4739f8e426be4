------------------------------ MODULE Retrieval ------------------------------
(***************************************************************************)
(* One call of HybridRetriever.retrieve: poems the question names by title *)
(* are looked up in the corpus read from disk, a vector search and a       *)
(* keyword search run in two threads, their lists are fused by reciprocal  *)
(* ranks, filtered once more and cut or reranked.  The similarity of texts *)
(* is not modelled: each search may rank what it may return in any order.  *)
(* The vector store may hold copies, deleted poems and old versions,       *)
(* because the indexer only appends to it.                                 *)
(***************************************************************************)
EXTENDS Naturals, Sequences, FiniteSets

CONSTANTS
  Field,      \* metadata fields one can filter by
  Value,      \* their values
  Title,      \* titles of poems
  NoTitle,    \* a question that names no poem, a file without a title
  Inside,     \* pairs <<a, b>> of titles: the text a is a part of the text b
  Libraries,  \* records [disk, indexed]: sequences of files, see FileType
  RrfK,       \* RRF_K; 60 in the code
  Defaults,   \* profile -> [k, n, max, skip]; a 0 stands for the setting
  Settings,   \* [k, n, max, rerank]: retrieval_top_k, rerank_top_n, ...
  Requested   \* top_k of the request and of the subscription: how many to serve

FileType == [name : STRING, title : Title \cup {NoTitle}, meta : [Field -> Value],
             parts : Seq(SUBSET Value)]

ASSUME TitleAssumption == NoTitle \notin Title
ASSUME LibrariesAssumption == Libraries \subseteq [disk : Seq(FileType), indexed : Seq(FileType)]
ASSUME RankAssumption == RrfK \in Nat /\ Requested \subseteq Nat
ASSUME DefaultsAssumption ==
  \A p \in DOMAIN Defaults : Defaults[p] \in [k : Nat, n : Nat, max : Nat, skip : BOOLEAN]
ASSUME SettingsAssumption ==
  Settings \in [k : Nat \ {0}, n : Nat \ {0}, max : Nat \ {0}, rerank : BOOLEAN]

VARIABLES
  at,        \* where the call is
  lib,       \* the library it runs on
  ask,       \* the question: title it names, filter, profile, rows to serve
  named,     \* shortcut_docs: files of the named poem, as chunks
  searched,  \* the searches that have returned
  vectorDocs, keywordDocs,   \* what they returned
  fused,     \* the fused, filtered list
  how,       \* how the reply was cut: "order", "scores", or "error"
  reply      \* the documents returned

retrieval == <<at, lib, ask, named, searched, vectorDocs, keywordDocs, fused, how, reply>>

\* The limits of a call: of its profile, or else of the settings.
Or(a, b) == IF a # 0 THEN a ELSE b
Params == LET d == Defaults[ask.profile] IN
  [k |-> Or(d.k, Settings.k), n |-> Or(d.n, Settings.n), max |-> Or(d.max, Settings.max),
   rerank |-> Settings.rerank /\ ~d.skip]

\* One chunk per file; a long file is cut in parts that share its metadata.
Chunk == [file : STRING, title : Title \cup {NoTitle}, meta : [Field -> Value], says : SUBSET Value]
ChunksOf(f) == [p \in DOMAIN f.parts |->
                  [file |-> f.name, title |-> f.title, meta |-> f.meta, says |-> f.parts[p]]]
SplitWithOverlap(files) ==
  LET upTo[n \in 0..Len(files)] == IF n = 0 THEN <<>> ELSE upTo[n-1] \o ChunksOf(files[n])
  IN upTo[Len(files)]

Corpus == SplitWithOverlap(lib.disk)        \* corpus_docs, and the texts of BM25
Store == SplitWithOverlap(lib.indexed)      \* the Chroma collection

Files(s) == {s[i].file : i \in DOMAIN s}

\* A filter: at most one condition [field, value, padded] per field.
Condition == [field : Field, value : Value, padded : BOOLEAN]
Filters == {f \in SUBSET Condition : \A a, b \in f : a.field = b.field => a = b}

RetrievalTypeOK ==
  /\ at \in {"shortcut", "search", "rank", "done"}
  /\ lib \in Libraries
  /\ ask \in [title : Title \cup {NoTitle}, filter : Filters, profile : DOMAIN Defaults,
              serve : Requested]
  /\ searched \subseteq {"vector", "keyword"}
  /\ {named, vectorDocs, keywordDocs, fused, reply} \subseteq Seq(Chunk)
  /\ how \in {"none", "order", "scores", "error"}

RetrievalInit ==
  /\ at = "shortcut"
  /\ lib \in Libraries
  /\ ask \in [title : Title \cup {NoTitle}, filter : Filters, profile : DOMAIN Defaults,
              serve : Requested]
  /\ named = <<>> /\ searched = {} /\ vectorDocs = <<>> /\ keywordDocs = <<>>
  /\ fused = <<>> /\ how = "none" /\ reply = <<>>

-----------------------------------------------------------------------------
(* Matching *)

\* Conditions of the vector search: equality with the value, spaces removed.
BuildChromaFilter(d, filter) == \A c \in filter : d.meta[c.field] = c.value

\* The filter as written occurs in the metadata or in the text.
MatchFilter(d, filter) ==
  \A c \in filter : ~c.padded /\ (d.meta[c.field] = c.value \/ c.value \in d.says)

\* The titles are equal or one is a part of the other.
TitleMatches(a, b) ==
  a # NoTitle /\ b # NoTitle /\ (a = b \/ <<a, b>> \in Inside \/ <<b, a>> \in Inside)

\* The members of S in the order of the relation R; the elements of s at the places T.
InOrder(S, R) ==
  [n \in 1..Cardinality(S) |-> CHOOSE x \in S : Cardinality({y \in S : <<y, x>> \in R}) = n - 1]
At(s, T) == LET places == InOrder(T, {p \in T \X T : p[1] < p[2]})
            IN [n \in DOMAIN places |-> s[places[n]]]

\* Sequences of m different numbers of a set.
Rankings(S, m) == {s \in [1..m -> S] : \A i, j \in 1..m : i # j => s[i] # s[j]}
Least(a, b) == IF a <= b THEN a ELSE b
Cut(s, n) == SubSeq(s, 1, Least(n, Len(s)))

MetadataShortcut ==
  /\ at = "shortcut"
  /\ at' = "search"
  /\ named' = At(Corpus, {i \in DOMAIN Corpus : TitleMatches(Corpus[i].title, ask.title)
                                                /\ MatchFilter(Corpus[i], ask.filter)})
  /\ UNCHANGED <<lib, ask, searched, vectorDocs, keywordDocs, fused, how, reply>>

-----------------------------------------------------------------------------
(* The two searches, each in its thread *)

Matching_Mutation == DOMAIN Store   \* Mutant: no filter in the vector search.
Matching == {i \in DOMAIN Store : BuildChromaFilter(Store[i], ask.filter)}

\* The k nearest of the entries that pass the filter.
VectorSearch ==
  /\ at = "search" /\ "vector" \notin searched
  /\ searched' = searched \cup {"vector"}
  /\ \E r \in Rankings(Matching, Least(Params.k, Cardinality(Matching))) :
       vectorDocs' = [i \in DOMAIN r |-> Store[r[i]]]
  /\ UNCHANGED <<at, lib, ask, named, keywordDocs, fused, how, reply>>

\* The best k of the whole corpus, unfiltered; those with a positive score.
Bm25Search ==
  /\ at = "search" /\ "keyword" \notin searched
  /\ searched' = searched \cup {"keyword"}
  /\ \E m \in 0..Least(Params.k, Len(Corpus)) :
       \E r \in Rankings(DOMAIN Corpus, m) : keywordDocs' = [i \in 1..m |-> Corpus[r[i]]]
  /\ UNCHANGED <<at, lib, ask, named, vectorDocs, fused, how, reply>>

-----------------------------------------------------------------------------
(* Fusion *)

\* 1/(RrfK + rank), for ranks from 1, times a number all of them divide.
Scale == LET product[r \in 0..Params.k] == IF r = 0 THEN 1 ELSE (RrfK + r) * product[r-1]
         IN product[Params.k]
Reciprocal(rank) == Scale \div (RrfK + rank)

\* The points a file collects from one list, for each of its chunks.
Points(s, f) ==
  LET upTo[n \in 0..Len(s)] ==
        IF n = 0 THEN 0 ELSE upTo[n-1] + (IF s[n].file = f THEN Reciprocal(n) ELSE 0)
  IN upTo[Len(s)]

Score_Mutation(v, w, f) ==   \* Mutant: a later list overwrites the score.
  IF f \in Files(w) THEN Points(w, f) ELSE Points(v, f)
Score(v, w, f) == Points(v, f) + Points(w, f)

FirstAt(s, f) == CHOOSE i \in DOMAIN s : s[i].file = f /\ \A j \in 1..(i-1) : s[j].file # f
LastAt(s, f) == CHOOSE i \in DOMAIN s : s[i].file = f /\ \A j \in (i+1)..Len(s) : s[j].file # f

\* The chunk that stands for a file: the last one seen, keyword list after vector list.
DocMap(v, w, f) == IF f \in Files(w) THEN w[LastAt(w, f)] ELSE v[LastAt(v, f)]

\* Files by falling score, equal ones in the order they were first seen.
RrfMerge(v, w) ==
  LET ahead == {p \in Files(v \o w) \X Files(v \o w) :
                  \/ Score(v, w, p[1]) > Score(v, w, p[2])
                  \/ /\ Score(v, w, p[1]) = Score(v, w, p[2])
                     /\ FirstAt(v \o w, p[1]) < FirstAt(v \o w, p[2])}
      ranked == InOrder(Files(v \o w), ahead)
  IN [i \in DOMAIN ranked |-> DocMap(v, w, ranked[i])]

\* The named poems in front, and each file once.
Newcomers(s) == {i \in DOMAIN s : FirstAt(s, s[i].file) = i}
PrependPriority_Mutation(priority, docs) == priority \o docs   \* Mutant: no `seen`.
PrependPriority_Behind(priority, docs) ==                      \* Mutant: appended.
  At(docs \o priority, Newcomers(docs \o priority))
PrependPriority(priority, docs) == At(priority \o docs, Newcomers(priority \o docs))

\* Documents outside the filter are dropped, unless none would be left.
Fitting(docs, filter) == {i \in DOMAIN docs : MatchFilter(docs[i], filter)}
PostFilter_Mutation(docs, filter) ==   \* Mutant: nothing is left when nothing matches.
  At(docs, Fitting(docs, filter))
PostFilter(docs, filter) ==
  IF Fitting(docs, filter) = {} THEN docs ELSE At(docs, Fitting(docs, filter))

Merge ==
  /\ at = "search" /\ searched = {"vector", "keyword"}
  /\ at' = "rank"
  /\ fused' = PostFilter(PrependPriority(named, RrfMerge(vectorDocs, keywordDocs)), ask.filter)
  /\ UNCHANGED <<lib, ask, named, searched, vectorDocs, keywordDocs, how, reply>>

-----------------------------------------------------------------------------
(* Reranking *)

Candidates == Cut(fused, Params.max)

\* Reranking is off, or its scores cannot be computed: the order stays.
KeepOrder ==
  /\ at = "rank" /\ at' = "done" /\ how' = "order"
  /\ reply' = Cut(IF Params.rerank THEN Candidates ELSE fused, Params.n)
  /\ UNCHANGED <<lib, ask, named, searched, vectorDocs, keywordDocs, fused>>

\* The best n of the candidates, by any scores.
Rerank ==
  /\ at = "rank" /\ Params.rerank /\ fused # <<>>
  /\ at' = "done" /\ how' = "scores"
  /\ \E r \in Rankings(DOMAIN Candidates, Least(Params.n, Len(Candidates))) :
       reply' = [i \in DOMAIN r |-> Candidates[r[i]]]
  /\ UNCHANGED <<lib, ask, named, searched, vectorDocs, keywordDocs, fused>>

\* The vector search raises, or the model of the reranker cannot be loaded.
Fail ==
  /\ \/ at = "search" /\ "vector" \notin searched
     \/ at = "rank" /\ Params.rerank /\ fused # <<>>
  /\ at' = "done" /\ how' = "error"
  /\ UNCHANGED <<lib, ask, named, searched, vectorDocs, keywordDocs, fused, reply>>

RetrievalNext ==
  \/ MetadataShortcut \/ VectorSearch \/ Bm25Search
  \/ Merge \/ KeepOrder \/ Rerank \/ Fail
RetrievalSpec == RetrievalInit /\ [][RetrievalNext]_retrieval

\* rag_search: the reply cut to what the request and the subscription allow.
Served == Cut(reply, ask.serve)

-----------------------------------------------------------------------------
(* Properties *)

Answered == at = "done" /\ how # "error"

\* No poem is in a reply twice, although the store may hold copies of it and
\* a long poem has several chunks.
NoPoemTwice == \A i, j \in DOMAIN Served : i # j => Served[i].file # Served[j].file

\* When an indexed poem has exactly the wanted author, dynasty and genre, every
\* document returned has them or speaks of them: poems of the unfiltered keyword
\* search never stand in for the wanted ones.  This needs a filter without spaces
\* around it, and indexed files that were not replaced (README, section 4).
Wanted(d) == \A c \in ask.filter : d.meta[c.field] = c.value \/ c.value \in d.says
Unreplaced(d) == \A i \in DOMAIN Corpus : Corpus[i].file = d.file => Corpus[i].meta = d.meta
FilterHonoured ==
  /\ Answered /\ (\A c \in ask.filter : ~c.padded)
  /\ Matching # {} /\ (\A i \in Matching : Unreplaced(Store[i]))
  => \A i \in DOMAIN Served : Wanted(Served[i])

\* A poem found by both searches stands before each one that a single search
\* found, whatever their ranks, when no search found two chunks of one file, the
\* lists are not longer than RRF_K makes up for, and no title brought it to the front.
Once(s) == \A i, j \in DOMAIN s : s[i].file = s[j].file => i = j
BothListsWin ==
  at \in {"rank", "done"} /\ Once(vectorDocs) /\ Once(keywordDocs) /\ Params.k <= RrfK + 1
    => \A i, j \in DOMAIN fused :
         LET both == Files(vectorDocs) \cap Files(keywordDocs)
         IN fused[i].file \in both /\ fused[j].file \notin both
              /\ {fused[i].file, fused[j].file} \cap Files(named) = {} => i < j

\* A poem of exactly the named title, within the filter, reaches the reranker
\* whatever the searches found, and the reply when nothing is reranked, unless
\* as many other poems whose titles overlap with it come first.
Kept == IF how = "scores" THEN Params.max
        ELSE IF Params.rerank THEN Least(Params.n, Params.max) ELSE Params.n
NamedBefore(i) == {Corpus[j].file : j \in {j \in 1..(i-1) :
                     TitleMatches(Corpus[j].title, ask.title) /\ MatchFilter(Corpus[j], ask.filter)}}
NamedPoemIsConsidered ==
  Answered => \A i \in DOMAIN Corpus :
    /\ Corpus[i].title = ask.title /\ ask.title # NoTitle /\ MatchFilter(Corpus[i], ask.filter)
    /\ Cardinality(NamedBefore(i)) < Kept
    => Corpus[i].file \in Files(IF how = "order" THEN reply ELSE Candidates)

\* A reply is empty only if neither search found anything: a filter no document
\* matches never empties it.
NeverEmptyHanded ==
  Answered /\ reply = <<>> => vectorDocs = <<>> /\ keywordDocs = <<>> /\ named = <<>>

RepliesFit == NoPoemTwice /\ BothListsWin /\ NeverEmptyHanded
=============================================================================
