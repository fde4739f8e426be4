----------------------------- MODULE CorpusIndex -----------------------------
(***************************************************************************)
(* The corpus of poems: Markdown files on disk, the rows that list the     *)
(* uploaded ones, the vector store, and the word index the retriever       *)
(* builds from the disk when the server starts.  Uploads and deletions are *)
(* requests of several steps; scripts write files and rebuild the store    *)
(* beside the server.  A rebuild appends every file on disk to the store   *)
(* and removes nothing.  Every text written to disk is a version of its    *)
(* own; a server that crashes may do so in the middle of an upload.        *)
(***************************************************************************)
EXTENDS Naturals, FiniteSets

CONSTANTS
  Name,          \* names of files
  Seed,          \* the file of version 1, there from the beginning
  MaxVersion,    \* bound: texts ever written
  MaxBuilds,     \* bound: rebuilds of the store
  MaxMishaps,    \* bound: crashes of the server and commits that fail
  Scripts        \* whether the scripts run

ASSUME SeedAssumption == Seed \in Name
ASSUME TextsAssumption == MaxVersion \in Nat \ {0} /\ MaxBuilds \in Nat /\ MaxMishaps \in Nat
ASSUME ScriptsAssumption == Scripts \in BOOLEAN

VARIABLES
  up,        \* whether the server runs
  disk,      \* name -> version of its text, or Absent
  copies,    \* version -> entries in the vector store
  words,     \* versions in the word index of the running server
  row,       \* version -> status in its committed row, "none" without a row
  nameOf,    \* version -> the name it was written under
  upload,    \* version -> step of the request that uploads it
  removal,   \* version -> step of the request that deletes its row
  script,    \* the generating script: what it does, its list and options, what it achieved
  written,   \* number of versions so far
  builds, mishaps

corpus == <<up, disk, copies, words, row, nameOf, upload, removal, script, written, builds, mishaps>>

Version == 1..MaxVersion
Absent == 0
Idle == [doing |-> "nothing", todo |-> {}, poem |-> {}, force |-> FALSE, skip |-> FALSE,
         rebuild |-> FALSE, ok |-> FALSE, failed |-> FALSE]

Script == [doing : {"nothing", "batch", "rebuild", "ended"}, todo : SUBSET Name,
           poem : SUBSET Name, force : BOOLEAN, skip : BOOLEAN, rebuild : BOOLEAN,
           ok : BOOLEAN, failed : BOOLEAN]

CorpusTypeOK ==
  /\ up \in BOOLEAN
  /\ disk \in [Name -> Version \cup {Absent}]
  /\ copies \in [Version -> 0..(MaxBuilds + MaxMishaps + 1)]
  /\ words \subseteq Version
  /\ row \in [Version -> {"none", "indexed", "failed"}]
  /\ nameOf \in [Version -> Name]
  /\ upload \in [Version -> {"none", "processing", "indexed", "failed", "answered"}]
  /\ removal \in [Version -> {"none", "read", "removed"}]
  /\ script \in Script
  /\ written \in Version /\ builds \in 0..MaxBuilds /\ mishaps \in 0..MaxMishaps

CorpusInit ==
  /\ up = FALSE
  /\ disk = [n \in Name |-> IF n = Seed THEN 1 ELSE Absent]
  /\ copies \in {[v \in Version |-> IF v = 1 THEN c ELSE 0] : c \in {0, 1}}
  /\ words = {}
  /\ row = [v \in Version |-> "none"]
  /\ nameOf = [v \in Version |-> Seed]
  /\ upload = [v \in Version |-> "none"] /\ removal = [v \in Version |-> "none"]
  /\ script = Idle
  /\ written = 1 /\ builds = 0 /\ mishaps = 0

-----------------------------------------------------------------------------
(* The store *)

Mishap == mishaps < MaxMishaps /\ mishaps' = mishaps + 1

OnDisk(d) == {d[n] : n \in Name} \ {Absent}
AppendAll(vs) == [v \in Version |-> IF v \in vs THEN copies[v] + 1 ELSE copies[v]]

\* build_vector_store(force=True) on the files of d: all of them are appended,
\* or it raises after it appended some.
BuildVectorStore(d) == builds < MaxBuilds /\ builds' = builds + 1 /\ copies' = AppendAll(OnDisk(d))
BuildRaises(d) ==
  /\ builds < MaxBuilds /\ builds' = builds + 1
  /\ \E some \in SUBSET OnDisk(d) : copies' = AppendAll(some)

\* The lifespan: a store with anything in its directory is only loaded, and a build
\* that raised may have left something there that is no entry; the word index is
\* read from disk, and cannot be built from no file at all.
Start ==
  /\ ~up /\ OnDisk(disk) # {}
  /\ up' = TRUE
  /\ \/ UNCHANGED copies
     \/ (\A v \in Version : copies[v] = 0) /\ copies' = AppendAll(OnDisk(disk))
  /\ words' = OnDisk(disk)
  /\ UNCHANGED <<disk, row, nameOf, upload, removal, script, written, builds, mishaps>>

-----------------------------------------------------------------------------
(* Uploads *)

\* The row is flushed, not committed.
UploadCorpus(n) ==
  /\ up /\ written < MaxVersion
  /\ written' = written + 1
  /\ nameOf' = [nameOf EXCEPT ![written + 1] = n]
  /\ upload' = [upload EXCEPT ![written + 1] = "processing"]
  /\ UNCHANGED <<up, disk, copies, words, row, removal, script, builds, mishaps>>

\* The file is written and the store rebuilt, with nothing in between; when
\* either raises, whatever file has the name is removed.
Written(v) == [disk EXCEPT ![nameOf[v]] = v]
KeepUpload_Mutation(v) ==   \* Mutant: the file stays when the rebuild raises.
  /\ disk' = Written(v)
  /\ \/ BuildVectorStore(disk') /\ upload' = [upload EXCEPT ![v] = "indexed"]
     \/ BuildRaises(Written(v)) /\ upload' = [upload EXCEPT ![v] = "failed"]
KeepUpload_Status(v) ==     \* Mutant: the status is set before the rebuild.
  /\ upload' = [upload EXCEPT ![v] = "indexed"]
  /\ \/ disk' = Written(v) /\ BuildVectorStore(disk')
     \/ BuildRaises(Written(v)) /\ disk' = [disk EXCEPT ![nameOf[v]] = Absent]
KeepUpload(v) ==
  \/ /\ disk' = Written(v) /\ BuildVectorStore(disk')
     /\ upload' = [upload EXCEPT ![v] = "indexed"]
  \/ /\ BuildRaises(Written(v)) /\ disk' = [disk EXCEPT ![nameOf[v]] = Absent]
     /\ upload' = [upload EXCEPT ![v] = "failed"]

StoreUpload_Mutation(v) ==   \* Mutant: written under the seed's name.
  /\ up /\ upload[v] = "processing"
  /\ BuildVectorStore(disk) /\ disk' = [disk EXCEPT ![Seed] = v]
  /\ upload' = [upload EXCEPT ![v] = "indexed"]
  /\ UNCHANGED <<up, words, row, nameOf, removal, script, written, mishaps>>
StoreUpload(v) ==
  /\ up /\ upload[v] = "processing"
  /\ KeepUpload(v)
  /\ UNCHANGED <<up, words, row, nameOf, removal, script, written, mishaps>>

\* The audit entry and the commit of the request; a failing one takes the row back.
FinishUpload(v) ==
  /\ up /\ upload[v] \in {"indexed", "failed"}
  /\ upload' = [upload EXCEPT ![v] = "answered"]
  /\ \/ row' = [row EXCEPT ![v] = upload[v]] /\ UNCHANGED mishaps
     \/ Mishap /\ UNCHANGED row
  /\ UNCHANGED <<up, disk, copies, words, nameOf, removal, script, written, builds>>

-----------------------------------------------------------------------------
(* Deletions *)

ReadRow(v) ==
  /\ up /\ row[v] # "none" /\ removal[v] = "none"
  /\ removal' = [removal EXCEPT ![v] = "read"]
  /\ UNCHANGED <<up, disk, copies, words, row, nameOf, upload, script, written, builds, mishaps>>

\* Whatever file has the name is removed; a rebuild that raises is ignored.
DeleteCorpus(v) ==
  /\ up /\ removal[v] = "read"
  /\ removal' = [removal EXCEPT ![v] = "removed"]
  /\ disk' = [disk EXCEPT ![nameOf[v]] = Absent]
  /\ BuildVectorStore(disk') \/ BuildRaises(disk')
  /\ UNCHANGED <<up, words, row, nameOf, upload, script, written, mishaps>>

FinishDelete(v) ==
  /\ up /\ removal[v] = "removed"
  /\ removal' = [removal EXCEPT ![v] = "none"]
  /\ \/ row' = [row EXCEPT ![v] = "none"] /\ UNCHANGED mishaps
     \/ Mishap /\ UNCHANGED row
  /\ UNCHANGED <<up, disk, copies, words, nameOf, upload, script, written, builds>>

-----------------------------------------------------------------------------
(* Crashes *)

\* Between two steps, or after an upload was written and some of it stored.
CrashServer ==
  /\ up /\ Mishap
  /\ up' = FALSE /\ words' = {}
  /\ upload' = [v \in Version |-> IF upload[v] = "none" THEN "none" ELSE "answered"]
  /\ removal' = [v \in Version |-> "none"]
  /\ \/ UNCHANGED <<disk, copies>>
     \/ \E v \in Version, some \in SUBSET Version :
          /\ upload[v] = "processing"
          /\ disk' = Written(v)
          /\ some \subseteq OnDisk(disk') /\ copies' = AppendAll(some)
  /\ UNCHANGED <<row, nameOf, script, written, builds>>

-----------------------------------------------------------------------------
(* Scripts, in processes of their own *)

\* generate_corpus.py on a list of poems; "single" is a list of one, not skipped.
GenerateCorpus(poems, force, skip, rebuild) ==
  /\ Scripts /\ script.doing \in {"nothing", "ended"}
  /\ script' = [doing |-> "batch", todo |-> poems, poem |-> {}, force |-> force, skip |-> skip,
                rebuild |-> rebuild, ok |-> FALSE, failed |-> FALSE]
  /\ UNCHANGED <<up, disk, copies, words, row, nameOf, upload, removal, written, builds, mishaps>>

\* An existing file is skipped, or else the language model is asked.
NextPoem(n) ==
  /\ script.doing = "batch" /\ script.poem = {} /\ n \in script.todo
  /\ script' = [script EXCEPT !.todo = @ \ {n},
                  !.poem = IF script.skip /\ disk[n] # Absent /\ ~script.force THEN {} ELSE {n}]
  /\ UNCHANGED <<up, disk, copies, words, row, nameOf, upload, removal, written, builds, mishaps>>

\* The answer is saved, unless there is none or the file exists by now.
SaveCorpus(n) ==
  /\ script.doing = "batch" /\ script.poem = {n}
  /\ \/ /\ disk[n] = Absent \/ script.force
        /\ written < MaxVersion /\ written' = written + 1
        /\ nameOf' = [nameOf EXCEPT ![written + 1] = n]
        /\ disk' = [disk EXCEPT ![n] = written + 1]
        /\ script' = [script EXCEPT !.poem = {}, !.ok = TRUE]
     \/ /\ script' = [script EXCEPT !.poem = {}, !.failed = TRUE]
        /\ UNCHANGED <<written, nameOf, disk>>
  /\ UNCHANGED <<up, copies, words, row, upload, removal, builds, mishaps>>

\* The store is rebuilt if that was asked for and a poem was written.
EndBatch_Mutation ==   \* Mutant: the script ends without the rebuild.
  /\ script.doing = "batch" /\ script.todo = {} /\ script.poem = {}
  /\ script' = [script EXCEPT !.doing = "ended"]
  /\ UNCHANGED <<up, disk, copies, words, row, nameOf, upload, removal, written, builds, mishaps>>
EndBatch ==
  /\ script.doing = "batch" /\ script.todo = {} /\ script.poem = {}
  /\ script' = [script EXCEPT !.doing = IF script.rebuild /\ script.ok THEN "rebuild" ELSE "ended"]
  /\ UNCHANGED <<up, disk, copies, words, row, nameOf, upload, removal, written, builds, mishaps>>

RebuildIndex ==
  /\ script.doing = "rebuild"
  /\ \/ BuildVectorStore(disk) /\ script' = [script EXCEPT !.doing = "ended"]
     \/ BuildRaises(disk) /\ script' = [script EXCEPT !.doing = "ended", !.failed = TRUE]
  /\ UNCHANGED <<up, disk, words, row, nameOf, upload, removal, written, mishaps>>

CorpusNext ==
  \/ Start \/ CrashServer \/ RebuildIndex
  \/ \E n \in Name : UploadCorpus(n)
  \/ \E poems \in SUBSET Name \ {{}}, force, skip, rebuild \in BOOLEAN :
       GenerateCorpus(poems, force, skip, rebuild)
  \/ EndBatch \/ \E n \in Name : NextPoem(n) \/ SaveCorpus(n)
  \/ \E v \in Version : \/ StoreUpload(v) \/ FinishUpload(v)
                        \/ ReadRow(v) \/ DeleteCorpus(v) \/ FinishDelete(v)
CorpusSpec == CorpusInit /\ [][CorpusNext]_corpus

-----------------------------------------------------------------------------
(* Properties *)

\* A file the server was given is found while it runs, by similarity or by words,
\* whatever rebuilds raised, commits failed and wherever the server crashed: the
\* store of a crashed rebuild is loaded as it is, but the words are read again.
\* (A file of a script is only found after a rebuild or a restart.)
EveryFileIsFound ==
  up => \A n \in Name :
          LET v == disk[n]
          IN  v # Absent /\ (v = 1 \/ upload[v] # "none") => copies[v] > 0 \/ v \in words

\* While no crash and no failed commit came between, the row of an upload tells
\* whether its text is on disk and in the store, if nothing else ever used the
\* name: whatever rebuilds raise in it, in its deletion and in other requests.
Between(v) == upload[v] \in {"processing", "indexed", "failed"} \/ removal[v] # "none"
NameIsItsOwn(v) == \A w \in 1..written : nameOf[w] = nameOf[v] => w = v
RowsTellTheTruth ==
  mishaps = 0 =>
    \A v \in Version : upload[v] # "none" /\ ~Between(v) /\ NameIsItsOwn(v) =>
      /\ row[v] = "indexed" <=> disk[nameOf[v]] = v
      /\ row[v] = "indexed" => copies[v] > 0

\* A script that was told to rebuild the index and ended without a failure
\* leaves every poem on disk in the store.  Does not hold (README, section 4).
RebuildIsDone ==
  script.doing = "ended" /\ script.rebuild /\ ~script.failed
    => \A v \in OnDisk(disk) : copies[v] > 0

\* It does when it wrote a poem itself, and then the poems of earlier scripts
\* and the files of uploads made meanwhile are in the store too, all but those
\* of uploads that a crash cut short.
CutShort(v) == upload[v] = "answered" /\ row[v] = "none"
WrittenThenIndexed ==
  script.ok /\ script.doing = "ended" /\ script.rebuild /\ ~script.failed
    => \A v \in OnDisk(disk) : copies[v] > 0 \/ CutShort(v)

-----------------------------------------------------------------------------
(* The inductive invariant *)

\* The bound on an entry's copies is the count of the rebuilds that can have made it.
CopiesAreCounted == \A v \in Version : copies[v] <= builds + mishaps + 1

\* A version on disk was written, under its name; one that is uploaded has a
\* number of its own; a row comes from an answered upload, and only a row is removed.
TextsFit ==
  /\ \A n \in Name : disk[n] # Absent => disk[n] <= written /\ nameOf[disk[n]] = n
  /\ \A v \in Version : /\ upload[v] # "none" => 1 < v /\ v <= written
                        /\ row[v] # "none" => upload[v] = "answered"
                        /\ removal[v] # "none" => row[v] # "none"

\* The steps of an undisturbed upload, and of its deletion, against the disk.
Stage(v) ==
  LET kept == disk[nameOf[v]] = v
  IN  /\ kept => copies[v] > 0
      /\ upload[v] = "processing" => ~kept
      /\ upload[v] = "indexed" => kept
      /\ upload[v] = "failed" => ~kept
      /\ upload[v] = "answered" /\ removal[v] # "removed" => (row[v] = "indexed" <=> kept)
      /\ removal[v] = "removed" => ~kept
StagesFit ==
  mishaps = 0 => \A v \in Version : upload[v] # "none" /\ NameIsItsOwn(v) => Stage(v)

CorpusInv ==
  /\ CorpusTypeOK /\ CopiesAreCounted /\ TextsFit
  /\ EveryFileIsFound /\ StagesFit /\ WrittenThenIndexed
=============================================================================
