----------------------------- MODULE ServerProofs -----------------------------
(***************************************************************************)
(* The safety of starts, for every database, number of tables and of       *)
(* faults. SchemaInv follows the migration: the version table is written   *)
(* before the first table and the version after the last, so a schema      *)
(* without a version table is empty or complete. SaverInv follows the      *)
(* checkpointer: what is open is what is being set up or in use.           *)
(*                                                                         *)
(* Theorems about the corpus: in every behaviour of CorpusIndex, for any   *)
(* set of names and any bounds, with the scripts or without them, the      *)
(* types are right, every file the server was given is found, the rows of  *)
(* undisturbed uploads tell what is on disk, and a finished rebuild covers *)
(* every poem.                                                             *)
(***************************************************************************)
EXTENDS Startup, CorpusIndex, TLAPS

-----------------------------------------------------------------------------
(* Starts *)

Connected == {"checkpointer", "connecting", "warming", "serving"}

SchemaInv ==
  /\ phase \in Phase /\ version \in {"none", "empty", "head"}
  /\ tables \in 0..Tables /\ step \in 0..Tables
  /\ version = "head" => tables = Tables
  /\ version = "none" => tables \in {0, Tables}
  /\ phase \in Connected => version = "head"
  /\ IF phase = "migrating" THEN step <= tables ELSE step = 0

SaverInv ==
  /\ phase \in Phase
  /\ phase \in {"down", "migrating", "checkpointer"} => cm = "none" /\ saver = "none" /\ open = {}
  /\ phase = "connecting" => saver \in Durable /\ cm = saver /\ open = {saver}
  /\ OneSaverOpen

-----------------------------------------------------------------------------
(* The schema *)

LEMMA SchemaInit == Init => SchemaInv
BY TablesAssumption DEF Init, SchemaInv, Phase, Connected

\* A step of init_db keeps the schema empty, complete, or not yet versioned.
LEMMA SchemaMigration ==
  ASSUME SchemaInv, InitDb \/ CreateVersionTable \/ CreateTable \/ TableExists \/ Migrated
  PROVE  SchemaInv'
<1> USE TablesAssumption DEF SchemaInv, Phase, Connected
<1>1. CASE InitDb
  <2>1. CASE version = "head" \/ LegacySchema
    <3>1. tables = Tables
      BY <2>1 DEF LegacySchema
    <3>2. version' = "head" /\ phase' = "checkpointer" /\ step' = 0 /\ UNCHANGED tables
      BY <1>1, <2>1 DEF InitDb
    <3>3. QED BY <3>1, <3>2
  <2>2. CASE version # "head" /\ ~LegacySchema
    BY <1>1, <2>2 DEF InitDb
  <2>3. QED BY <2>1, <2>2
<1>2. CASE CreateVersionTable
  BY <1>2 DEF CreateVersionTable
<1>3. CASE CreateTable
  BY <1>3 DEF CreateTable
<1>4. CASE TableExists
  BY <1>4 DEF TableExists, Exit
<1>5. CASE Migrated
  <2>1. tables' = Tables
    BY <1>5 DEF Migrated
  <2>2. QED BY <1>5, <2>1 DEF Migrated
<1>6. QED BY <1>1, <1>2, <1>3, <1>4, <1>5

\* The rest of the lifespan leaves the schema alone, and a process that ends
\* leaves it as it is on disk.
LEMMA SchemaRest ==
  ASSUME SchemaInv,
         \/ EnterContext \/ EnterFails \/ SetupSaver \/ SetupFails \/ UseMemory
         \/ WarmUp \/ AnswerTurn \/ Shutdown \/ Crash \/ UNCHANGED vars
  PROVE  SchemaInv'
<1> USE DEF SchemaInv, Phase, Connected, schema
<1>1. CASE EnterContext \/ EnterFails \/ SetupSaver \/ SetupFails \/ UseMemory
  BY <1>1 DEF EnterContext, EnterFails, SetupSaver, SetupFails, UseMemory
<1>2. CASE WarmUp \/ AnswerTurn \/ UNCHANGED vars
  BY <1>2 DEF WarmUp, AnswerTurn, vars
<1>3. CASE Shutdown \/ Crash
  BY <1>3, TablesAssumption DEF Shutdown, Crash, Exit
<1>4. QED BY <1>1, <1>2, <1>3

\* What migrations leave of the schema, whatever died in between.
THEOREM SchemaInvariant == Spec => []SchemaInv
<1>1. SchemaInv /\ [Next]_vars => SchemaInv'
  BY SchemaMigration, SchemaRest DEF Next, StartStep
<1>2. QED BY <1>1, SchemaInit, PTL DEF Spec

\* A server that answers requests has every table of the head revision, wherever
\* an earlier migration died (init_db, _maybe_stamp_legacy_schema_sync).
THEOREM SchemaIsComplete == Spec => []ServesCompleteSchema
<1>1. SchemaInv => ServesCompleteSchema
  BY DEF SchemaInv, ServesCompleteSchema, Connected
<1>2. QED BY <1>1, SchemaInvariant, PTL

-----------------------------------------------------------------------------
(* The checkpointer *)

LEMMA SaverInit == Init => SaverInv
BY DEF Init, SaverInv, OneSaverOpen, Phase

\* Setting up closes what fails before it tries the next.
LEMMA SaverSetup ==
  ASSUME SaverInv, EnterContext \/ EnterFails \/ SetupSaver \/ SetupFails \/ UseMemory
  PROVE  SaverInv'
<1> USE DEF SaverInv, OneSaverOpen, Phase, Durable
<1>1. CASE EnterContext
  BY <1>1 DEF EnterContext
<1>2. CASE EnterFails
  BY <1>2 DEF EnterFails
<1>3. CASE SetupSaver
  BY <1>3 DEF SetupSaver
<1>4. CASE SetupFails
  BY <1>4 DEF SetupFails, CloseCheckpointerCm
<1>5. CASE UseMemory
  BY <1>5 DEF UseMemory
<1>6. QED BY <1>1, <1>2, <1>3, <1>4, <1>5

\* Before the set-up nothing is open, and the end of the process closes all.
LEMMA SaverRest ==
  ASSUME SaverInv,
         \/ InitDb \/ CreateVersionTable \/ CreateTable \/ TableExists \/ Migrated
         \/ WarmUp \/ AnswerTurn \/ Shutdown \/ Crash \/ UNCHANGED vars
  PROVE  SaverInv'
<1> USE DEF SaverInv, OneSaverOpen, Phase, checkpoint
<1>1. CASE InitDb \/ CreateVersionTable \/ CreateTable \/ Migrated
  BY <1>1 DEF InitDb, CreateVersionTable, CreateTable, Migrated
<1>2. CASE TableExists \/ Shutdown \/ Crash
  BY <1>2 DEF TableExists, Shutdown, Crash, Exit
<1>3. CASE WarmUp \/ AnswerTurn \/ UNCHANGED vars
  BY <1>3 DEF WarmUp, AnswerTurn, vars
<1>4. QED BY <1>1, <1>2, <1>3

\* The server works on a completely set up checkpointer, and no context of one
\* that failed on the way stays open (setup_checkpointer, _close_checkpointer_cm).
THEOREM OneSaverIsOpen == Spec => []OneSaverOpen
<1>1. SaverInv /\ [Next]_vars => SaverInv'
  BY SaverSetup, SaverRest DEF Next, StartStep
<1>2. SaverInv => OneSaverOpen
  BY DEF SaverInv
<1>3. QED BY <1>1, <1>2, SaverInit, PTL DEF Spec

-----------------------------------------------------------------------------
(* The corpus *)

-----------------------------------------------------------------------------
(* The store and the disk *)

LEMMA VersionsAreNumbers == Version \subseteq Nat /\ Absent \notin Version /\ 1 \in Version
BY TextsAssumption DEF Version, Absent

\* What is on disk are versions, each under some name (chunker.py, load_poetry_documents).
LEMMA OnDiskHasNames ==
  ASSUME NEW d \in [Name -> Version \cup {Absent}]
  PROVE  /\ OnDisk(d) \subseteq Version
         /\ \A v \in OnDisk(d) : \E n \in Name : d[n] = v
         /\ \A n \in Name : d[n] # Absent => d[n] \in OnDisk(d)
BY DEF OnDisk

\* A rebuild adds at most one entry per version and removes none (indexer.py).
Added(vs) == \A v \in Version : copies'[v] = IF v \in vs THEN copies[v] + 1 ELSE copies[v]
LEMMA AppendAdds ==
  ASSUME CorpusTypeOK, NEW vs, copies' = AppendAll(vs)
  PROVE  Added(vs) /\ copies' = [v \in Version |-> copies'[v]]
BY DEF AppendAll, Added, CorpusTypeOK

LEMMA RebuildAdds ==
  ASSUME CorpusTypeOK, NEW d \in [Name -> Version \cup {Absent}],
         BuildVectorStore(d) \/ BuildRaises(d)
  PROVE  /\ builds' = builds + 1 /\ builds' \in 0..MaxBuilds
         /\ copies' = [v \in Version |-> copies'[v]]
         /\ \E some \in SUBSET OnDisk(d) : Added(some)
         /\ BuildVectorStore(d) => Added(OnDisk(d))
<1>1. builds' = builds + 1 /\ builds' \in 0..MaxBuilds
  BY TextsAssumption DEF BuildVectorStore, BuildRaises, CorpusTypeOK
<1>2. PICK some \in SUBSET OnDisk(d) : copies' = AppendAll(some)
  BY DEF BuildVectorStore, BuildRaises
<1>3. Added(some) /\ copies' = [v \in Version |-> copies'[v]]
  BY <1>2, AppendAdds
<1>4. BuildVectorStore(d) => Added(OnDisk(d))
  BY AppendAdds DEF BuildVectorStore
<1>5. QED
  BY <1>1, <1>3, <1>4

\* Whatever is added, counts stay numbers, grow by at most one and never shrink.
LEMMA AddedGrows ==
  ASSUME CorpusTypeOK, NEW vs, Added(vs)
  PROVE  \A v \in Version : /\ copies[v] \in Nat /\ copies'[v] \in Nat
                            /\ copies'[v] >= copies[v] /\ copies'[v] <= copies[v] + 1
                            /\ v \in vs => copies'[v] > 0
<1>1. \A v \in Version : copies[v] \in Nat
  BY TextsAssumption DEF CorpusTypeOK
<1>2. QED
  BY <1>1 DEF Added

LEMMA RebuildKeepsEntries ==
  ASSUME CorpusTypeOK, NEW d \in [Name -> Version \cup {Absent}],
         BuildVectorStore(d) \/ BuildRaises(d)
  PROVE  \A v \in Version : copies[v] > 0 => copies'[v] > 0
<1>1. PICK some \in SUBSET OnDisk(d) : Added(some)
  BY RebuildAdds
<1>2. \A v \in Version : copies[v] \in Nat /\ copies'[v] \in Nat /\ copies'[v] >= copies[v]
  BY <1>1, AddedGrows
<1>3. QED
  BY <1>2

-----------------------------------------------------------------------------
(* Types *)

LEMMA TypesAtStart == CorpusInit => CorpusTypeOK /\ CopiesAreCounted
<1> SUFFICES ASSUME CorpusInit PROVE CorpusTypeOK /\ CopiesAreCounted
  OBVIOUS
<1> USE TextsAssumption, SeedAssumption, VersionsAreNumbers
<1>1. script \in Script
  BY DEF CorpusInit, Idle, Script
<1>2. \A v \in Version : copies[v] <= 1 /\ copies[v] \in 0..1
  BY DEF CorpusInit
<1>3. copies \in [Version -> 0..(MaxBuilds + MaxMishaps + 1)]
  BY <1>2 DEF CorpusInit
<1>4. CorpusTypeOK
  <2>1. /\ disk \in [Name -> Version \cup {Absent}] /\ words \subseteq Version
        /\ up \in BOOLEAN
    BY DEF CorpusInit
  <2>2. /\ row \in [Version -> {"none", "indexed", "failed"}]
        /\ upload \in [Version -> {"none", "processing", "indexed", "failed", "answered"}]
        /\ removal \in [Version -> {"none", "read", "removed"}]
        /\ nameOf \in [Version -> Name]
    BY DEF CorpusInit
  <2>3. written \in Version /\ builds \in 0..MaxBuilds /\ mishaps \in 0..MaxMishaps
    BY DEF CorpusInit
  <2>4. QED
    BY <1>1, <1>3, <2>1, <2>2, <2>3 DEF CorpusTypeOK
<1>5. CopiesAreCounted
  BY <1>2 DEF CorpusInit, CopiesAreCounted
<1>6. QED
  BY <1>4, <1>5

\* Counted copies fit their type.
LEMMA CountedCopiesFit ==
  ASSUME builds' \in 0..MaxBuilds, mishaps' \in 0..MaxMishaps,
         copies' = [v \in Version |-> copies'[v]],
         \A v \in Version : copies'[v] \in Nat /\ copies'[v] <= builds' + mishaps' + 1
  PROVE  copies' \in [Version -> 0..(MaxBuilds + MaxMishaps + 1)] /\ CopiesAreCounted'
<1>1. \A v \in Version : copies'[v] \in 0..(MaxBuilds + MaxMishaps + 1)
  BY TextsAssumption
<1>2. QED
  BY <1>1 DEF CopiesAreCounted

LEMMA CopiesKept ==
  ASSUME CorpusTypeOK, CopiesAreCounted, NEW vs, Added(vs),
         copies' = [v \in Version |-> copies'[v]],
         builds' \in 0..MaxBuilds, mishaps' \in 0..MaxMishaps,
         builds' + mishaps' = builds + mishaps + 1
  PROVE  copies' \in [Version -> 0..(MaxBuilds + MaxMishaps + 1)] /\ CopiesAreCounted'
<1>1. builds \in Nat /\ mishaps \in Nat /\ builds' \in Nat /\ mishaps' \in Nat
  BY TextsAssumption DEF CorpusTypeOK
<1>2. \A v \in Version : copies'[v] \in Nat /\ copies'[v] <= builds' + mishaps' + 1
  BY <1>1, AddedGrows DEF CopiesAreCounted
<1>3. QED
  BY <1>2, CountedCopiesFit

LEMMA RebuildKeepsCopies ==
  ASSUME CorpusTypeOK, CopiesAreCounted, UNCHANGED mishaps,
         NEW d \in [Name -> Version \cup {Absent}], BuildVectorStore(d) \/ BuildRaises(d)
  PROVE  /\ copies' \in [Version -> 0..(MaxBuilds + MaxMishaps + 1)] /\ CopiesAreCounted'
         /\ builds' \in 0..MaxBuilds
<1>1. /\ builds' = builds + 1 /\ builds' \in 0..MaxBuilds
      /\ copies' = [v \in Version |-> copies'[v]]
  BY RebuildAdds
<1>2. PICK some \in SUBSET OnDisk(d) : Added(some)
  BY RebuildAdds
<1>3. /\ builds' + mishaps' = builds + mishaps + 1
      /\ mishaps' \in 0..MaxMishaps
  BY <1>1, TextsAssumption DEF CorpusTypeOK
<1>4. QED
  BY <1>1, <1>2, <1>3, CopiesKept

LEMMA TypesKept ==
  ASSUME CorpusTypeOK, CopiesAreCounted, CorpusNext PROVE CorpusTypeOK' /\ CopiesAreCounted'
<1> USE TextsAssumption, VersionsAreNumbers
<1>0. /\ builds \in 0..MaxBuilds /\ mishaps \in 0..MaxMishaps /\ written \in Version
      /\ disk \in [Name -> Version \cup {Absent}] /\ script \in Script
  BY DEF CorpusTypeOK
<1>1. ASSUME NEW v \in Version
      PROVE  Written(v) \in [Name -> Version \cup {Absent}]
  BY DEF CorpusTypeOK, Written
<1>2. CASE Start
  <2>1. CASE UNCHANGED copies
    BY <1>2, <2>1, OnDiskHasNames DEF Start, CorpusTypeOK, CopiesAreCounted
  <2>2. CASE copies' = AppendAll(OnDisk(disk)) /\ \A v \in Version : copies[v] = 0
    <3>1. Added(OnDisk(disk)) /\ copies' = [v \in Version |-> copies'[v]]
      BY <2>2, AppendAdds
    <3>2. \A v \in Version : copies'[v] \in Nat /\ copies'[v] <= 1
      BY <2>2, <3>1, AddedGrows
    <3>3. copies' \in [Version -> 0..(MaxBuilds + MaxMishaps + 1)] /\ CopiesAreCounted'
      BY <1>2, <1>0, <3>1, <3>2, CountedCopiesFit DEF Start
    <3>4. QED
      BY <1>2, <3>3, OnDiskHasNames DEF Start, CorpusTypeOK
  <2>3. QED
    BY <1>2, <2>1, <2>2 DEF Start
<1>3. CASE CrashServer
  <2>1. mishaps' = mishaps + 1 /\ mishaps' \in 0..MaxMishaps
    BY <1>3, <1>0 DEF CrashServer, Mishap
  <2>2. disk' \in [Name -> Version \cup {Absent}]
    BY <1>3, <1>0, <1>1 DEF CrashServer
  <2>3. copies' \in [Version -> 0..(MaxBuilds + MaxMishaps + 1)] /\ CopiesAreCounted'
    <3>1. CASE UNCHANGED copies
      BY <1>3, <2>1, <3>1, <1>0 DEF CrashServer, CorpusTypeOK, CopiesAreCounted
    <3>2. ASSUME NEW some \in SUBSET Version, copies' = AppendAll(some) 
      PROVE copies' \in [Version -> 0..(MaxBuilds + MaxMishaps + 1)] /\ CopiesAreCounted'
      <4>1. Added(some) /\ copies' = [v \in Version |-> copies'[v]]
        BY <3>2, AppendAdds
      <4>2. builds' = builds
        BY <1>3 DEF CrashServer
      <4>3. QED
        BY <4>1, <4>2, <2>1, <1>0, CopiesKept
    <3>3. QED
      BY <1>3, <3>1, <3>2 DEF CrashServer
  <2>4. QED
    BY <1>3, <2>1, <2>2, <2>3 DEF CrashServer, CorpusTypeOK
<1>4. CASE RebuildIndex
  <2>1. copies' \in [Version -> 0..(MaxBuilds + MaxMishaps + 1)] /\ CopiesAreCounted'
        /\ builds' \in 0..MaxBuilds
    BY <1>4, <1>0, RebuildKeepsCopies DEF RebuildIndex
  <2>2. script' \in Script
    BY <1>4, <1>0 DEF RebuildIndex, Script
  <2>3. QED
    BY <1>4, <2>1, <2>2 DEF RebuildIndex, CorpusTypeOK
<1>5. ASSUME NEW n \in Name, UploadCorpus(n) PROVE CorpusTypeOK' /\ CopiesAreCounted'
  <2>1. written' \in Version
    BY <1>5, <1>0 DEF UploadCorpus, Version
  <2>2. QED
    BY <1>5, <2>1 DEF UploadCorpus, CorpusTypeOK, CopiesAreCounted
<1>6. ASSUME NEW poems \in SUBSET Name, NEW force \in BOOLEAN, NEW skip \in BOOLEAN,
             NEW rebuild \in BOOLEAN, GenerateCorpus(poems, force, skip, rebuild)
      PROVE  CorpusTypeOK' /\ CopiesAreCounted'
  <2>1. script' \in Script
    BY <1>6 DEF GenerateCorpus, Script
  <2>2. QED
    BY <1>6, <2>1 DEF GenerateCorpus, CorpusTypeOK, CopiesAreCounted
<1>7. CASE EndBatch
  <2>1. script' \in Script
    BY <1>7, <1>0 DEF EndBatch, Script
  <2>2. QED
    BY <1>7, <2>1 DEF EndBatch, CorpusTypeOK, CopiesAreCounted
<1>8. ASSUME NEW n \in Name, NextPoem(n) PROVE CorpusTypeOK' /\ CopiesAreCounted'
  <2>1. script' \in Script
    BY <1>8, <1>0 DEF NextPoem, Script
  <2>2. QED
    BY <1>8, <2>1 DEF NextPoem, CorpusTypeOK, CopiesAreCounted
<1>9. ASSUME NEW n \in Name, SaveCorpus(n) PROVE CorpusTypeOK' /\ CopiesAreCounted'
  <2>1. script' \in Script
    BY <1>9, <1>0 DEF SaveCorpus, Script
  <2>2. written' \in Version
    BY <1>9, <1>0 DEF SaveCorpus, Version
  <2>3. disk' \in [Name -> Version \cup {Absent}] /\ nameOf' \in [Version -> Name]
    BY <1>9, <1>0, <2>2 DEF SaveCorpus, CorpusTypeOK
  <2>4. QED
    BY <1>9, <2>1, <2>2, <2>3 DEF SaveCorpus, CorpusTypeOK, CopiesAreCounted
<1>10. ASSUME NEW v \in Version, StoreUpload(v) PROVE CorpusTypeOK' /\ CopiesAreCounted'
  <2>1. disk' \in [Name -> Version \cup {Absent}]
    BY <1>10, <1>0, <1>1 DEF StoreUpload, KeepUpload, CorpusTypeOK
  <2>2. BuildVectorStore(Written(v)) \/ BuildRaises(Written(v))
    BY <1>10 DEF StoreUpload, KeepUpload
  <2>3. copies' \in [Version -> 0..(MaxBuilds + MaxMishaps + 1)] /\ CopiesAreCounted'
        /\ builds' \in 0..MaxBuilds
    BY <1>10, <1>0, <1>1, <2>2, RebuildKeepsCopies DEF StoreUpload
  <2>4. upload' \in [Version -> {"none", "processing", "indexed", "failed", "answered"}]
    BY <1>10 DEF StoreUpload, KeepUpload, CorpusTypeOK
  <2>5. QED
    BY <1>10, <2>1, <2>3, <2>4 DEF StoreUpload, CorpusTypeOK
<1>11. ASSUME NEW v \in Version, FinishUpload(v) PROVE CorpusTypeOK' /\ CopiesAreCounted'
  <2>1. mishaps' \in 0..MaxMishaps /\ mishaps' >= mishaps
    BY <1>11, <1>0 DEF FinishUpload, Mishap
  <2>2. row' \in [Version -> {"none", "indexed", "failed"}]
    BY <1>11 DEF FinishUpload, CorpusTypeOK
  <2>3. CopiesAreCounted'
    BY <1>11, <2>1, <1>0 DEF FinishUpload, CopiesAreCounted, CorpusTypeOK
  <2>4. QED
    BY <1>11, <2>1, <2>2, <2>3 DEF FinishUpload, CorpusTypeOK
<1>12. ASSUME NEW v \in Version, ReadRow(v) PROVE CorpusTypeOK' /\ CopiesAreCounted'
  BY <1>12 DEF ReadRow, CorpusTypeOK, CopiesAreCounted
<1>13. ASSUME NEW v \in Version, DeleteCorpus(v) PROVE CorpusTypeOK' /\ CopiesAreCounted'
  <2>1. disk' \in [Name -> Version \cup {Absent}]
    BY <1>13, <1>0 DEF DeleteCorpus
  <2>2. copies' \in [Version -> 0..(MaxBuilds + MaxMishaps + 1)] /\ CopiesAreCounted'
        /\ builds' \in 0..MaxBuilds
    BY <1>13, <1>0, <2>1, RebuildKeepsCopies DEF DeleteCorpus
  <2>3. QED
    BY <1>13, <2>1, <2>2 DEF DeleteCorpus, CorpusTypeOK
<1>14. ASSUME NEW v \in Version, FinishDelete(v) PROVE CorpusTypeOK' /\ CopiesAreCounted'
  <2>1. mishaps' \in 0..MaxMishaps /\ mishaps' >= mishaps
    BY <1>14, <1>0 DEF FinishDelete, Mishap
  <2>2. CopiesAreCounted'
    BY <1>14, <2>1, <1>0 DEF FinishDelete, CopiesAreCounted, CorpusTypeOK
  <2>3. QED
    BY <1>14, <2>1, <2>2 DEF FinishDelete, CorpusTypeOK
<1>15. QED
  BY <1>2, <1>3, <1>4, <1>5, <1>6, <1>7, <1>8, <1>9, <1>10, <1>11, <1>12, <1>13, <1>14
  DEF CorpusNext

-----------------------------------------------------------------------------
(* Versions, names and rows *)

LEMMA TextsAtStart == CorpusInit => TextsFit
BY TextsAssumption, SeedAssumption, VersionsAreNumbers DEF CorpusInit, TextsFit

\* A file is written under its name by an upload, or by a crash in the middle of one.
LEMMA WrittenFits ==
  ASSUME CorpusTypeOK, TextsFit, NEW v \in Version, upload[v] = "processing"
  PROVE  /\ Written(v) \in [Name -> Version \cup {Absent}]
         /\ \A n \in Name : Written(v)[n] = IF n = nameOf[v] THEN v ELSE disk[n]
         /\ nameOf[v] \in Name /\ Written(v)[nameOf[v]] = v
         /\ \A n \in Name : Written(v)[n] # Absent =>
              Written(v)[n] <= written /\ nameOf[Written(v)[n]] = n
BY DEF CorpusTypeOK, TextsFit, Written

\* A text that is about to be written gets a version nothing refers to yet.
LEMMA NewVersionIsFresh ==
  ASSUME CorpusTypeOK, TextsFit, written < MaxVersion, NEW new, new = written + 1
  PROVE  /\ new \in Version /\ 1 < new
         /\ upload[new] = "none" /\ row[new] = "none" /\ removal[new] = "none"
         /\ \A n \in Name : disk[n] # new
         /\ \A n \in Name : disk[n] # Absent => disk[n] \in Version /\ disk[n] <= new
         /\ \A v \in Version : v <= written <=> v <= new /\ v # new
<1>1. /\ new \in Version /\ 1 < new /\ written \in Nat /\ new > written
      /\ \A v \in Version : v <= written <=> v <= new /\ v # new
  BY TextsAssumption DEF CorpusTypeOK, Version
<1>2. \A n \in Name : disk[n] # Absent => disk[n] \in Version /\ disk[n] <= written
  BY DEF CorpusTypeOK, TextsFit
<1>3. \A n \in Name : disk[n] # new
  BY <1>1, <1>2, VersionsAreNumbers
<1>4. upload[new] = "none"
  BY <1>1 DEF TextsFit
<1>5. row[new] = "none"
  BY <1>1, <1>4 DEF TextsFit
<1>6. removal[new] = "none"
  BY <1>1, <1>5 DEF TextsFit
<1>7. QED
  BY <1>1, <1>2, <1>3, <1>4, <1>5, <1>6

LEMMA TextsKept ==
  ASSUME CorpusTypeOK, TextsFit, CorpusNext PROVE TextsFit'
<1> USE VersionsAreNumbers
<1>0. /\ written \in Version /\ disk \in [Name -> Version \cup {Absent}]
      /\ nameOf \in [Version -> Name]
  BY DEF CorpusTypeOK
<1>1. CASE UNCHANGED <<disk, nameOf, upload, row, removal, written>>
  BY <1>1 DEF TextsFit
<1>2. CASE CrashServer
  <2>1. /\ UNCHANGED <<nameOf, row, written>>
        /\ \A v \in Version : upload'[v] = IF upload[v] = "none" THEN "none" ELSE "answered"
        /\ \A v \in Version : removal'[v] = "none"
    BY <1>2 DEF CrashServer
  <2>2. \A n \in Name : disk'[n] # Absent => disk'[n] <= written /\ nameOf[disk'[n]] = n
    BY <1>2, WrittenFits DEF CrashServer, TextsFit
  <2>3. QED
    BY <2>1, <2>2 DEF TextsFit
<1>3. ASSUME NEW n \in Name, UploadCorpus(n) PROVE TextsFit'
  <2>1. PICK new : new = written + 1
    OBVIOUS
  <2>2. /\ UNCHANGED <<disk, row, removal>> /\ written' = new /\ written < MaxVersion
        /\ nameOf' = [nameOf EXCEPT ![new] = n] /\ upload' = [upload EXCEPT ![new] = "processing"]
    BY <1>3, <2>1 DEF UploadCorpus
  <2>3. /\ new \in Version /\ 1 < new /\ row[new] = "none" /\ removal[new] = "none"
        /\ \A m \in Name : disk[m] # new
        /\ \A m \in Name : disk[m] # Absent => disk[m] \in Version /\ disk[m] <= new
        /\ \A v \in Version : v <= written <=> v <= new /\ v # new
    BY <2>1, <2>2, NewVersionIsFresh
  <2>4. /\ \A v \in Version : v # new => nameOf'[v] = nameOf[v] /\ upload'[v] = upload[v]
        /\ upload'[new] = "processing"
    BY <2>2, <2>3 DEF CorpusTypeOK
  <2>5. \A m \in Name : disk'[m] # Absent => disk'[m] <= written' /\ nameOf'[disk'[m]] = m
    <3> TAKE m \in Name
    <3> HAVE disk'[m] # Absent
    <3>1. disk'[m] = disk[m] /\ disk[m] # new /\ disk[m] \in Version /\ disk[m] <= new
      BY <2>2, <2>3
    <3>2. nameOf[disk[m]] = m
      BY <3>1 DEF TextsFit
    <3>3. QED
      BY <3>1, <3>2, <2>2, <2>4
  <2>6. \A v \in Version : /\ upload'[v] # "none" => 1 < v /\ v <= written'
                           /\ row'[v] # "none" => upload'[v] = "answered"
                           /\ removal'[v] # "none" => row'[v] # "none"
    BY <2>2, <2>3, <2>4 DEF TextsFit
  <2>7. QED
    BY <2>5, <2>6 DEF TextsFit
<1>4. ASSUME NEW n \in Name, SaveCorpus(n) PROVE TextsFit'
  <2>1. CASE UNCHANGED <<disk, nameOf, written>>
    BY <1>4, <2>1 DEF SaveCorpus, TextsFit
  <2>2. CASE /\ written < MaxVersion /\ written' = written + 1
             /\ nameOf' = [nameOf EXCEPT ![written + 1] = n]
             /\ disk' = [disk EXCEPT ![n] = written + 1]
    <3>1. PICK new : new = written + 1
      OBVIOUS
    <3>2. /\ new \in Version /\ \A m \in Name : disk[m] # new
          /\ \A m \in Name : disk[m] # Absent => disk[m] \in Version /\ disk[m] <= new
          /\ \A v \in Version : v <= written <=> v <= new /\ v # new
      BY <2>2, <3>1, NewVersionIsFresh
    <3>3. /\ \A v \in Version : nameOf'[v] = IF v = new THEN n ELSE nameOf[v]
          /\ \A m \in Name : disk'[m] = IF m = n THEN new ELSE disk[m]
      BY <2>2, <3>1, <3>2, <1>0
    <3>4. UNCHANGED <<upload, row, removal>> /\ written' = new
      BY <1>4, <2>2, <3>1 DEF SaveCorpus
    <3>5. \A m \in Name : disk'[m] # Absent => disk'[m] <= written' /\ nameOf'[disk'[m]] = m
      <4> TAKE m \in Name
      <4>1. CASE m = n
        BY <4>1, <3>2, <3>3, <3>4
      <4>2. CASE m # n /\ disk[m] # Absent
        <5>1. disk'[m] = disk[m] /\ disk[m] # new /\ disk[m] \in Version /\ disk[m] <= new
          BY <4>2, <3>2, <3>3
        <5>2. nameOf[disk[m]] = m
          BY <4>2 DEF TextsFit
        <5>3. QED
          BY <5>1, <5>2, <3>3, <3>4
      <4>3. QED
        BY <4>1, <4>2, <3>3
    <3>6. \A v \in Version : upload[v] # "none" => 1 < v /\ v <= written'
      BY <3>2, <3>4 DEF TextsFit
    <3>7. QED
      BY <3>4, <3>5, <3>6 DEF TextsFit
  <2>3. QED
    BY <1>4, <2>1, <2>2 DEF SaveCorpus
<1>5. ASSUME NEW v \in Version, StoreUpload(v) PROVE TextsFit'
  <2>1. /\ UNCHANGED <<nameOf, row, removal, written>> /\ upload[v] = "processing"
        /\ \A w \in Version : w # v => upload'[w] = upload[w]
    BY <1>5 DEF StoreUpload, KeepUpload, CorpusTypeOK
  <2>2. \A n \in Name : \/ disk'[n] = Written(v)[n]
                        \/ disk'[n] = disk[n]
                        \/ disk'[n] = Absent
    BY <1>5, <1>0 DEF StoreUpload, KeepUpload
  <2>3. \A n \in Name : disk'[n] # Absent => disk'[n] <= written /\ nameOf[disk'[n]] = n
    BY <2>1, <2>2, WrittenFits DEF TextsFit
  <2>4. row[v] = "none"
    BY <2>1 DEF TextsFit
  <2>5. QED
    BY <2>1, <2>3, <2>4 DEF TextsFit
<1>6. ASSUME NEW v \in Version, FinishUpload(v) PROVE TextsFit'
  <2>1. /\ UNCHANGED <<disk, nameOf, removal, written>>
        /\ upload[v] \in {"indexed", "failed"} /\ upload'[v] = "answered"
        /\ \A w \in Version : w # v => upload'[w] = upload[w] /\ row'[w] = row[w]
        /\ row'[v] \in {upload[v], row[v]}
    BY <1>6 DEF FinishUpload, CorpusTypeOK
  <2>2. row[v] = "none" /\ removal[v] = "none"
    BY <2>1 DEF TextsFit
  <2>3. QED
    BY <2>1, <2>2 DEF TextsFit
<1>7. ASSUME NEW v \in Version, ReadRow(v) PROVE TextsFit'
  <2>1. /\ UNCHANGED <<disk, nameOf, row, upload, written>> /\ row[v] # "none"
        /\ \A w \in Version : w # v => removal'[w] = removal[w]
    BY <1>7 DEF ReadRow, CorpusTypeOK
  <2>2. QED
    BY <2>1 DEF TextsFit
<1>8. ASSUME NEW v \in Version, DeleteCorpus(v) PROVE TextsFit'
  <2>1. /\ UNCHANGED <<nameOf, row, upload, written>> /\ removal[v] = "read"
        /\ \A w \in Version : w # v => removal'[w] = removal[w]
        /\ \A n \in Name : disk'[n] \in {disk[n], Absent}
    BY <1>8 DEF DeleteCorpus, CorpusTypeOK
  <2>2. QED
    BY <2>1 DEF TextsFit
<1>9. ASSUME NEW v \in Version, FinishDelete(v) PROVE TextsFit'
  <2>1. /\ UNCHANGED <<disk, nameOf, upload, written>> /\ removal'[v] = "none"
        /\ \A w \in Version : w # v => removal'[w] = removal[w] /\ row'[w] = row[w]
        /\ row'[v] \in {"none", row[v]}
    BY <1>9 DEF FinishDelete, CorpusTypeOK
  <2>2. QED
    BY <2>1 DEF TextsFit
<1>10. Start \/ RebuildIndex \/ EndBatch
       \/ (\E n \in Name : NextPoem(n))
       \/ (\E poems \in SUBSET Name, force, skip, rebuild \in BOOLEAN :
             GenerateCorpus(poems, force, skip, rebuild))
       => UNCHANGED <<disk, nameOf, upload, row, removal, written>>
  BY DEF Start, RebuildIndex, EndBatch, NextPoem, GenerateCorpus
<1>11. QED
  BY <1>1, <1>2, <1>3, <1>4, <1>5, <1>6, <1>7, <1>8, <1>9, <1>10 DEF CorpusNext

-----------------------------------------------------------------------------
(* What the steps that touch the disk do *)

LEMMA StoreUploadDoes ==
  ASSUME CorpusTypeOK, TextsFit, NEW v \in Version, StoreUpload(v)
  PROVE  /\ UNCHANGED <<up, words, row, nameOf, removal, script, written, mishaps>>
         /\ upload[v] = "processing" /\ row[v] = "none"
         /\ \A w \in Version : w # v => upload'[w] = upload[w]
         /\ \A w \in Version : copies[w] > 0 => copies'[w] > 0
         /\ \/ /\ upload'[v] = "indexed"
               /\ \A n \in Name : disk'[n] = IF n = nameOf[v] THEN v ELSE disk[n]
               /\ \A n \in Name : disk'[n] # Absent => copies'[disk'[n]] > 0
            \/ /\ upload'[v] = "failed"
               /\ \A n \in Name : disk'[n] = IF n = nameOf[v] THEN Absent ELSE disk[n]
<1> USE VersionsAreNumbers
<1>1. /\ UNCHANGED <<up, words, row, nameOf, removal, script, written, mishaps>>
      /\ upload[v] = "processing" /\ KeepUpload(v)
  BY DEF StoreUpload
<1>2. row[v] = "none"
  BY <1>1 DEF TextsFit
<1>3. /\ \A w \in Version : w # v => upload'[w] = upload[w]
      /\ \/ BuildVectorStore(Written(v)) /\ upload'[v] = "indexed" /\ disk' = Written(v)
         \/ BuildRaises(Written(v)) /\ upload'[v] = "failed"
            /\ disk' = [disk EXCEPT ![nameOf[v]] = Absent]
  BY <1>1 DEF KeepUpload, CorpusTypeOK
<1>4. /\ Written(v) \in [Name -> Version \cup {Absent}]
      /\ \A n \in Name : Written(v)[n] = IF n = nameOf[v] THEN v ELSE disk[n]
  BY <1>1, WrittenFits
<1>5. \A w \in Version : copies[w] > 0 => copies'[w] > 0
  BY <1>3, <1>4, RebuildKeepsEntries
<1>6. CASE BuildVectorStore(Written(v)) /\ upload'[v] = "indexed" /\ disk' = Written(v)
  <2>1. Added(OnDisk(Written(v)))
    BY <1>4, <1>6, RebuildAdds
  <2>2. \A n \in Name : disk'[n] # Absent => disk'[n] \in OnDisk(Written(v)) /\ disk'[n] \in Version
    BY <1>4, <1>6, OnDiskHasNames
  <2>3. \A n \in Name : disk'[n] # Absent => copies'[disk'[n]] > 0
    BY <2>1, <2>2, AddedGrows
  <2>4. QED
    BY <1>1, <1>2, <1>3, <1>4, <1>5, <1>6, <2>3
<1>7. CASE upload'[v] = "failed" /\ disk' = [disk EXCEPT ![nameOf[v]] = Absent]
  <2>1. \A n \in Name : disk'[n] = IF n = nameOf[v] THEN Absent ELSE disk[n]
    BY <1>7 DEF CorpusTypeOK
  <2>2. QED
    BY <1>1, <1>2, <1>3, <1>5, <1>7, <2>1
<1>8. QED
  BY <1>3, <1>6, <1>7

LEMMA DeleteCorpusDoes ==
  ASSUME CorpusTypeOK, NEW v \in Version, DeleteCorpus(v)
  PROVE  /\ UNCHANGED <<up, words, row, nameOf, upload, script, written, mishaps>>
         /\ removal[v] = "read" /\ removal'[v] = "removed"
         /\ \A w \in Version : w # v => removal'[w] = removal[w]
         /\ \A w \in Version : copies[w] > 0 => copies'[w] > 0
         /\ \A n \in Name : disk'[n] = IF n = nameOf[v] THEN Absent ELSE disk[n]
<1>1. /\ UNCHANGED <<up, words, row, nameOf, upload, script, written, mishaps>>
      /\ removal[v] = "read" /\ removal' = [removal EXCEPT ![v] = "removed"]
      /\ disk' = [disk EXCEPT ![nameOf[v]] = Absent]
      /\ BuildVectorStore(disk') \/ BuildRaises(disk')
  BY DEF DeleteCorpus
<1>2. /\ removal'[v] = "removed"
      /\ \A w \in Version : w # v => removal'[w] = removal[w]
      /\ \A n \in Name : disk'[n] = IF n = nameOf[v] THEN Absent ELSE disk[n]
      /\ disk' \in [Name -> Version \cup {Absent}]
  BY <1>1 DEF CorpusTypeOK
<1>3. \A w \in Version : copies[w] > 0 => copies'[w] > 0
  BY <1>1, <1>2, RebuildKeepsEntries
<1>4. QED
  BY <1>1, <1>2, <1>3

LEMMA UploadCorpusDoes ==
  ASSUME CorpusTypeOK, TextsFit, NEW n \in Name, UploadCorpus(n)
  PROVE  /\ UNCHANGED <<up, disk, copies, words, row, removal, script, builds, mishaps>>
         /\ \E new \in Version :
              /\ 1 < new /\ upload[new] = "none" /\ upload'[new] = "processing" /\ nameOf'[new] = n
              /\ row[new] = "none" /\ removal[new] = "none"
              /\ \A m \in Name : disk[m] # new
              /\ \A v \in Version : v # new => nameOf'[v] = nameOf[v] /\ upload'[v] = upload[v]
              /\ 1..written' = (1..written) \cup {new} /\ new \notin 1..written
<1>1. PICK new : new = written + 1
  OBVIOUS
<1>2. /\ UNCHANGED <<up, disk, copies, words, row, removal, script, builds, mishaps>>
      /\ written' = new /\ written < MaxVersion
      /\ nameOf' = [nameOf EXCEPT ![new] = n] /\ upload' = [upload EXCEPT ![new] = "processing"]
  BY <1>1 DEF UploadCorpus
<1>3. /\ new \in Version /\ 1 < new /\ row[new] = "none" /\ removal[new] = "none"
      /\ upload[new] = "none" /\ \A m \in Name : disk[m] # new
  BY <1>1, <1>2, NewVersionIsFresh
<1>4. /\ \A v \in Version : v # new => nameOf'[v] = nameOf[v] /\ upload'[v] = upload[v]
      /\ upload'[new] = "processing" /\ nameOf'[new] = n
  BY <1>2, <1>3 DEF CorpusTypeOK
<1>5. 1..written' = (1..written) \cup {new} /\ new \notin 1..written
  BY <1>1, <1>2, TextsAssumption DEF CorpusTypeOK, Version
<1>6. QED
  BY <1>2, <1>3, <1>4, <1>5

LEMMA SaveCorpusDoes ==
  ASSUME CorpusTypeOK, TextsFit, NEW n \in Name, SaveCorpus(n)
  PROVE  /\ UNCHANGED <<up, copies, words, row, upload, removal, builds, mishaps>>
         /\ script.doing = "batch" /\ script'.doing = "batch"
         /\ \/ UNCHANGED <<disk, nameOf, written>>
            \/ \E new \in Version :
                 /\ 1 < new /\ upload[new] = "none" /\ nameOf'[new] = n
                 /\ \A m \in Name : disk'[m] = IF m = n THEN new ELSE disk[m]
                 /\ \A v \in Version : v # new => nameOf'[v] = nameOf[v]
                 /\ 1..written' = (1..written) \cup {new} /\ new \notin 1..written
<1>0. script \in Script
  BY DEF CorpusTypeOK
<1>1. /\ UNCHANGED <<up, copies, words, row, upload, removal, builds, mishaps>>
      /\ script.doing = "batch" /\ script'.doing = "batch"
  BY <1>0 DEF SaveCorpus, Script
<1>2. CASE UNCHANGED <<disk, nameOf, written>>
  BY <1>1, <1>2
<1>3. CASE /\ written < MaxVersion /\ written' = written + 1
           /\ nameOf' = [nameOf EXCEPT ![written + 1] = n]
           /\ disk' = [disk EXCEPT ![n] = written + 1]
  <2>1. PICK new : new = written + 1
    OBVIOUS
  <2>2. new \in Version /\ 1 < new /\ upload[new] = "none"
    BY <1>3, <2>1, NewVersionIsFresh
  <2>3. /\ nameOf'[new] = n /\ \A v \in Version : v # new => nameOf'[v] = nameOf[v]
        /\ \A m \in Name : disk'[m] = IF m = n THEN new ELSE disk[m]
    BY <1>3, <2>1, <2>2 DEF CorpusTypeOK
  <2>4. 1..written' = (1..written) \cup {new} /\ new \notin 1..written
    BY <1>3, <2>1, TextsAssumption DEF CorpusTypeOK, Version
  <2>5. QED
    BY <1>1, <2>2, <2>3, <2>4
<1>4. QED
  BY <1>2, <1>3 DEF SaveCorpus

-----------------------------------------------------------------------------
(* Every file is found *)

LEMMA FilesAtStart == CorpusInit => EveryFileIsFound
BY DEF CorpusInit, EveryFileIsFound

LEMMA FilesKept ==
  ASSUME CorpusTypeOK, TextsFit, EveryFileIsFound, CorpusNext PROVE EveryFileIsFound'
<1> USE VersionsAreNumbers
<1>0. \A n \in Name : disk[n] # Absent => disk[n] \in Version
  BY DEF CorpusTypeOK
<1>1. ASSUME UNCHANGED <<up, words>>,
             \A n \in Name : \/ disk'[n] = disk[n] \/ disk'[n] = Absent
                             \/ disk'[n] # 1 /\ upload'[disk'[n]] = "none",
             \A n \in Name : disk[n] # Absent /\ upload[disk[n]] = "none" => upload'[disk[n]] = "none",
             \A v \in Version : copies[v] > 0 => copies'[v] > 0
      PROVE  EveryFileIsFound'
  <2> SUFFICES ASSUME up', NEW n \in Name, disk'[n] # Absent, disk'[n] = 1 \/ upload'[disk'[n]] # "none"
               PROVE  copies'[disk'[n]] > 0 \/ disk'[n] \in words'
    BY DEF EveryFileIsFound
  <2>1. disk'[n] = disk[n] /\ up /\ disk[n] \in Version
    BY <1>0, <1>1
  <2>2. disk[n] = 1 \/ upload[disk[n]] # "none"
    BY <2>1, <1>1
  <2>3. copies[disk[n]] > 0 \/ disk[n] \in words
    BY <2>1, <2>2 DEF EveryFileIsFound
  <2>4. QED
    BY <2>1, <2>3, <1>1
<1>2. CASE Start
  <2>1. disk' = disk /\ words' = OnDisk(disk)
    BY <1>2 DEF Start
  <2>2. \A n \in Name : disk[n] # Absent => disk[n] \in words'
    BY <2>1, OnDiskHasNames DEF CorpusTypeOK
  <2>3. QED
    BY <2>1, <2>2 DEF EveryFileIsFound
<1>3. CASE CrashServer
  BY <1>3 DEF CrashServer, EveryFileIsFound
<1>4. CASE RebuildIndex
  <2>1. UNCHANGED <<up, disk, words, upload>> /\ (BuildVectorStore(disk) \/ BuildRaises(disk))
    BY <1>4 DEF RebuildIndex
  <2>2. disk \in [Name -> Version \cup {Absent}]
    BY DEF CorpusTypeOK
  <2>3. \A v \in Version : copies[v] > 0 => copies'[v] > 0
    BY <2>1, <2>2, RebuildKeepsEntries
  <2>4. QED
    BY <2>1, <2>3, <1>1
<1>5. ASSUME NEW n \in Name, UploadCorpus(n) PROVE EveryFileIsFound'
  <2>1. UNCHANGED <<up, disk, copies, words>>
    BY <1>5, UploadCorpusDoes
  <2>2. \A m \in Name : disk[m] # Absent /\ upload[disk[m]] = "none" => upload'[disk[m]] = "none"
    BY <1>5, UploadCorpusDoes, <1>0
  <2>3. QED
    BY <2>1, <2>2, <1>1
<1>6. ASSUME NEW n \in Name, SaveCorpus(n) PROVE EveryFileIsFound'
  <2>1. /\ UNCHANGED <<up, copies, words, upload>>
        /\ \A m \in Name : \/ disk'[m] = disk[m]
                           \/ disk'[m] # 1 /\ upload'[disk'[m]] = "none"
    BY <1>6, SaveCorpusDoes
  <2>2. QED
    BY <2>1, <1>1
<1>7. ASSUME NEW v \in Version, StoreUpload(v) PROVE EveryFileIsFound'
  <2>1. CASE \A n \in Name : disk'[n] # Absent => copies'[disk'[n]] > 0
    BY <2>1 DEF EveryFileIsFound
  <2>2. CASE \A n \in Name : disk'[n] = IF n = nameOf[v] THEN Absent ELSE disk[n]
    <3>1. /\ UNCHANGED <<up, words>> /\ upload[v] # "none"
          /\ \A w \in Version : w # v => upload'[w] = upload[w]
          /\ \A w \in Version : copies[w] > 0 => copies'[w] > 0
      BY <1>7, StoreUploadDoes
    <3>2. \A n \in Name : disk[n] # Absent /\ upload[disk[n]] = "none" => upload'[disk[n]] = "none"
      BY <3>1, <1>0
    <3>3. QED
      BY <2>2, <3>1, <3>2, <1>1
  <2>3. QED
    BY <1>7, <2>1, <2>2, StoreUploadDoes
<1>8. ASSUME NEW v \in Version, FinishUpload(v) PROVE EveryFileIsFound'
  <2>1. UNCHANGED <<up, disk, words, copies>>
        /\ \A n \in Name : disk[n] # Absent /\ upload[disk[n]] = "none" => upload'[disk[n]] = "none"
    BY <1>8 DEF FinishUpload, CorpusTypeOK
  <2>2. QED
    BY <2>1, <1>1
<1>9. ASSUME NEW v \in Version, DeleteCorpus(v) PROVE EveryFileIsFound'
  <2>1. /\ UNCHANGED <<up, words, upload>>
        /\ \A n \in Name : disk'[n] = disk[n] \/ disk'[n] = Absent
        /\ \A w \in Version : copies[w] > 0 => copies'[w] > 0
    BY <1>9, DeleteCorpusDoes
  <2>2. QED
    BY <2>1, <1>1
<1>10. CASE UNCHANGED <<up, disk, words, copies, upload>>
  BY <1>10, <1>1
<1>11. EndBatch \/ (\E n \in Name : NextPoem(n))
       \/ (\E poems \in SUBSET Name, force, skip, rebuild \in BOOLEAN :
             GenerateCorpus(poems, force, skip, rebuild))
       \/ (\E v \in Version : ReadRow(v) \/ FinishDelete(v))
       => UNCHANGED <<up, disk, words, copies, upload>>
  BY DEF EndBatch, NextPoem, GenerateCorpus, ReadRow, FinishDelete
<1>12. QED
  BY <1>2, <1>3, <1>4, <1>5, <1>6, <1>7, <1>8, <1>9, <1>10, <1>11 DEF CorpusNext

-----------------------------------------------------------------------------
(* The rows tell the truth *)

LEMMA StagesAtStart == CorpusInit => StagesFit
BY DEF CorpusInit, StagesFit

\* An upload whose own state and whose file no step touches stays in its stage.
LEMMA StageStays ==
  ASSUME NEW v \in Version, Stage(v),
         nameOf'[v] = nameOf[v], upload'[v] = upload[v], removal'[v] = removal[v],
         row'[v] = row[v], disk'[nameOf[v]] = v <=> disk[nameOf[v]] = v,
         copies[v] > 0 => copies'[v] > 0
  PROVE  Stage(v)'
BY DEF Stage

\* A name that is still its own after a step was so before it, and a version
\* written by the step has another one.
LEMMA NamesStayOwn ==
  ASSUME CorpusTypeOK, TextsFit, NEW v \in Version, upload[v] # "none", NameIsItsOwn(v)',
         NEW new \in Version, upload[new] = "none",
         \A w \in Version : w # new => nameOf'[w] = nameOf[w],
         1..written' = (1..written) \cup {new}, new \notin 1..written
  PROVE  NameIsItsOwn(v) /\ nameOf'[new] # nameOf[v] /\ nameOf'[v] = nameOf[v]
<1>1. 1..written \subseteq Version /\ v # new
  BY TextsAssumption DEF CorpusTypeOK, Version
<1>2. nameOf'[v] = nameOf[v]
  BY <1>1
<1>3. \A w \in 1..written' : nameOf'[w] = nameOf'[v] => w = v
  BY DEF NameIsItsOwn
<1>4. \A w \in 1..written : nameOf'[w] = nameOf[w]
  BY <1>1
<1>5. nameOf'[new] # nameOf[v]
  BY <1>1, <1>2, <1>3
<1>6. \A w \in 1..written : nameOf[w] = nameOf[v] => w = v
  BY <1>2, <1>3, <1>4
<1>7. QED
  BY <1>2, <1>5, <1>6 DEF NameIsItsOwn

\* An upload, or a deletion, of another version has another name.
LEMMA OthersHaveOtherNames ==
  ASSUME CorpusTypeOK, TextsFit, NEW v \in Version, NameIsItsOwn(v),
         NEW u \in Version, u # v, upload[u] # "none"
  PROVE  nameOf[u] # nameOf[v]
<1>1. u \in 1..written
  BY TextsAssumption DEF TextsFit, CorpusTypeOK, Version
<1>2. QED
  BY <1>1 DEF NameIsItsOwn

LEMMA StagesKept ==
  ASSUME CorpusTypeOK, TextsFit, StagesFit, CorpusNext PROVE StagesFit'
<1> SUFFICES ASSUME mishaps' = 0, NEW v \in Version, upload'[v] # "none", NameIsItsOwn(v)'
             PROVE  Stage(v)'
  BY DEF StagesFit
<1> USE VersionsAreNumbers
<1>0. /\ mishaps \in Nat /\ disk \in [Name -> Version \cup {Absent}]
      /\ nameOf[v] \in Name
  BY TextsAssumption DEF CorpusTypeOK
<1>1. ASSUME UNCHANGED <<nameOf, written>>
      PROVE  NameIsItsOwn(v)
  BY <1>1 DEF NameIsItsOwn
<1>2. ASSUME UNCHANGED <<nameOf, written, disk, upload, removal, row, mishaps>>,
             copies[v] > 0 => copies'[v] > 0
      PROVE  Stage(v)'
  <2>1. Stage(v)
    BY <1>1, <1>2 DEF StagesFit
  <2>2. QED
    BY <1>2, <2>1, StageStays
<1>3. CASE Start
  <2>1. /\ UNCHANGED <<nameOf, written, disk, upload, removal, row, mishaps>>
        /\ copies' = copies \/ copies' = AppendAll(OnDisk(disk))
    BY <1>3 DEF Start
  <2>2. copies[v] > 0 => copies'[v] > 0
    <3>1. CASE copies' = AppendAll(OnDisk(disk))
      <4>1. Added(OnDisk(disk))
        BY <3>1, AppendAdds
      <4>2. copies[v] \in Nat /\ copies'[v] \in Nat /\ copies'[v] >= copies[v]
        BY <4>1, AddedGrows
      <4>3. QED
        BY <4>2
    <3>2. QED
      BY <2>1, <3>1
  <2>3. QED
    BY <2>1, <2>2, <1>2
<1>4. CASE CrashServer
  <2>1. mishaps' = mishaps + 1
    BY <1>4 DEF CrashServer, Mishap
  <2>2. QED
    BY <2>1, <1>0
<1>5. CASE RebuildIndex
  <2>1. /\ UNCHANGED <<nameOf, written, disk, upload, removal, row, mishaps>>
        /\ BuildVectorStore(disk) \/ BuildRaises(disk)
    BY <1>5 DEF RebuildIndex
  <2>2. copies[v] > 0 => copies'[v] > 0
    BY <2>1, <1>0, RebuildKeepsEntries
  <2>3. QED
    BY <2>1, <2>2, <1>2
<1>6. ASSUME NEW n \in Name, UploadCorpus(n) PROVE Stage(v)'
  <2>1. UNCHANGED <<disk, copies, row, removal, mishaps>>
    BY <1>6, UploadCorpusDoes
  <2>2. PICK new \in Version :
          /\ upload[new] = "none" /\ upload'[new] = "processing"
          /\ row[new] = "none" /\ removal[new] = "none"
          /\ \A m \in Name : disk[m] # new
          /\ \A w \in Version : w # new => nameOf'[w] = nameOf[w] /\ upload'[w] = upload[w]
          /\ nameOf'[new] = n
          /\ 1..written' = (1..written) \cup {new} /\ new \notin 1..written
    BY <1>6, UploadCorpusDoes
  <2>3. CASE v = new
    BY <1>6, <2>1, <2>2, <2>3 DEF Stage
  <2>4. CASE v # new
    <3>1. upload[v] # "none" /\ upload'[v] = upload[v]
      BY <2>2, <2>4
    <3>2. NameIsItsOwn(v) /\ nameOf'[v] = nameOf[v]
      BY <2>2, <3>1, NamesStayOwn
    <3>3. Stage(v)
      BY <2>1, <3>1, <3>2 DEF StagesFit
    <3>4. QED
      BY <2>1, <3>1, <3>2, <3>3, StageStays
  <2>5. QED
    BY <2>3, <2>4
<1>7. ASSUME NEW n \in Name, SaveCorpus(n) PROVE Stage(v)'
  <2>1. UNCHANGED <<upload, copies, row, removal, mishaps>>
    BY <1>7, SaveCorpusDoes
  <2>2. CASE UNCHANGED <<disk, nameOf, written>>
    BY <2>1, <2>2, <1>2
  <2>3. ASSUME NEW new,
               /\ upload[new] = "none" /\ nameOf'[new] = n /\ new \in Version
               /\ \A m \in Name : disk'[m] = IF m = n THEN new ELSE disk[m]
               /\ \A w \in Version : w # new => nameOf'[w] = nameOf[w]
               /\ 1..written' = (1..written) \cup {new} /\ new \notin 1..written
        PROVE  Stage(v)'
    <3>1. NameIsItsOwn(v) /\ nameOf'[new] # nameOf[v] /\ nameOf'[v] = nameOf[v]
      BY <2>1, <2>3, NamesStayOwn
    <3>2. disk'[nameOf[v]] = disk[nameOf[v]]
      BY <2>3, <3>1, <1>0
    <3>3. Stage(v)
      BY <2>1, <3>1 DEF StagesFit
    <3>4. QED
      BY <2>1, <3>1, <3>2, <3>3, StageStays
  <2>4. \/ UNCHANGED <<disk, nameOf, written>>
        \/ \E new \in Version :
             /\ upload[new] = "none" /\ nameOf'[new] = n /\ new \in Version
             /\ \A m \in Name : disk'[m] = IF m = n THEN new ELSE disk[m]
             /\ \A w \in Version : w # new => nameOf'[w] = nameOf[w]
             /\ 1..written' = (1..written) \cup {new} /\ new \notin 1..written
    BY <1>7, SaveCorpusDoes
  <2>5. CASE ~UNCHANGED <<disk, nameOf, written>>
    <3>1. PICK new \in Version :
             /\ upload[new] = "none" /\ nameOf'[new] = n /\ new \in Version
             /\ \A m \in Name : disk'[m] = IF m = n THEN new ELSE disk[m]
             /\ \A w \in Version : w # new => nameOf'[w] = nameOf[w]
             /\ 1..written' = (1..written) \cup {new} /\ new \notin 1..written
      BY <2>4, <2>5
    <3>2. QED
      BY <2>3, <3>1
  <2>6. QED
    BY <2>2, <2>5
<1>8. ASSUME NEW u \in Version, StoreUpload(u) PROVE Stage(v)'
  <2>1. /\ UNCHANGED <<row, nameOf, removal, written, mishaps>>
        /\ upload[u] = "processing" /\ row[u] = "none"
        /\ \A w \in Version : w # u => upload'[w] = upload[w]
        /\ \A w \in Version : copies[w] > 0 => copies'[w] > 0
        /\ \A n \in Name : n # nameOf[u] => disk'[n] = disk[n]
    BY <1>8, StoreUploadDoes
  <2>2. NameIsItsOwn(v)
    BY <2>1, <1>1
  <2>3. CASE v = u
    <3>1. removal[v] = "none"
      BY <2>1, <2>3 DEF TextsFit
    <3>2. \/ upload'[v] = "indexed" /\ disk'[nameOf[v]] = v /\ copies'[v] > 0
          \/ upload'[v] = "failed" /\ disk'[nameOf[v]] = Absent
      BY <1>0, <1>8, <2>3, StoreUploadDoes
    <3>3. QED
      BY <2>1, <3>1, <3>2 DEF Stage
  <2>4. CASE v # u
    <3>1. nameOf[v] # nameOf[u] /\ upload'[v] = upload[v]
      BY <2>1, <2>2, <2>4, OthersHaveOtherNames
    <3>2. disk'[nameOf[v]] = disk[nameOf[v]]
      BY <2>1, <3>1, <1>0
    <3>3. Stage(v)
      BY <2>1, <2>2, <3>1 DEF StagesFit
    <3>4. QED
      BY <2>1, <3>1, <3>2, <3>3, StageStays
  <2>5. QED
    BY <2>3, <2>4
<1>9. ASSUME NEW u \in Version, FinishUpload(u) PROVE Stage(v)'
  <2>1. /\ UNCHANGED <<disk, copies, nameOf, removal, written>>
        /\ upload[u] \in {"indexed", "failed"} /\ upload'[u] = "answered"
        /\ \A w \in Version : w # u => upload'[w] = upload[w] /\ row'[w] = row[w]
    BY <1>9 DEF FinishUpload, CorpusTypeOK
  <2>2. UNCHANGED mishaps /\ row'[u] = upload[u]
    BY <1>9, <1>0 DEF FinishUpload, Mishap, CorpusTypeOK
  <2>3. upload[v] # "none" /\ NameIsItsOwn(v)
    BY <2>1, <1>1
  <2>4. Stage(v)
    BY <2>2, <2>3 DEF StagesFit
  <2>5. CASE v = u
    BY <2>1, <2>2, <2>4, <2>5 DEF Stage
  <2>6. CASE v # u
    BY <2>1, <2>2, <2>4, <2>6, StageStays
  <2>7. QED
    BY <2>5, <2>6
<1>10. ASSUME NEW u \in Version, ReadRow(u) PROVE Stage(v)'
  <2>1. /\ UNCHANGED <<disk, copies, nameOf, upload, row, written, mishaps>>
        /\ removal[u] = "none" /\ removal'[u] = "read"
        /\ \A w \in Version : w # u => removal'[w] = removal[w]
    BY <1>10 DEF ReadRow, CorpusTypeOK
  <2>2. Stage(v)
    BY <2>1, <1>1 DEF StagesFit
  <2>3. CASE v = u
    BY <2>1, <2>2, <2>3 DEF Stage
  <2>4. CASE v # u
    BY <2>1, <2>2, <2>4, StageStays
  <2>5. QED
    BY <2>3, <2>4
<1>11. ASSUME NEW u \in Version, DeleteCorpus(u) PROVE Stage(v)'
  <2>1. /\ UNCHANGED <<nameOf, upload, row, written, mishaps>>
        /\ removal[u] = "read" /\ removal'[u] = "removed"
        /\ \A w \in Version : w # u => removal'[w] = removal[w]
        /\ \A w \in Version : copies[w] > 0 => copies'[w] > 0
        /\ \A n \in Name : disk'[n] = IF n = nameOf[u] THEN Absent ELSE disk[n]
    BY <1>11, DeleteCorpusDoes
  <2>2. NameIsItsOwn(v) /\ upload[v] # "none"
    BY <2>1, <1>1
  <2>3. upload[u] = "answered"
    BY <2>1 DEF TextsFit
  <2>4. CASE v = u
    <3>1. disk'[nameOf[v]] # v
      BY <1>0, <2>1, <2>4
    <3>2. QED
      BY <2>1, <2>3, <2>4, <3>1 DEF Stage
  <2>5. CASE v # u
    <3>1. nameOf[u] # nameOf[v]
      BY <2>2, <2>3, <2>5, OthersHaveOtherNames
    <3>2. disk'[nameOf[v]] = disk[nameOf[v]]
      BY <1>0, <2>1, <3>1
    <3>3. Stage(v)
      BY <2>1, <2>2 DEF StagesFit
    <3>4. QED
      BY <2>1, <2>5, <3>2, <3>3, StageStays
  <2>6. QED
    BY <2>4, <2>5
<1>12. ASSUME NEW u \in Version, FinishDelete(u) PROVE Stage(v)'
  <2>1. /\ UNCHANGED <<disk, copies, nameOf, upload, written>>
        /\ removal[u] = "removed" /\ removal'[u] = "none"
        /\ \A w \in Version : w # u => removal'[w] = removal[w] /\ row'[w] = row[w]
    BY <1>12 DEF FinishDelete, CorpusTypeOK
  <2>2. UNCHANGED mishaps /\ row'[u] = "none"
    BY <1>12, <1>0 DEF FinishDelete, Mishap, CorpusTypeOK
  <2>3. Stage(v)
    BY <2>1, <2>2, <1>1 DEF StagesFit
  <2>4. CASE v = u
    <3>1. upload[v] = "answered"
      BY <2>1, <2>4 DEF TextsFit
    <3>2. QED
      BY <2>1, <2>2, <2>3, <2>4, <3>1 DEF Stage
  <2>5. CASE v # u
    BY <2>1, <2>3, <2>5, StageStays
  <2>6. QED
    BY <2>4, <2>5
<1>13. EndBatch \/ (\E n \in Name : NextPoem(n))
       \/ (\E poems \in SUBSET Name, force, skip, rebuild \in BOOLEAN :
             GenerateCorpus(poems, force, skip, rebuild))
       => UNCHANGED <<nameOf, written, disk, upload, removal, row, mishaps, copies>>
  BY DEF EndBatch, NextPoem, GenerateCorpus
<1>14. QED
  BY <1>2, <1>3, <1>4, <1>5, <1>6, <1>7, <1>8, <1>9, <1>10, <1>11, <1>12, <1>13 DEF CorpusNext

-----------------------------------------------------------------------------
(* A rebuild that was asked for covers every poem *)

LEMMA WrittenAtStart == CorpusInit => WrittenThenIndexed
BY DEF CorpusInit, WrittenThenIndexed, Idle

LEMMA WrittenKept ==
  ASSUME CorpusTypeOK, CorpusTypeOK', TextsFit, WrittenThenIndexed, CorpusNext
  PROVE  WrittenThenIndexed'
<1> USE VersionsAreNumbers
<1>0. /\ disk \in [Name -> Version \cup {Absent}] /\ script \in Script
      /\ \A n \in Name : disk[n] # Absent => disk[n] \in Version
  BY DEF CorpusTypeOK
<1> DEFINE Done == script.ok /\ script.doing = "ended" /\ script.rebuild /\ ~script.failed
<1>1. ASSUME NEW n \in Name, NEW w \in Version, Done, disk[n] = w
      PROVE  copies[w] > 0 \/ CutShort(w)
  BY <1>0, <1>1, OnDiskHasNames DEF WrittenThenIndexed
<1> SUFFICES ASSUME Done', NEW n \in Name, NEW w \in Version, disk'[n] = w
             PROVE  copies'[w] > 0 \/ CutShort(w)'
  <2>1. \A w \in OnDisk(disk)' : w \in Version /\ \E n \in Name : disk'[n] = w
    BY DEF OnDisk, CorpusTypeOK
  <2>2. QED
    BY <2>1 DEF WrittenThenIndexed
<1>2. ASSUME UNCHANGED script, disk[n] = w, copies[w] > 0 => copies'[w] > 0,
             CutShort(w) => CutShort(w)'
      PROVE  copies'[w] > 0 \/ CutShort(w)'
  BY <1>0, <1>1, <1>2
<1>3. CASE Start
  <2>1. /\ UNCHANGED <<disk, upload, row, script>>
        /\ copies' = copies \/ copies' = AppendAll(OnDisk(disk))
    BY <1>3 DEF Start
  <2>2. \A v \in Version : copies[v] > 0 => copies'[v] > 0
    BY <2>1, AppendAdds, AddedGrows
  <2>3. QED
    BY <2>1, <2>2, <1>2 DEF CutShort
<1>4. CASE CrashServer
  <2>1. /\ UNCHANGED <<script, row>>
        /\ \A v \in Version : upload'[v] = IF upload[v] = "none" THEN "none" ELSE "answered"
    BY <1>4 DEF CrashServer
  <2>2. CASE UNCHANGED <<disk, copies>>
    BY <2>1, <2>2, <1>0, <1>2 DEF CutShort
  <2>3. ASSUME NEW u \in Version, NEW some \in SUBSET Version, upload[u] = "processing",
               disk' = Written(u), copies' = AppendAll(some)
        PROVE  copies'[w] > 0 \/ CutShort(w)'
    <3>1. w = u \/ disk[n] = w
      BY <2>3, WrittenFits
    <3>2. CASE w = u
      <4>1. row[u] = "none"
        BY <2>3 DEF TextsFit
      <4>2. upload'[u] = "answered"
        BY <2>1, <2>3
      <4>3. QED
        BY <2>1, <3>2, <4>1, <4>2 DEF CutShort
    <3>3. CASE disk[n] = w
      <4>1. \A v \in Version : copies[v] > 0 => copies'[v] > 0
        BY <2>3, AppendAdds, AddedGrows
      <4>2. CutShort(w) => CutShort(w)'
        BY <1>0, <2>1, <3>3 DEF CutShort
      <4>3. QED
        BY <2>1, <3>3, <4>1, <4>2, <1>2
    <3>4. QED
      BY <3>1, <3>2, <3>3
  <2>4. QED
    BY <1>4, <2>2, <2>3 DEF CrashServer
<1>5. CASE RebuildIndex
  <2>1. UNCHANGED disk /\ BuildVectorStore(disk)
    BY <1>5, <1>0 DEF RebuildIndex, Script
  <2>2. Added(OnDisk(disk)) /\ w \in OnDisk(disk)
    BY <1>0, <2>1, RebuildAdds, OnDiskHasNames
  <2>3. copies'[w] > 0
    BY <1>0, <2>1, <2>2, AddedGrows
  <2>4. QED
    BY <2>1, <2>3
<1>6. ASSUME NEW m \in Name, UploadCorpus(m)
      PROVE  copies'[w] > 0 \/ CutShort(w)'
  <2>1. UNCHANGED <<disk, copies, row, script>>
    BY <1>6, UploadCorpusDoes
  <2>2. upload'[w] = upload[w]
    BY <1>0, <1>6, <2>1, UploadCorpusDoes
  <2>3. QED
    BY <2>1, <2>2, <1>2 DEF CutShort
<1>7. ASSUME NEW m \in Name, SaveCorpus(m) PROVE FALSE
  BY <1>7, SaveCorpusDoes
<1>8. ASSUME NEW u \in Version, StoreUpload(u)
      PROVE  copies'[w] > 0 \/ CutShort(w)'
  <2>1. CASE copies'[w] > 0
    BY <2>1
  <2>2. CASE \A m \in Name : disk'[m] = IF m = nameOf[u] THEN Absent ELSE disk[m]
    <3>1. /\ UNCHANGED <<row, script>> /\ disk[n] = w /\ upload[u] = "processing"
          /\ \A v \in Version : v # u => upload'[v] = upload[v]
          /\ \A v \in Version : copies[v] > 0 => copies'[v] > 0
      BY <1>8, <2>2, StoreUploadDoes
    <3>2. CutShort(w) => CutShort(w)'
      BY <1>0, <3>1 DEF CutShort
    <3>3. QED
      BY <3>1, <3>2, <1>2
  <2>3. QED
    BY <1>8, <2>1, <2>2, StoreUploadDoes
<1>9. ASSUME NEW u \in Version, FinishUpload(u)
      PROVE  copies'[w] > 0 \/ CutShort(w)'
  <2>1. /\ UNCHANGED <<disk, copies, script>> /\ upload[u] \in {"indexed", "failed"}
        /\ \A v \in Version : v # u => upload'[v] = upload[v] /\ row'[v] = row[v]
    BY <1>9 DEF FinishUpload, CorpusTypeOK
  <2>2. CutShort(w) => CutShort(w)'
    BY <1>0, <2>1 DEF CutShort
  <2>3. QED
    BY <2>1, <2>2, <1>2
<1>10. ASSUME NEW u \in Version, DeleteCorpus(u)
       PROVE  copies'[w] > 0 \/ CutShort(w)'
  <2>1. /\ UNCHANGED <<upload, row, script>> /\ disk[n] = w
        /\ \A v \in Version : copies[v] > 0 => copies'[v] > 0
    BY <1>10, DeleteCorpusDoes
  <2>2. QED
    BY <2>1, <1>2 DEF CutShort
<1>11. ASSUME NEW u \in Version, FinishDelete(u)
       PROVE  copies'[w] > 0 \/ CutShort(w)'
  <2>1. /\ UNCHANGED <<disk, copies, upload, script>>
        /\ \A v \in Version : row'[v] = row[v] \/ row'[v] = "none"
    BY <1>11 DEF FinishDelete, CorpusTypeOK
  <2>2. QED
    BY <2>1, <1>0, <1>2 DEF CutShort
<1>12. ASSUME NEW u \in Version, ReadRow(u)
       PROVE  copies'[w] > 0 \/ CutShort(w)'
  BY <1>12, <1>2 DEF ReadRow, CutShort
<1>13. ASSUME NEW poems \in SUBSET Name, NEW force \in BOOLEAN, NEW skip \in BOOLEAN,
              NEW rebuild \in BOOLEAN, GenerateCorpus(poems, force, skip, rebuild)
       PROVE  FALSE
  BY <1>13 DEF GenerateCorpus
<1>14. ASSUME NEW m \in Name, NextPoem(m) PROVE FALSE
  <2>1. script.doing = "batch" /\ script'.doing = script.doing
    BY <1>14, <1>0 DEF NextPoem, Script
  <2>2. QED
    BY <2>1
<1>15. CASE EndBatch
  <2>1. /\ script'.doing = IF script.rebuild /\ script.ok THEN "rebuild" ELSE "ended"
        /\ script'.rebuild = script.rebuild /\ script'.ok = script.ok
    BY <1>15, <1>0 DEF EndBatch, Script
  <2>2. QED
    BY <2>1
<1>16. QED
  BY <1>3, <1>4, <1>5, <1>6, <1>7, <1>8, <1>9, <1>10, <1>11, <1>12, <1>13, <1>14, <1>15
  DEF CorpusNext

-----------------------------------------------------------------------------
(* The theorems *)

\* The inductive invariant: types, counted copies, versions and names in order,
\* and the three properties, the one of the rows stage by stage.
THEOREM CorpusIsConsistent == CorpusSpec => []CorpusInv
<1>1. CorpusInit => CorpusInv
  BY TypesAtStart, TextsAtStart, FilesAtStart, StagesAtStart, WrittenAtStart DEF CorpusInv
<1>2. CorpusInv /\ [CorpusNext]_corpus => CorpusInv'
  <2>1. CASE UNCHANGED corpus
    BY <2>1 DEF corpus, CorpusInv, CorpusTypeOK, CopiesAreCounted, TextsFit, EveryFileIsFound,
                StagesFit, Stage, NameIsItsOwn, WrittenThenIndexed, CutShort, OnDisk
  <2>2. ASSUME CorpusInv, CorpusNext PROVE CorpusInv'
    BY <2>2, TypesKept, TextsKept, FilesKept, StagesKept, WrittenKept DEF CorpusInv
  <2>3. QED
    BY <2>1, <2>2
<1>3. QED
  BY <1>1, <1>2, PTL DEF CorpusSpec

\* Every value keeps its type, within the bounds the model sets (corpus_routes.py,
\* indexer.py, generate_corpus.py).
THEOREM CorpusIsTyped == CorpusSpec => []CorpusTypeOK
<1>1. CorpusInv => CorpusTypeOK
  BY DEF CorpusInv
<1>2. QED
  BY <1>1, CorpusIsConsistent, PTL

\* A file the server was given is found while it runs, by similarity or by words
\* (main.py, lifespan; corpus_routes.py, upload_corpus and delete_corpus).
THEOREM FilesAreFound == CorpusSpec => []EveryFileIsFound
<1>1. CorpusInv => EveryFileIsFound
  BY DEF CorpusInv
<1>2. QED
  BY <1>1, CorpusIsConsistent, PTL

\* The row of an upload under a name of its own tells what is on disk and in the
\* store, while no crash and no failed commit came between (corpus_routes.py).
THEOREM RowsAreTrue == CorpusSpec => []RowsTellTheTruth
<1>1. CorpusInv => RowsTellTheTruth
  <2> SUFFICES ASSUME CorpusInv, mishaps = 0, NEW v \in Version, upload[v] # "none",
                      ~Between(v), NameIsItsOwn(v)
               PROVE  /\ row[v] = "indexed" <=> disk[nameOf[v]] = v
                      /\ row[v] = "indexed" => copies[v] > 0
    BY DEF RowsTellTheTruth
  <2>1. upload[v] = "answered" /\ removal[v] = "none"
    BY DEF CorpusInv, CorpusTypeOK, Between
  <2>2. Stage(v)
    BY DEF CorpusInv, StagesFit
  <2>3. QED
    BY <2>1, <2>2 DEF Stage
<1>2. QED
  BY <1>1, CorpusIsConsistent, PTL

\* A script that wrote a poem and ended without a failure after the rebuild it was
\* asked for leaves every poem in the store (generate_corpus.py, _rebuild_index).
THEOREM RebuildsCoverThePoems == CorpusSpec => []WrittenThenIndexed
<1>1. CorpusInv => WrittenThenIndexed
  BY DEF CorpusInv
<1>2. QED
  BY <1>1, CorpusIsConsistent, PTL
===============================================================================
