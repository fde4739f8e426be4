-------------------------------- MODULE Startup --------------------------------
(***************************************************************************)
(* The life of the server process: its lifespan brings the database to the *)
(* head revision, opens a checkpointer (Postgres, else Redis, else the     *)
(* memory of the process), warms up the models and the index, and serves   *)
(* until it stops or crashes; then it is started again.  The migration     *)
(* runs in a child process, table by table on SQLite and in a transaction  *)
(* on Postgres.  The turns of one session go to the checkpointer of the    *)
(* process that answers them.                                              *)
(***************************************************************************)
EXTENDS Naturals, Sequences

CONSTANTS
  Sqlite,      \* whether the database is SQLite: no DATABASE_URL is set
  HasRedis,    \* whether REDIS_URL is set
  Tables,      \* number of tables the migration creates, in their order
  UsersTable,  \* the position of the table of users
  MaxFaults,   \* bound: failures and crashes
  MaxTurns     \* bound: turns answered

ASSUME SwitchAssumption == Sqlite \in BOOLEAN /\ HasRedis \in BOOLEAN
ASSUME TablesAssumption == Tables \in Nat \ {0} /\ UsersTable \in 1..Tables
ASSUME BoundAssumption == MaxFaults \in Nat /\ MaxTurns \in Nat

VARIABLES
  phase,     \* where the lifespan is
  version,   \* of the schema: no version table, an empty one, or "head"
  tables,    \* tables 1..tables exist
  step,      \* tables the running migration has created
  tried,     \* checkpointers that failed in this start
  cm, saver, backend,  \* _checkpointer_cm, _checkpointer, _checkpointer_backend
  open,      \* contexts of checkpointers that were entered and not left
  store,     \* checkpointer -> the turns of the session it holds
  answered,  \* number of turns answered
  faults

schema == <<version, tables, step>>
checkpoint == <<tried, cm, saver, backend, open>>
vars == <<phase, schema, checkpoint, store, answered, faults>>

Durable == {"postgres", "redis"}
Saver == Durable \cup {"memory"}
Phase == {"down", "migrating", "checkpointer", "connecting", "warming", "serving"}

TypeOK ==
  /\ phase \in Phase
  /\ version \in {"none", "empty", "head"} /\ tables \in 0..Tables /\ step \in 0..Tables
  /\ tried \subseteq Durable /\ open \subseteq Durable
  /\ cm \in Durable \cup {"none"} /\ saver \in Saver \cup {"none"}
  /\ backend \in Saver \cup {"none"}
  /\ store \in [Saver -> Seq(1..MaxTurns)]
  /\ answered \in 0..MaxTurns /\ faults \in 0..MaxFaults

\* A new database, one at the head revision, or a SQLite file from before the
\* migrations, whose tables were all created together.
Init ==
  /\ phase = "down"
  /\ \/ version = "none" /\ tables = 0
     \/ version = "head" /\ tables = Tables
     \/ Sqlite /\ version = "none" /\ tables = Tables
  /\ step = 0
  /\ tried = {} /\ cm = "none" /\ saver = "none" /\ backend = "none" /\ open = {}
  /\ store = [s \in Saver |-> <<>>]
  /\ answered = 0 /\ faults = 0

Fault == faults < MaxFaults /\ faults' = faults + 1

\* The process ends, and with it all that it kept in memory.
Exit ==
  /\ phase' = "down" /\ step' = 0
  /\ tried' = {} /\ cm' = "none" /\ saver' = "none" /\ backend' = "none" /\ open' = {}
  /\ store' = [store EXCEPT !["memory"] = <<>>]

-----------------------------------------------------------------------------
(* init_db *)

\* Only a schema without a version table is taken for one from before the migrations.
LegacySchema_Mutation == Sqlite /\ version # "head" /\ tables >= UsersTable \* Mutant: any unfinished version.
LegacySchema == Sqlite /\ version = "none" /\ tables >= UsersTable

InitDb ==
  /\ phase = "down"
  /\ \/ /\ version = "head" \/ LegacySchema
        /\ version' = "head" /\ phase' = "checkpointer"
     \/ /\ version # "head" /\ ~LegacySchema
        /\ phase' = "migrating" /\ UNCHANGED version
  /\ UNCHANGED <<tables, step, checkpoint, store, answered, faults>>

Transactional_Mutation == FALSE   \* Mutant: the migration is never run in a transaction.
Transactional == ~Sqlite

\* The first thing the child process does: an existing table is left alone.
CreateVersionTable ==
  /\ phase = "migrating" /\ ~Transactional /\ version = "none"
  /\ version' = "empty"
  /\ UNCHANGED <<phase, tables, step, checkpoint, store, answered, faults>>

CreateTable ==
  /\ phase = "migrating" /\ ~Transactional /\ version = "empty"
  /\ step < Tables /\ tables = step
  /\ step' = step + 1 /\ tables' = tables + 1
  /\ UNCHANGED <<phase, version, checkpoint, store, answered, faults>>

\* The next table is there already: alembic fails, and init_db raises.
TableExists ==
  /\ phase = "migrating" /\ ~Transactional /\ version = "empty"
  /\ tables > step
  /\ Exit /\ UNCHANGED <<version, tables, answered, faults>>

Migrated ==
  /\ phase = "migrating"
  /\ \/ Transactional /\ tables' = Tables
     \/ ~Transactional /\ version = "empty" /\ step = Tables /\ UNCHANGED tables
  /\ version' = "head" /\ step' = 0 /\ phase' = "checkpointer"
  /\ UNCHANGED <<checkpoint, store, answered, faults>>

-----------------------------------------------------------------------------
(* setup_checkpointer *)

NextSaver ==
  IF ~Sqlite /\ "postgres" \notin tried THEN "postgres"
  ELSE IF HasRedis /\ "redis" \notin tried THEN "redis" ELSE "memory"

CloseCheckpointerCm_Mutation == cm' = "none" /\ saver' = "none" /\ UNCHANGED open \* Mutant: the context is forgotten.
CloseCheckpointerCm == cm' = "none" /\ saver' = "none" /\ open' = open \ {cm}

EnterContext ==
  /\ phase = "checkpointer" /\ NextSaver \in Durable
  /\ phase' = "connecting"
  /\ cm' = NextSaver /\ saver' = NextSaver /\ open' = open \cup {NextSaver}
  /\ UNCHANGED <<schema, tried, backend, store, answered, faults>>

\* The context cannot be entered: what is closed was never open.
EnterFails ==
  /\ phase = "checkpointer" /\ NextSaver \in Durable /\ Fault
  /\ tried' = tried \cup {NextSaver} /\ backend' = "none"
  /\ cm' = "none" /\ saver' = "none" /\ UNCHANGED open
  /\ UNCHANGED <<phase, schema, store, answered>>

SetupSaver ==
  /\ phase = "connecting" /\ phase' = "warming" /\ backend' = saver
  /\ UNCHANGED <<schema, tried, cm, saver, open, store, answered, faults>>

SetupFails ==
  /\ phase = "connecting" /\ Fault
  /\ phase' = "checkpointer"
  /\ tried' = tried \cup {cm} /\ CloseCheckpointerCm /\ backend' = "none"
  /\ UNCHANGED <<schema, store, answered>>

UseMemory ==
  /\ phase = "checkpointer" /\ NextSaver = "memory"
  /\ phase' = "warming" /\ saver' = "memory" /\ backend' = "memory"
  /\ UNCHANGED <<schema, tried, cm, open, store, answered, faults>>

-----------------------------------------------------------------------------
(* The rest of the lifespan, and the turns of the session *)

\* The models, the vector store and the word index are loaded.
WarmUp ==
  /\ phase = "warming" /\ phase' = "serving"
  /\ UNCHANGED <<schema, checkpoint, store, answered, faults>>

AnswerTurn ==
  /\ phase = "serving" /\ answered < MaxTurns
  /\ answered' = answered + 1
  /\ store' = [store EXCEPT ![saver] = Append(@, answered + 1)]
  /\ UNCHANGED <<phase, schema, checkpoint, faults>>

Shutdown ==
  /\ phase = "serving"
  /\ Exit /\ UNCHANGED <<version, tables, answered, faults>>

\* A crash, a start that raises, or a migration that exceeds its 120 seconds.
Crash ==
  /\ phase # "down" /\ Fault
  /\ Exit /\ UNCHANGED <<version, tables, answered>>

StartStep ==
  \/ InitDb \/ CreateVersionTable \/ CreateTable \/ TableExists \/ Migrated
  \/ EnterContext \/ SetupSaver \/ UseMemory \/ WarmUp

Next == StartStep \/ EnterFails \/ SetupFails \/ AnswerTurn \/ Shutdown \/ Crash

\* A stopped server is started again (restart: unless-stopped), and a start runs on.
Spec == Init /\ [][Next]_vars /\ WF_vars(StartStep)

-----------------------------------------------------------------------------
(* Properties *)

\* A server that answers requests has every table: a schema is stamped as
\* finished only if it is, although a migration may have died in its middle.
ServesCompleteSchema == phase = "serving" => version = "head" /\ tables = Tables

\* The server works on a checkpointer that was set up completely, and no
\* context of one that failed on the way is left open.
OneSaverOpen ==
  phase \in {"warming", "serving"} => backend = saver /\ saver # "none" /\ open = {saver} \cap Durable

\* However starts fail and processes crash, the server serves again.
\* Does not hold on a SQLite file (README, section 4).
ServerComesBack == []<>(phase = "serving")

\* On a checkpointer that survives restarts the conversation goes on from its
\* latest turn: "the next round restores the context from the latest snapshot".
\* Does not hold where the store changes between starts (README, section 4).
LatestTurnIsRemembered ==
  phase = "serving" /\ saver \in Durable /\ answered > 0 =>
    store[saver] # <<>> /\ store[saver][Len(store[saver])] = answered
===============================================================================
