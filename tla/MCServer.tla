------------------------------ MODULE MCServer ------------------------------
(***************************************************************************)
(* The server's processes: its start on Postgres and on a SQLite file, and *)
(* the corpus under uploads, deletions and crashes, and beside the         *)
(* generating script.  Start and corpus share no state, so in a behaviour  *)
(* one of them runs and the other rests.                                   *)
(***************************************************************************)
EXTENDS Startup, CorpusIndex

VARIABLE part

SqliteStart == INSTANCE Startup WITH Sqlite <- TRUE
Generating == INSTANCE CorpusIndex WITH MaxBuilds <- 2, MaxMishaps <- 0, Scripts <- TRUE

\* A start or a corpus that rests is in one of its initial states.
ServerInit ==
  /\ part \in {"postgres", "sqlite", "uploads", "generating"}
  /\ IF part = "sqlite" THEN SqliteStart!Init ELSE Init
  /\ part \in {"postgres", "sqlite"} \/ version = "head"
  /\ CorpusInit
  /\ part \in {"uploads", "generating"} \/ copies[1] = 0

ServerNext ==
  \/ part = "postgres" /\ Next /\ UNCHANGED <<part, corpus>>
  \/ part = "sqlite" /\ SqliteStart!Next /\ UNCHANGED <<part, corpus>>
  \/ part = "uploads" /\ CorpusNext /\ UNCHANGED <<part, vars>>
  \/ part = "generating" /\ Generating!CorpusNext /\ UNCHANGED <<part, vars>>

\* A stopped server is started again (restart: unless-stopped), and a start runs on.
ServerSpec == /\ ServerInit /\ [][ServerNext]_<<part, vars, corpus>>
              /\ WF_vars(part = "postgres" /\ StartStep)

\* However starts fail and processes crash, the server serves again (Startup).
ServerReturns == part = "postgres" ~> part = "postgres" /\ phase = "serving"
=============================================================================
