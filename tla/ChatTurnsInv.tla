---------------------------- MODULE ChatTurnsInv ----------------------------
(***************************************************************************)
(* The inductive strengthening of the safety invariants of ChatTurns, one  *)
(* named part per reason.  TLC checks it on small instances, the module    *)
(* ChatTurnsProofs proves it for every instance.                           *)
(***************************************************************************)
EXTENDS ChatTurns

\* Stages of a request that has a turn to answer.
Answering == {"prepared", "drafted", "merging", "remembered", "done"}

\* Stages of a chat request that came past the storing of the question.
Routed == Answering \cup {"awaiting"}

\* The stage of a request agrees with its kind, its session and its turn.
StagesOK ==
  \A r \in Req :
    /\ pc[r] \in Running \cup Routed => at[r] \in Session /\ row[at[r]] # "free"
    /\ pc[r] \in {"idle", "arrived", "rejected", "resuming"} => turn[r] = None
    /\ pc[r] \in {"opened", "asked", "awaiting"} => IsChat(r)
    /\ pc[r] \in {"resuming", "popped"} => ~IsChat(r)
    /\ ~IsChat(r) => in[r].act \in {"approve", "reject"}
    /\ pc[r] \in Answering \cup {"popped", "opened", "asked", "awaiting"}
       => turn[r] # None
    /\ IsChat(r) => turn[r] \in {None, r}
    /\ turn[r] # None \/ ~IsChat(r) => at[r] \in Session

\* A request has a route and executed tools only once it was prepared.
RoutesOK ==
  \A r \in Req :
    /\ path[r] # "none" => IsChat(r) /\ pc[r] \in Routed \cup {"failed"}
    /\ path[r] = "none" => runs[r] = 0
    /\ pc[r] = "awaiting" => in[r].hitl /\ path[r] \in {"legacy", "react"}
    /\ pc[r] # "awaiting" => verdict[r] = "none"

\* A resume took over a turn that stopped for approval, and nobody else did.
HoldersOK ==
  /\ \A r \in Req : ~IsChat(r) /\ turn[r] # None
       => pc[turn[r]] = "awaiting" /\ at[turn[r]] = at[r]
  /\ \A q, r \in Req : ~IsChat(q) /\ ~IsChat(r) /\ turn[q] # None
                       /\ turn[q] = turn[r] => q = r
  /\ \A r \in Req : pc[r] = "popped" => verdict[turn[r]] = "none"

\* The table of pending turns holds open questions of its own thread.
PendingOK ==
  \A s \in Session : pending[s] # None =>
    /\ pc[pending[s]] = "awaiting" /\ at[pending[s]] = s
    /\ verdict[pending[s]] = "none"
    /\ \A r \in Req : ~IsChat(r) => turn[r] # pending[s]

\* Tools ran at most once, and not at all while an approval is missing.
RunsOK ==
  \A t \in Req :
    /\ runs[t] <= 1
    /\ path[t] = "legacy" /\ in[t].hitl /\ verdict[t] # "approve" => runs[t] = 0

\* Rows and usage records belong to requests that got that far, in sessions
\* that exist; a question is stored for every turn of a live session.
RowsOK ==
  /\ \A r \in billed : pc[r] = "done"
  /\ replies \subseteq billed
  /\ \A r \in replies : row[at[r]] = "live"
  /\ \A r \in Req : IsChat(r) /\ pc[r] \in Routed \cup {"asked"}
                    /\ row[at[r]] = "live" => r \in said

\* Memory, and what a commit has read of it, comes from commits.
MemoryOK ==
  \A s \in Session : \A q, t \in Req : t \in memory[s] \cup snap[q]
    => \E r \in Req : turn[r] = t /\ pc[r] \in {"remembered", "done", "failed"}

\* Requests at work on one session at the same time are known to overlap ...
OverlapOK ==
  \A q, r \in Req :
    q # r /\ pc[q] \in Running /\ pc[r] \in Running /\ at[q] = at[r]
    => q \in overlap

\* ... and so are requests at work on a session that is being deleted or gone.
CaughtOK ==
  \A s \in Session : \A r \in Req :
    (BeingDeleted(s) \/ row[s] = "deleted") /\ pc[r] \in Running /\ at[r] = s
    => r \in overlap

\* A turn that did not overlap is in its thread's memory from its commit on, and
\* in the snapshot of every commit that may still replace that memory.
RemembersOK ==
  \A r \in Req : pc[r] \in {"remembered", "done"} /\ r \notin overlap =>
    /\ turn[r] \in memory[at[r]] \cup erased
    /\ \A q \in Req : pc[q] = "merging" /\ at[q] = at[r]
                      => turn[r] \in snap[q] \cup erased

\* What a deletion left behind was written by a request that overlapped it.
OrphansOK ==
  \A s \in Session : clear[s] = "done" /\ del[s] \in {"audited", "done"}
                     /\ memory[s] # {}
    => \E r \in overlap : at[r] = s /\ turn[r] \in memory[s]

DeletionOK == \A s \in Session : /\ row[s] = "deleted" <=> del[s] = "done"
                                 /\ del[s] # "none" => row[s] # "free"

Inductive == /\ TypeOK /\ StagesOK /\ RoutesOK /\ HoldersOK /\ PendingOK
             /\ RunsOK /\ RowsOK /\ MemoryOK /\ OverlapOK /\ CaughtOK
             /\ RemembersOK /\ OrphansOK /\ DeletionOK
=============================================================================
