------------------------------- MODULE Quota -------------------------------
(***************************************************************************)
(* The daily quota of one tenant.  A request is admitted by counting the   *)
(* usage rows of today in a short transaction of its own; its own row is   *)
(* written after the answer, in another transaction.  A turn that stops to *)
(* ask for a tool approval writes none.  Time is counted in ticks of the   *)
(* UTC clock, DayLength of them a day; the server's local clock is ahead   *)
(* by Offset ticks.                                                        *)
(***************************************************************************)
EXTENDS Integers, FiniteSets

CONSTANTS
  Req,        \* requests of the tenant's users
  Limits,     \* bound: the limits an administrator sets
  DayLength,  \* ticks of a day
  Offset,     \* local time minus UTC; 0 in the containers
  LastTick    \* bound: ticks in a behaviour

ASSUME ReqAssumption == IsFiniteSet(Req)
ASSUME LimitAssumption == Limits # {} /\ Limits \subseteq Nat \ {0}
ASSUME ClockAssumption == DayLength \in Nat \ {0} /\ Offset \in Int /\ LastTick \in Nat

VARIABLES
  clock,   \* UTC
  limit,   \* Action -> the subscription's daily limit
  pc,      \* Req -> where the handler is
  action,  \* Req -> what it asks for
  stamp,   \* Req -> created_at of its usage row
  peak,    \* observer: most requests of an action ever in flight together
  ceiling  \* observer: highest limit ever in force

vars == <<clock, limit, pc, action, stamp, peak, ceiling>>

Action == {"chat", "rag"}
InFlight(a) == {r \in Req : action[r] = a /\ pc[r] \in {"running", "flushed"}}

TypeOK ==
  /\ clock \in 0..LastTick
  /\ limit \in [Action -> Limits] /\ ceiling \in [Action -> Limits]
  /\ pc \in [Req -> {"idle", "running", "flushed", "recorded", "asking", "refused", "failed"}]
  /\ action \in [Req -> Action]
  /\ stamp \in [Req -> 0..LastTick]
  /\ peak \in [Action -> 0..Cardinality(Req)]

Init ==
  /\ clock = 0
  /\ limit \in [Action -> Limits] /\ ceiling = limit
  /\ pc = [r \in Req |-> "idle"]
  /\ action \in [Req -> Action]
  /\ stamp = [r \in Req |-> 0]
  /\ peak = [a \in Action |-> 0]

-----------------------------------------------------------------------------
\* Midnight of the local date, read as a UTC time.
TodayStart == DayLength * ((clock + Offset) \div DayLength)

\* Committed usage rows of today, for one action.
CountDailyUsage(a) ==
  Cardinality({r \in Req : pc[r] = "recorded" /\ action[r] = a /\ stamp[r] >= TodayStart})

\* Mutant: the last admitted use is the one beyond the limit.
CheckQuota_Mutation(a) == CountDailyUsage(a) <= limit[a]
CheckQuota(a) == CountDailyUsage(a) < limit[a]

\* The dependency of the endpoint: admit, or answer 429.
RequireQuota(r) ==
  /\ pc[r] = "idle"
  /\ pc' = [pc EXCEPT ![r] = IF CheckQuota(action[r]) THEN "running" ELSE "refused"]
  /\ peak' = [a \in Action |-> LET n == Cardinality({q \in Req : action[q] = a /\ pc'[q] \in {"running", "flushed"}})
                               IN IF n > peak[a] THEN n ELSE peak[a]]
  /\ UNCHANGED <<clock, limit, action, stamp, ceiling>>

\* The turn or the search fails, or the client leaves: nothing is recorded.
Fail(r) ==
  /\ pc[r] \in {"running", "flushed"}
  /\ pc' = [pc EXCEPT ![r] = "failed"]
  /\ UNCHANGED <<clock, limit, action, stamp, peak, ceiling>>

\* A chat turn ends with a question to the user: its row is never written.
AskApproval(r) ==
  /\ pc[r] = "running" /\ action[r] = "chat"
  /\ pc' = [pc EXCEPT ![r] = "asking"]
  /\ UNCHANGED <<clock, limit, action, stamp, peak, ceiling>>

\* The row is written with the time of the flush ...
RecordUsage(r) ==
  /\ pc[r] = "running"
  /\ pc' = [pc EXCEPT ![r] = "flushed"]
  /\ stamp' = [stamp EXCEPT ![r] = clock]
  /\ UNCHANGED <<clock, limit, action, peak, ceiling>>

\* ... and counts from the commit on.
CommitUsage(r) ==
  /\ pc[r] = "flushed"
  /\ pc' = [pc EXCEPT ![r] = "recorded"]
  /\ UNCHANGED <<clock, limit, action, stamp, peak, ceiling>>

\* An administrator changes a limit of the subscription.
UpdateSubscription(a) ==
  /\ \E n \in Limits : /\ limit' = [limit EXCEPT ![a] = n]
                       /\ ceiling' = [ceiling EXCEPT ![a] = IF n > @ THEN n ELSE @]
  /\ UNCHANGED <<clock, pc, action, stamp, peak>>

Tick ==
  /\ clock < LastTick
  /\ clock' = clock + 1
  /\ UNCHANGED <<limit, pc, action, stamp, peak, ceiling>>

Next ==
  \/ \E r \in Req : \/ RequireQuota(r) \/ Fail(r) \/ AskApproval(r)
                    \/ RecordUsage(r) \/ CommitUsage(r)
  \/ \E a \in Action : UpdateSubscription(a)
  \/ Tick

Spec == Init /\ [][Next]_vars

-----------------------------------------------------------------------------
(* Properties *)

\* Rows of one UTC day.
Used(a, day) == Cardinality({r \in Req : /\ pc[r] = "recorded" /\ action[r] = a
                                         /\ stamp[r] \div DayLength = day})

\* Checking before and recording after lets a tenant pass its limit, but only
\* by the requests of that action that were in flight together: on no day are
\* there more rows than the highest limit plus that number less one.
OvershootBounded ==
  \A a \in Action : \A day \in 0..(LastTick \div DayLength) :
    Used(a, day) > 0 => Used(a, day) < ceiling[a] + peak[a]

\* The message "今日对话次数已达上限（N 次）" promises N uses a day: a tenant whose
\* requests never overlap has at most that many rows on a day.  Holds only where
\* the server's time zone is UTC (README, section 4).
DailyLimitKept ==
  \A a \in Action : \A day \in 0..(LastTick \div DayLength) :
    peak[a] <= 1 => Used(a, day) <= ceiling[a]
=============================================================================
