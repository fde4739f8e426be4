---------------------------- MODULE AccountsProofs ----------------------------
(***************************************************************************)
(* How far a tenant can pass its daily limit, for every number of          *)
(* requests, every choice of limits and every length of the day, on a      *)
(* server whose clock is UTC. The rows of a day are not inductive:         *)
(* requests that have not written theirs count too. Claims holds the       *)
(* requests that have or may get a row of the day; an admission bounds it  *)
(* anew by the rows that were counted and the requests in flight, and      *)
(* nothing else adds to it.                                                *)
(*                                                                         *)
(* Refresh tokens of one browser, for any calls, tabs and pairs. None of   *)
(* the properties is inductive alone: what a call may do depends on what   *)
(* it carries, and a token that was read as live can be traded for another *)
(* one after it was revoked. TokenInv follows the tokens on their way: a   *)
(* token is claimed while it is live or a refresh that found it so goes    *)
(* on. Without a race a token has one user, so a sign-in has one claimed   *)
(* token (rotation); without a lost answer that token is the stored one or *)
(* comes back for it (logout); and with no cause at all the stored one is  *)
(* live.                                                                   *)
(***************************************************************************)
EXTENDS Quota, FiniteSetTheorems, TokenRefresh, TLAPS

-----------------------------------------------------------------------------
(* The daily limit *)

Today == clock \div DayLength

Claims(a, d) ==
  {r \in Req : /\ action[r] = a
               /\ \/ pc[r] \in {"flushed", "recorded"} /\ stamp[r] \div DayLength = d
                  \/ pc[r] = "running" /\ d = Today}

QuotaInv ==
  /\ TypeOK
  /\ \A r \in Req : stamp[r] <= clock
  /\ \A a \in Action : limit[a] <= ceiling[a]
  /\ \A a \in Action : Cardinality(InFlight(a)) <= peak[a]
  /\ \A a \in Action : \A d \in Nat : Cardinality(Claims(a, d)) < ceiling[a] + peak[a]

-----------------------------------------------------------------------------
(* Days *)

\* A time is on the day of a later one exactly if it is past its midnight.
LEMMA SameDay ==
  ASSUME NEW c \in Nat, NEW s \in Nat, s <= c
  PROVE  DayLength * (c \div DayLength) <= s <=> s \div DayLength = c \div DayLength
BY ClockAssumption

LEMMA DaysAreNat == ASSUME NEW c \in Nat PROVE c \div DayLength \in Nat
BY ClockAssumption

LEMMA DaysPass ==
  ASSUME NEW c \in Nat, NEW s \in Nat, s <= c
  PROVE  s \div DayLength <= c \div DayLength
BY ClockAssumption

-----------------------------------------------------------------------------
(* Sizes of sets of requests *)

LEMMA Sizes ==
  ASSUME NEW S \in SUBSET Req
  PROVE  IsFiniteSet(S) /\ Cardinality(S) \in 0..Cardinality(Req)
<1>1. IsFiniteSet(S) /\ Cardinality(S) <= Cardinality(Req)
  BY ReqAssumption, FS_Subset
<1>2. Cardinality(S) \in Nat /\ Cardinality(Req) \in Nat
  BY <1>1, ReqAssumption, FS_CardinalityType
<1>3. QED BY <1>1, <1>2

LEMMA Smaller ==
  ASSUME NEW T \in SUBSET Req, NEW S \in SUBSET T
  PROVE  Cardinality(S) <= Cardinality(T)
BY Sizes, FS_Subset

LEMMA Together ==
  ASSUME NEW S \in SUBSET Req, NEW T \in SUBSET Req
  PROVE  Cardinality(S \cup T) <= Cardinality(S) + Cardinality(T)
<1>1. IsFiniteSet(S) /\ IsFiniteSet(T) /\ (S \cap T) \in SUBSET Req
  BY Sizes
<1>2. Cardinality(S \cup T) = Cardinality(S) + Cardinality(T) - Cardinality(S \cap T)
  BY <1>1, FS_Union
<1>3. Cardinality(S) \in Nat /\ Cardinality(T) \in Nat /\ Cardinality(S \cap T) \in Nat
  BY <1>1, Sizes
<1>4. QED BY <1>2, <1>3

LEMMA LimitsArePositive ==
  ASSUME NEW f \in [Action -> Limits], NEW a \in Action
  PROVE  f[a] \in Nat /\ f[a] > 0
<1>1. f[a] \in Limits
  OBVIOUS
<1>2. f[a] \in Nat \ {0}
  BY <1>1, LimitAssumption
<1>3. QED BY <1>2

LEMMA PeaksAreNat ==
  ASSUME NEW f \in [Action -> 0..Cardinality(Req)], NEW a \in Action
  PROVE  f[a] \in Nat
BY ReqAssumption, FS_CardinalityType

-----------------------------------------------------------------------------
(* The invariant *)

LEMMA QuotaInit == Init => QuotaInv
<1> SUFFICES ASSUME Init PROVE QuotaInv
  OBVIOUS
<1>0. Cardinality(Req) \in Nat /\ Cardinality({}) = 0
  BY ReqAssumption, FS_CardinalityType, FS_EmptySet
<1>1. TypeOK /\ \A r \in Req : stamp[r] <= clock
  BY <1>0, ClockAssumption DEF Init, TypeOK
<1>2. ASSUME NEW a \in Action PROVE InFlight(a) = {} /\ \A d \in Nat : Claims(a, d) = {}
  BY DEF Init, InFlight, Claims
<1>3. ASSUME NEW a \in Action PROVE limit[a] <= ceiling[a] /\ ceiling[a] \in Nat /\ ceiling[a] > 0 /\ peak[a] = 0
  BY LimitsArePositive DEF Init
<1>4. ASSUME NEW a \in Action PROVE Cardinality(InFlight(a)) <= peak[a]
  <2>1. Cardinality(InFlight(a)) = 0
    BY <1>0, <1>2
  <2>2. QED BY <1>3, <2>1
<1>5. ASSUME NEW a \in Action, NEW d \in Nat PROVE Cardinality(Claims(a, d)) < ceiling[a] + peak[a]
  <2>1. Cardinality(Claims(a, d)) = 0
    BY <1>0, <1>2
  <2>2. QED BY <1>3, <2>1
<1>6. QED BY <1>1, <1>3, <1>4, <1>5 DEF QuotaInv

\* A step after which no request is in flight or claims a row that did not
\* before, and the bounds are no lower, keeps the sizes within the bounds.
LEMMA NothingAdded ==
  ASSUME QuotaInv, TypeOK',
         \A a \in Action : /\ InFlight(a)' \subseteq InFlight(a)
                           /\ \A d \in Nat : Claims(a, d)' \subseteq Claims(a, d)
                           /\ peak'[a] = peak[a] /\ ceiling'[a] >= ceiling[a]
  PROVE  \A a \in Action : /\ Cardinality(InFlight(a)') <= peak'[a]
                           /\ \A d \in Nat : Cardinality(Claims(a, d)') < ceiling'[a] + peak'[a]
<1> SUFFICES ASSUME NEW a \in Action
             PROVE  /\ Cardinality(InFlight(a)') <= peak'[a]
                    /\ \A d \in Nat : Cardinality(Claims(a, d)') < ceiling'[a] + peak'[a]
  OBVIOUS
<1>1. InFlight(a) \in SUBSET Req /\ InFlight(a)' \in SUBSET Req
  BY DEF InFlight
<1>2. \A d \in Nat : Claims(a, d) \in SUBSET Req /\ Claims(a, d)' \in SUBSET Req
  BY DEF Claims
<1>3. ceiling[a] \in Nat /\ ceiling'[a] \in Nat /\ peak[a] \in Nat
  BY LimitsArePositive, PeaksAreNat DEF QuotaInv, TypeOK
<1>4. Cardinality(InFlight(a)') <= Cardinality(InFlight(a))
  BY <1>1, Smaller
<1>5. Cardinality(InFlight(a)) \in Nat /\ Cardinality(InFlight(a)') \in Nat
  BY <1>1, Sizes
<1>6. Cardinality(InFlight(a)') <= peak'[a]
  BY <1>3, <1>4, <1>5 DEF QuotaInv
<1>7. ASSUME NEW d \in Nat PROVE Cardinality(Claims(a, d)') < ceiling'[a] + peak'[a]
  <2>1. Cardinality(Claims(a, d)') <= Cardinality(Claims(a, d))
    BY <1>2, Smaller
  <2>2. Cardinality(Claims(a, d)) \in Nat /\ Cardinality(Claims(a, d)') \in Nat
    BY <1>2, Sizes
  <2>3. QED BY <1>3, <2>1, <2>2 DEF QuotaInv
<1>8. QED BY <1>6, <1>7

-----------------------------------------------------------------------------
(* The steps of a request *)

\* Ending a turn, asking for an approval, writing the row and its commit claim
\* no row that was not claimed: a row is written on the day that runs.
LEMMA ClaimsOfRequest ==
  ASSUME QuotaInv, NEW r \in Req, Fail(r) \/ AskApproval(r) \/ RecordUsage(r) \/ CommitUsage(r)
  PROVE  QuotaInv'
<1>1. TypeOK' /\ UNCHANGED <<clock, limit, action, peak, ceiling>>
  BY DEF QuotaInv, TypeOK, Fail, AskApproval, RecordUsage, CommitUsage
<1>2. \A q \in Req : stamp'[q] <= clock'
  <2>1. clock \in Nat
    BY DEF QuotaInv, TypeOK
  <2>2. QED BY <2>1 DEF QuotaInv, TypeOK, Fail, AskApproval, RecordUsage, CommitUsage
<1>3. ASSUME NEW a \in Action
      PROVE  /\ InFlight(a)' \subseteq InFlight(a)
             /\ \A d \in Nat : Claims(a, d)' \subseteq Claims(a, d)
             /\ peak'[a] = peak[a] /\ ceiling'[a] >= ceiling[a]
  <2>1. InFlight(a)' \subseteq InFlight(a)
    BY <1>1 DEF QuotaInv, TypeOK, InFlight, Fail, AskApproval, RecordUsage, CommitUsage
  <2>2. ASSUME NEW d \in Nat PROVE Claims(a, d)' \subseteq Claims(a, d)
    <3>1. CASE Fail(r) \/ AskApproval(r) \/ CommitUsage(r)
      BY <1>1, <3>1 DEF QuotaInv, TypeOK, Claims, Today, Fail, AskApproval, CommitUsage
    <3>2. CASE RecordUsage(r)
      BY <1>1, <3>2 DEF QuotaInv, TypeOK, Claims, Today, RecordUsage
    <3>3. QED BY <3>1, <3>2
  <2>3. ceiling[a] \in Nat
    BY LimitsArePositive DEF QuotaInv, TypeOK
  <2>4. QED BY <1>1, <2>1, <2>2, <2>3
<1>4. QED BY <1>1, <1>2, <1>3, NothingAdded DEF QuotaInv

\* An administrator can only raise the highest limit.
LEMMA ClaimsOfLimit ==
  ASSUME QuotaInv, NEW b \in Action, UpdateSubscription(b)
  PROVE  QuotaInv'
<1>1. PICK n \in Limits : /\ limit' = [limit EXCEPT ![b] = n]
                          /\ ceiling' = [ceiling EXCEPT ![b] = IF n > @ THEN n ELSE @]
  BY DEF UpdateSubscription
<1>2. UNCHANGED <<clock, pc, action, stamp, peak>>
  BY DEF UpdateSubscription
<1>3. TypeOK'
  BY <1>1, <1>2 DEF QuotaInv, TypeOK
<1>4. n \in Nat
  BY LimitAssumption
<1>5. ASSUME NEW a \in Action
      PROVE  limit[a] \in Nat /\ ceiling[a] \in Nat /\ limit'[a] <= ceiling'[a] /\ ceiling'[a] >= ceiling[a]
  <2>1. limit[a] \in Nat /\ ceiling[a] \in Nat /\ limit[a] <= ceiling[a]
    BY LimitsArePositive DEF QuotaInv, TypeOK
  <2>2. limit'[a] = (IF a = b THEN n ELSE limit[a])
    BY <1>1 DEF QuotaInv, TypeOK
  <2>3. ceiling'[a] = (IF a = b /\ n > ceiling[a] THEN n ELSE ceiling[a])
    BY <1>1 DEF QuotaInv, TypeOK
  <2>4. QED BY <1>4, <2>1, <2>2, <2>3
<1>6. ASSUME NEW a \in Action
      PROVE  InFlight(a)' = InFlight(a) /\ \A d \in Nat : Claims(a, d)' = Claims(a, d)
  BY <1>2 DEF InFlight, Claims, Today
<1>7. QED BY <1>2, <1>3, <1>5, <1>6, NothingAdded DEF QuotaInv

\* When a day begins nothing is written on it yet: its claims are the requests
\* in flight, and the lowest limit is one.
LEMMA ClaimsOfDay ==
  ASSUME QuotaInv, Tick
  PROVE  QuotaInv'
<1>1. clock \in Nat /\ clock' = clock + 1 /\ clock' \in Nat /\ UNCHANGED <<limit, pc, action, stamp, peak, ceiling>>
  BY ClockAssumption DEF QuotaInv, TypeOK, Tick
<1>2. TypeOK'
  BY <1>1, ClockAssumption DEF QuotaInv, TypeOK, Tick
<1>3. \A q \in Req : stamp[q] \in Nat /\ stamp[q] <= clock /\ stamp'[q] <= clock'
  BY <1>1 DEF QuotaInv, TypeOK
<1>4. ASSUME NEW a \in Action
      PROVE  /\ InFlight(a)' = InFlight(a) /\ InFlight(a) \in SUBSET Req
             /\ peak[a] \in Nat /\ ceiling[a] \in Nat /\ ceiling[a] > 0
             /\ Cardinality(InFlight(a)) \in Nat /\ Cardinality(InFlight(a)) <= peak[a]
  BY <1>1, Sizes, LimitsArePositive, PeaksAreNat DEF QuotaInv, TypeOK, InFlight
<1>5. ASSUME NEW a \in Action, NEW d \in Nat
      PROVE  Claims(a, d)' \subseteq Claims(a, d) \/ Claims(a, d)' \subseteq InFlight(a)
  <2>1. CASE d # Today' \/ Today' = Today
    BY <1>1, <2>1 DEF Claims
  <2>2. CASE d = Today' /\ Today' # Today
    <3>1. Today \in Nat /\ Today' \in Nat /\ Today <= Today'
      BY <1>1, DaysAreNat, DaysPass DEF Today
    <3>2. \A q \in Req : stamp[q] \div DayLength \in Nat /\ stamp[q] \div DayLength <= Today
      BY <1>1, <1>3, DaysAreNat, DaysPass DEF Today
    <3>3. \A q \in Req : stamp[q] \div DayLength # d
      BY <2>2, <3>1, <3>2
    <3>4. QED BY <1>1, <3>3 DEF Claims, InFlight
  <2>3. QED BY <2>1, <2>2
<1>6. ASSUME NEW a \in Action, NEW d \in Nat PROVE Cardinality(Claims(a, d)') < ceiling'[a] + peak'[a]
  <2>1. Claims(a, d) \in SUBSET Req /\ Claims(a, d)' \in SUBSET Req
    BY <1>1 DEF Claims
  <2>2. Cardinality(Claims(a, d)) \in Nat /\ Cardinality(Claims(a, d)') \in Nat
    BY <2>1, Sizes
  <2>3. \/ Cardinality(Claims(a, d)') <= Cardinality(Claims(a, d))
        \/ Cardinality(Claims(a, d)') <= Cardinality(InFlight(a))
    BY <1>4, <1>5, <2>1, Smaller
  <2>4. Cardinality(Claims(a, d)) < ceiling[a] + peak[a]
    BY DEF QuotaInv
  <2>5. QED BY <1>1, <1>4, <2>2, <2>3, <2>4
<1>7. QED BY <1>1, <1>2, <1>3, <1>4, <1>6 DEF QuotaInv

-----------------------------------------------------------------------------
(* The admission *)

\* The rows an admission counts are those of today.
LEMMA CountsToday ==
  ASSUME Offset = 0, QuotaInv, NEW a \in Action
  PROVE  CountDailyUsage(a) = Cardinality({q \in Req : /\ pc[q] = "recorded" /\ action[q] = a
                                                      /\ stamp[q] \div DayLength = Today})
<1>1. clock \in Nat /\ \A q \in Req : stamp[q] \in Nat /\ stamp[q] <= clock
  BY ClockAssumption DEF QuotaInv, TypeOK
<1>2. TodayStart = DayLength * (clock \div DayLength) /\ TodayStart \in Nat
  BY <1>1, ClockAssumption, DaysAreNat DEF TodayStart
<1>3. \A q \in Req : stamp[q] >= TodayStart <=> stamp[q] \div DayLength = Today
  BY <1>1, <1>2, SameDay DEF Today
<1>4. QED BY <1>3 DEF CountDailyUsage

\* The observer peak follows the requests in flight.
LEMMA PeakFollows ==
  ASSUME QuotaInv, NEW r \in Req, RequireQuota(r), NEW a \in Action
  PROVE  /\ peak'[a] \in 0..Cardinality(Req) /\ peak'[a] >= peak[a]
         /\ Cardinality(InFlight(a)') \in Nat /\ Cardinality(InFlight(a)') <= peak'[a]
<1> DEFINE n == Cardinality({q \in Req : action[q] = a /\ pc'[q] \in {"running", "flushed"}})
<1>1. n \in 0..Cardinality(Req) /\ Cardinality(Req) \in Nat
  BY Sizes, ReqAssumption, FS_CardinalityType
<1>2. peak'[a] = IF n > peak[a] THEN n ELSE peak[a]
  BY DEF RequireQuota
<1>3. InFlight(a)' = {q \in Req : action[q] = a /\ pc'[q] \in {"running", "flushed"}}
  BY DEF RequireQuota, InFlight
<1>4. Cardinality(InFlight(a)') = n
  BY <1>3
<1>5. peak[a] \in 0..Cardinality(Req)
  BY DEF QuotaInv, TypeOK
<1> HIDE DEF n
<1>6. QED BY <1>1, <1>2, <1>4, <1>5

\* Who is admitted found fewer rows of today than the limit: they and the
\* requests in flight, of which there are at most peak, hold every claim.
LEMMA ClaimsOfAdmission ==
  ASSUME Offset = 0, QuotaInv, NEW r \in Req, RequireQuota(r)
  PROVE  QuotaInv'
<1>1. UNCHANGED <<clock, limit, action, stamp, ceiling>>
  BY DEF RequireQuota
<1>2. pc' = [pc EXCEPT ![r] = IF CheckQuota(action[r]) THEN "running" ELSE "refused"]
  BY DEF RequireQuota
<1>3. peak' \in [Action -> 0..Cardinality(Req)]
  <2>1. \A a \in Action : peak'[a] \in 0..Cardinality(Req)
    BY PeakFollows
  <2>2. peak' = [a \in Action |-> peak'[a]]
    BY DEF RequireQuota
  <2>3. QED BY <2>1, <2>2
<1>4. TypeOK'
  BY <1>1, <1>2, <1>3 DEF QuotaInv, TypeOK
<1>5. ASSUME NEW a \in Action, NEW d \in Nat
      PROVE  Cardinality(Claims(a, d)') < ceiling'[a] + peak'[a]
  <2>1. Claims(a, d) \in SUBSET Req /\ Claims(a, d)' \in SUBSET Req /\ InFlight(a)' \in SUBSET Req
    BY DEF Claims, InFlight
  <2>2. /\ Cardinality(Claims(a, d)) \in Nat /\ Cardinality(Claims(a, d)') \in Nat
        /\ Cardinality(Claims(a, d)) < ceiling[a] + peak[a]
    BY <2>1, Sizes DEF QuotaInv
  <2>3. /\ limit[a] \in Nat /\ ceiling[a] \in Nat /\ limit[a] <= ceiling[a] /\ peak[a] \in Nat
        /\ peak'[a] \in Nat /\ peak'[a] >= peak[a] /\ Cardinality(InFlight(a)') <= peak'[a]
        /\ Cardinality(InFlight(a)') \in Nat
    BY <1>3, LimitsArePositive, PeaksAreNat, PeakFollows DEF QuotaInv, TypeOK
  <2>4. CASE CheckQuota(action[r]) /\ a = action[r] /\ d = Today
    <3> DEFINE Counted == {q \in Req : /\ pc[q] = "recorded" /\ action[q] = a
                                       /\ stamp[q] \div DayLength = Today}
    <3>1. Counted \in SUBSET Req
      OBVIOUS
    <3>2. Cardinality(Counted) \in Nat /\ Cardinality(Counted) < limit[a]
      BY <2>4, <3>1, Sizes, CountsToday DEF CheckQuota
    <3>3. Claims(a, d)' \subseteq Counted \cup InFlight(a)'
      BY <1>1, <1>2, <2>4 DEF Claims, InFlight, Today, QuotaInv, TypeOK
    <3> HIDE DEF Counted
    <3>4. Counted \cup InFlight(a)' \in SUBSET Req
      BY <2>1, <3>1
    <3>5. Cardinality(Counted \cup InFlight(a)') <= Cardinality(Counted) + Cardinality(InFlight(a)')
      BY <2>1, <3>1, Together
    <3>6. Cardinality(Claims(a, d)') <= Cardinality(Counted \cup InFlight(a)')
      BY <3>3, <3>4, Smaller
    <3>7. Cardinality(Counted \cup InFlight(a)') \in Nat
      BY <3>4, Sizes
    <3>8. QED BY <1>1, <2>2, <2>3, <3>2, <3>5, <3>6, <3>7
  <2>5. CASE ~(CheckQuota(action[r]) /\ a = action[r] /\ d = Today)
    <3>1. Claims(a, d)' \subseteq Claims(a, d)
      BY <1>1, <1>2, <2>5 DEF Claims, Today, QuotaInv, TypeOK
    <3>2. Cardinality(Claims(a, d)') <= Cardinality(Claims(a, d))
      BY <2>1, <3>1, Smaller
    <3>3. QED BY <1>1, <2>2, <2>3, <3>2
  <2>6. QED BY <2>4, <2>5
<1>6. \A a \in Action : Cardinality(InFlight(a)') <= peak'[a]
  BY PeakFollows
<1>7. (\A q \in Req : stamp'[q] <= clock') /\ \A a \in Action : limit'[a] <= ceiling'[a]
  BY <1>1 DEF QuotaInv
<1>8. QED BY <1>4, <1>5, <1>6, <1>7 DEF QuotaInv

-----------------------------------------------------------------------------
(* The theorem *)

LEMMA QuotaNext ==
  ASSUME Offset = 0, QuotaInv, [Next]_vars
  PROVE  QuotaInv'
<1>1. ASSUME NEW r \in Req, RequireQuota(r) PROVE QuotaInv'
  BY <1>1, ClaimsOfAdmission
<1>2. ASSUME NEW r \in Req, Fail(r) \/ AskApproval(r) \/ RecordUsage(r) \/ CommitUsage(r) PROVE QuotaInv'
  BY <1>2, ClaimsOfRequest
<1>3. ASSUME NEW a \in Action, UpdateSubscription(a) PROVE QuotaInv'
  BY <1>3, ClaimsOfLimit
<1>4. CASE Tick
  BY <1>4, ClaimsOfDay
<1>5. CASE UNCHANGED vars
  BY <1>5 DEF vars, QuotaInv, TypeOK, InFlight, Claims, Today
<1>6. QED BY <1>1, <1>2, <1>3, <1>4, <1>5 DEF Next

\* On a server whose clock is UTC a tenant has, on every day and for either
\* action, fewer rows than the highest limit of the behaviour plus the most
\* requests it ever had in flight (require_quota, record_usage).
THEOREM QuotaOvershoot ==
  ASSUME Offset = 0
  PROVE  Spec => []OvershootBounded
<1>1. QuotaInv => OvershootBounded
  <2> SUFFICES ASSUME QuotaInv, NEW a \in Action, NEW day \in 0..(LastTick \div DayLength)
               PROVE  Used(a, day) < ceiling[a] + peak[a]
    BY DEF OvershootBounded
  <2> DEFINE Rows == {r \in Req : /\ pc[r] = "recorded" /\ action[r] = a
                                  /\ stamp[r] \div DayLength = day}
  <2>1. Rows \subseteq Claims(a, day) /\ Claims(a, day) \in SUBSET Req /\ Rows \in SUBSET Req
    BY DEF Claims
  <2>2. Cardinality(Rows) \in Nat /\ Cardinality(Claims(a, day)) \in Nat
    BY <2>1, Sizes
  <2>3. Cardinality(Rows) <= Cardinality(Claims(a, day))
    BY <2>1, Smaller
  <2>4. ceiling[a] \in Nat /\ peak[a] \in Nat
    BY LimitsArePositive, PeaksAreNat DEF QuotaInv, TypeOK
  <2>5. Cardinality(Claims(a, day)) < ceiling[a] + peak[a]
    BY DEF QuotaInv
  <2>6. Used(a, day) = Cardinality(Rows)
    BY DEF Used
  <2> HIDE DEF Rows
  <2>7. QED BY <2>2, <2>3, <2>4, <2>5, <2>6
<1>2. QuotaInv /\ [Next]_vars => QuotaInv'
  BY QuotaNext
<1>3. QED BY <1>1, <1>2, QuotaInit, PTL DEF Spec

-----------------------------------------------------------------------------
(* Tokens *)

-----------------------------------------------------------------------------
(* Types and single calls *)

\* Numbers in the state.
LEMMA Fields ==
  ASSUME TokensTypeOK
  PROVE  /\ issued \in Nat /\ store \in Nat /\ store <= issued /\ issued <= MaxPairs /\ MaxPairs \in Nat
         /\ \A k \in Pair : k \in Nat /\ k # 0 /\ root[k] \in Nat
         /\ \A d \in Call : /\ call[d].pair \in 0..MaxPairs /\ call[d].body \in 0..MaxPairs /\ call[d].rt \in 0..MaxPairs
                              /\ call[d].again \in BOOLEAN
BY PairsAssumption DEF TokensTypeOK, CallType, Pair

PcType == {"idle", "done", "failed"} \cup Waiting \cup Answered
KindType == {"me", "data", "chat", "logout", "login", "guest"}

\* A step that gives call c the value r.
LEMMA OneCall ==
  ASSUME TokensTypeOK, NEW c \in Call, NEW r \in CallType, call' = [call EXCEPT ![c] = r]
  PROVE  /\ call' \in [Call -> CallType] /\ call'[c] = r
         /\ \A d \in Call : d = c \/ call'[d] = call[d]
BY DEF TokensTypeOK

\* A step that only moves call c on.
LEMMA Stepped ==
  ASSUME TokensTypeOK, NEW c \in Call, NEW p \in PcType, Step(c, p)
  PROVE  /\ call' \in [Call -> CallType]
         /\ call'[c] = [call[c] EXCEPT !.pc = p] /\ call'[c].pc = p
         /\ call'[c].kind = call[c].kind /\ call'[c].tab = call[c].tab /\ call'[c].pair = call[c].pair
         /\ call'[c].body = call[c].body /\ call'[c].rt = call[c].rt /\ call'[c].again = call[c].again
         /\ \A d \in Call : d = c \/ call'[d] = call[d]
<1> DEFINE r == [call[c] EXCEPT !.pc = p]
<1>1. call[c] \in CallType
  BY DEF TokensTypeOK
<1>2. r \in CallType
  BY <1>1 DEF CallType, PcType
<1>3. call' = [call EXCEPT ![c] = r]
  BY DEF Step
<1>4. call' \in [Call -> CallType] /\ call'[c] = r /\ \A d \in Call : d = c \/ call'[d] = call[d]
  BY <1>2, <1>3, OneCall
<1>5. QED BY <1>1, <1>4 DEF CallType

\* A step that gives call c a new pair.
LEMMA Renews ==
  ASSUME TokensTypeOK, NEW c \in Call, issued < MaxPairs,
         call' = [call EXCEPT ![c].pc = "renewed", ![c].pair = issued + 1]
  PROVE  /\ call' \in [Call -> CallType]
         /\ call'[c].pc = "renewed" /\ call'[c].pair = issued + 1
         /\ call'[c].kind = call[c].kind /\ call'[c].tab = call[c].tab
         /\ call'[c].body = call[c].body /\ call'[c].rt = call[c].rt /\ call'[c].again = call[c].again
         /\ \A d \in Call : d = c \/ call'[d] = call[d]
<1> DEFINE r == [call[c] EXCEPT !.pc = "renewed", !.pair = issued + 1]
<1>1. call[c] \in CallType /\ issued + 1 \in 0..MaxPairs
  BY PairsAssumption DEF TokensTypeOK
<1>2. r \in CallType
  BY <1>1 DEF CallType, Answered
<1>3. call' = [call EXCEPT ![c] = r]
  BY <1>1 DEF CallType, TokensTypeOK
<1>4. call' \in [Call -> CallType] /\ call'[c] = r /\ \A d \in Call : d = c \/ call'[d] = call[d]
  BY <1>2, <1>3, OneCall
<1>5. QED BY <1>1, <1>4 DEF CallType

\* A call that is sent carries the stored pair, a logout the stored token too.
LEMMA Sent ==
  ASSUME TokensTypeOK, NEW c \in Call, NEW t \in Tab, NEW k \in {"me", "data", "chat", "logout", "login", "guest"},
         Send(c, t, k)
  PROVE  /\ \A d \in Call : d = c \/ call'[d] = call[d]
         /\ call'[c].pc = "sent" /\ call'[c].kind = k /\ call'[c].tab = t /\ call'[c].pair = store
         /\ call'[c].body = (IF k = "logout" THEN store ELSE 0) /\ call'[c].rt = 0 /\ call'[c].again = FALSE
         /\ call' \in [Call -> CallType]
<1> DEFINE r == [NoCall EXCEPT !.pc = "sent", !.kind = k, !.tab = t, !.pair = store,
             !.body = IF k = "logout" THEN store ELSE 0]
<1>1. r \in CallType
  <2>1. store \in 0..MaxPairs /\ 0 \in 0..MaxPairs
    BY PairsAssumption DEF TokensTypeOK
  <2>2. QED BY <2>1 DEF CallType, NoCall, Waiting
<1>2. call' = [call EXCEPT ![c] = r]
  BY DEF Send
<1>3. call' \in [Call -> CallType] /\ call'[c] = r /\ \A d \in Call : d = c \/ call'[d] = call[d]
  <2> HIDE DEF r
  <2> QED BY <1>1, <1>2 DEF TokensTypeOK
<1>4. QED BY <1>3 DEF NoCall

-----------------------------------------------------------------------------
(* Steps that change one call *)

\* A sent call: only a logout uses a token, and the race it may begin is noted.
LEMMA SendKeeps ==
  ASSUME TokenInv, TokensTypeOK',
         NEW c \in Call, NEW t \in Tab, NEW k \in {"me", "data", "chat", "logout", "login", "guest"},
         call[c].pc = "idle", Send(c, t, k), UNCHANGED <<serverVars, store>>, cause \subseteq cause',
         k = "logout" => store # 0 /\ store \notin guests /\ Race(store) \subseteq cause' /\ cause' # {},
         k \in {"me", "data", "chat"} /\ cause' = {} => store # 0,
         \A u \in Tab : shown'[u] # shown[u] => shown'[u] \in {"blank", "out"} \/ store # 0
  PROVE  TokenInv'
<1>1. /\ \A d \in Call : d = c \/ call'[d] = call[d]
      /\ call'[c].pc = "sent" /\ call'[c].kind = k /\ call'[c].tab = t /\ call'[c].pair = store
      /\ call'[c].body = (IF k = "logout" THEN store ELSE 0) /\ call'[c].rt = 0 /\ call'[c].again = FALSE
  BY Sent DEF TokenInv
<1>2. call[c] = NoCall
  BY DEF TokenInv, CallsFit
<1>s. /\ issued' = issued /\ row' = row /\ access' = access /\ root' = root /\ guests' = guests /\ active' = active
  BY DEF serverVars
<1>t. /\ TokensTypeOK /\ IssuedInOrder /\ CallsFit /\ NewPairsAreFresh
      /\ OneUser /\ PageHasTheToken /\ Undisturbed /\ StoredTokenIsLive
  BY DEF TokenInv
<1> USE NoneAssumption, Fields, <1>s, <1>t
<1>3. IssuedInOrder'
  BY <1>1 DEF IssuedInOrder
<1>4. CallsFit'
  <2>1. ASSUME NEW d \in Call, d # c PROVE call'[d] = call[d]
    BY <1>1, <2>1
  <2>2. call'[c].body # 0 <=> call'[c].kind = "logout"
    BY <1>1
  <2>3. call'[c].body \notin guests' /\ call'[c].rt \notin guests'
    <3>1. 0 \notin guests
      BY DEF TokensTypeOK, Pair
    <3>2. QED BY <1>1, <3>1
  <2>4. QED BY <1>1, <2>1, <2>2, <2>3 DEF CallsFit, SignInCall, Refreshing, Renewed
<1>5. NewPairsAreFresh'
  BY <1>1 DEF NewPairsAreFresh, IssuedInOrder, CallsFit, SignInCall, Refreshing, Renewed
<1>6. \A j \in Pair : Claimed(j)' <=> Claimed(j)
  BY <1>1, <1>2 DEF Claimed, NoCall
<1>7. \A j \in Pair : Using(j)' = (IF k = "logout" /\ store = j THEN Using(j) \cup {c} ELSE Using(j))
  BY <1>1, <1>2 DEF Using, NoCall, Waiting, Answered
<1>8. \A d \in Call : Renewed(d)' <=> Renewed(d)
  BY <1>1, <1>2 DEF Renewed, SignInCall, NoCall
<1>9. k = "logout" /\ "race" \notin cause' => store \in Pair /\ Using(store) = {}
  BY DEF Race, Pair
<1>10. OneUser'
  <2>1. SUFFICES ASSUME "race" \notin cause' PROVE OneUser'
    BY DEF OneUser
  <2>2. \A j \in Pair : \A d, e \in Using(j)' : d = e
    BY <1>7, <1>9, <2>1 DEF OneUser
  <2>3. \A i, j \in Pair : Claimed(i)' /\ Claimed(j)' /\ root'[i] = root'[j] => i = j
    BY <1>6, <2>1 DEF OneUser
  <2>4. \A d \in Call : call'[d].pc = "renewed" =>
         \A j \in Pair : Claimed(j)' /\ root'[j] = root'[call'[d].pair] => j = call'[d].pair
    BY <1>1, <1>6, <2>1 DEF OneUser
  <2>5. QED BY <2>2, <2>3, <2>4 DEF OneUser
<1>11. PageHasTheToken'
  <2>1. SUFFICES ASSUME {"race", "lost"} \cap cause' = {} PROVE PageHasTheToken'
    BY DEF PageHasTheToken
  <2>2. \A d \in Call : Refreshing(d)' \/ Renewed(d)' => call'[d].tab # None
    BY <1>1, <1>8, <2>1 DEF PageHasTheToken, Refreshing
  <2>3. store' # 0 => \A j \in Pair : Claimed(j)' /\ root'[j] = root'[store'] =>
         j = store' \/ \E d \in Call : Renewed(d)' /\ call'[d].rt = store' /\ call'[d].pair = j
    BY <1>1, <1>6, <1>8, <2>1 DEF PageHasTheToken, Renewed
  <2>4. ASSUME NEW d \in Call, call'[d].kind = "logout", ~call'[d].again,
               NEW j \in Pair, Claimed(j)', root'[j] = root'[call'[d].body]
        PROVE  /\ call'[d].pc = "sent" => j = call'[d].body
               /\ call'[d].pc \notin {"ok", "done"}
    <3>1. CASE d # c
      BY <1>1, <1>6, <2>1, <2>4, <3>1 DEF PageHasTheToken
    <3>2. CASE d = c
      <4>1. \A e \in Call : Renewed(e) /\ call[e].rt = store => e \in Using(store)
        BY <2>1 DEF PageHasTheToken, Renewed, Using, Waiting, Answered
      <4>2. QED BY <1>1, <1>6, <1>9, <2>1, <2>4, <3>2, <4>1 DEF PageHasTheToken
    <3>3. QED BY <3>1, <3>2
  <2>5. QED BY <2>2, <2>3, <2>4 DEF PageHasTheToken
<1>12. StoredTokenIsLive'
  BY <1>1, <1>2 DEF StoredTokenIsLive, NoCall
<1>13. Undisturbed'
  BY <1>1, <1>2 DEF Undisturbed, SignInCall, Renewed, Refreshing, NoCall
<1>14. QED BY <1>3, <1>4, <1>5, <1>10, <1>11, <1>12, <1>13 DEF TokenInv

\* Answers that end calls and pages that give them up: no token gains a claim or a
\* user, and a refresh that is given up counts as lost.
LEMMA Withdrawn ==
  ASSUME TokenInv, TokensTypeOK', UNCHANGED serverVars, store' \in {0, store}, cause \subseteq cause',
         \A d \in Call :
           /\ call'[d].kind = call[d].kind /\ call'[d].pair = call[d].pair /\ call'[d].body = call[d].body
           /\ call'[d].rt = call[d].rt /\ call'[d].again = call[d].again
           /\ call'[d].tab \in {call[d].tab, None}
           /\ \/ call'[d].pc = call[d].pc
              \/ call[d].pc = "ok" /\ call'[d].pc = "done"
              \/ call[d].pc \in {"unauthorized", "refused"} /\ call'[d].pc = "failed"
           /\ call[d].pc = "idle" => call'[d] = call[d]
           /\ (Refreshing(d) \/ Renewed(d)) /\ call'[d].tab # call[d].tab => "lost" \in cause'
  PROVE  IssuedInOrder' /\ CallsFit' /\ NewPairsAreFresh' /\ OneUser' /\ PageHasTheToken'
<1>s. /\ issued' = issued /\ row' = row /\ access' = access /\ root' = root /\ guests' = guests /\ active' = active
  BY DEF serverVars
<1>t. /\ TokensTypeOK /\ IssuedInOrder /\ CallsFit /\ NewPairsAreFresh
      /\ OneUser /\ PageHasTheToken /\ Undisturbed /\ StoredTokenIsLive
  BY DEF TokenInv
<1> USE NoneAssumption, Fields, <1>s, <1>t
<1>3. IssuedInOrder'
  BY DEF IssuedInOrder
<1>4. CallsFit'
  BY DEF CallsFit, SignInCall, Refreshing, Renewed
<1>5. NewPairsAreFresh'
  BY DEF NewPairsAreFresh, IssuedInOrder, CallsFit, SignInCall, Refreshing, Renewed
<1>6. \A j \in Pair : Claimed(j)' <=> Claimed(j)
  BY DEF Claimed
<1>7. \A j \in Pair : Using(j)' \subseteq Using(j)
  BY DEF Using, Waiting, Answered
<1>8. \A d \in Call : Renewed(d)' <=> Renewed(d)
  BY DEF Renewed, SignInCall
<1>9. \A d \in Call : Refreshing(d)' <=> Refreshing(d)
  BY DEF Refreshing
<1>10. OneUser'
  BY <1>6, <1>7 DEF OneUser
<1>11. PageHasTheToken'
  <2>1. SUFFICES ASSUME {"race", "lost"} \cap cause' = {} PROVE PageHasTheToken'
    BY DEF PageHasTheToken
  <2>2. \A d \in Call : Refreshing(d)' \/ Renewed(d)' => call'[d].tab # None
    BY <1>8, <1>9, <2>1 DEF PageHasTheToken
  <2>3. store' # 0 => \A j \in Pair : Claimed(j)' /\ root'[j] = root'[store'] =>
         j = store' \/ \E d \in Call : Renewed(d)' /\ call'[d].rt = store' /\ call'[d].pair = j
    BY <1>6, <1>8, <2>1 DEF PageHasTheToken
  <2>4. \A d \in Call : call'[d].kind = "logout" /\ ~call'[d].again => 
         \A j \in Pair : Claimed(j)' /\ root'[j] = root'[call'[d].body] =>
           call'[d].pc \notin {"ok", "done"} /\ (call'[d].pc = "sent" => j = call'[d].body)
    BY <1>6, <2>1 DEF PageHasTheToken
  <2>5. QED BY <2>2, <2>3, <2>4 DEF PageHasTheToken
<1>12. QED BY <1>3, <1>4, <1>5, <1>10, <1>11

\* Answers of the server that hand out nothing.
LEMMA Moves ==
  ASSUME TokenInv, TokensTypeOK', NEW c \in Call, NEW p \in PcType, Step(c, p),
         UNCHANGED <<issued, row, access, active, guests, root, store, shown, cause>>,
         \/ call[c].pc = "refreshing" /\ p = "checked" /\ row[call[c].rt] = "live"
         \/ Refreshing(c) /\ p = "refused" /\ cause # {}
         \/ call[c].pc = "sent" /\ SignInCall(c) /\ p = "refused" /\ cause # {}
  PROVE  TokenInv'
<1>1. /\ call'[c].pc = p
      /\ call'[c].kind = call[c].kind /\ call'[c].tab = call[c].tab /\ call'[c].pair = call[c].pair
      /\ call'[c].body = call[c].body /\ call'[c].rt = call[c].rt /\ call'[c].again = call[c].again
      /\ \A d \in Call : d = c \/ call'[d] = call[d]
  BY Stepped DEF TokenInv
<1>2. /\ issued' = issued /\ row' = row /\ access' = access /\ root' = root /\ guests' = guests /\ active' = active
      /\ store' = store /\ shown' = shown /\ cause' = cause
  OBVIOUS
<1>3. /\ TokensTypeOK /\ IssuedInOrder /\ CallsFit /\ NewPairsAreFresh
      /\ OneUser /\ PageHasTheToken /\ Undisturbed /\ StoredTokenIsLive
  BY DEF TokenInv
<1> USE NoneAssumption, Fields, <1>1, <1>2, <1>3 DEF SignInCall, Refreshing
<1>4. IssuedInOrder'
  BY DEF IssuedInOrder
<1>5. CallsFit'
  BY DEF CallsFit, Renewed
<1>6. NewPairsAreFresh'
  BY DEF NewPairsAreFresh, CallsFit, Renewed
<1>7. \A j \in Pair : Claimed(j)' => Claimed(j)
  BY DEF Claimed
<1>8. \A j \in Pair : Using(j)' \subseteq Using(j)
  BY DEF Using, Waiting, Answered, CallsFit
<1>9. \A d \in Call : Renewed(d)' <=> Renewed(d)
  BY DEF Renewed
<1>10. OneUser'
  BY <1>7, <1>8 DEF OneUser
<1>11. PageHasTheToken'
  BY <1>7, <1>9 DEF PageHasTheToken, Renewed
<1>12. StoredTokenIsLive'
  BY DEF StoredTokenIsLive
<1>13. Undisturbed'
  BY DEF Undisturbed, Renewed
<1>14. QED BY <1>4, <1>5, <1>6, <1>10, <1>11, <1>12, <1>13 DEF TokenInv

\* The page.
LEMMA MountKeeps == ASSUME TokenInv, TokensTypeOK', NEW t \in Tab, Mount(t) PROVE TokenInv'
<1>1. CASE store # 0
  <2>1. PICK c \in Call : call[c].pc = "idle" /\ Send(c, t, "me")
    BY <1>1 DEF Mount
  <2>2. UNCHANGED <<serverVars, store>> /\ cause \subseteq cause'
    BY DEF Mount
  <2>3. QED BY <1>1, <2>1, <2>2, SendKeeps
<1>2. CASE store = 0
  <2>1. UNCHANGED <<issued, row, access, active, guests, root, store, call, cause>>
    BY <1>2 DEF Mount, serverVars
  <2>2. /\ IssuedInOrder' /\ CallsFit' /\ NewPairsAreFresh' /\ OneUser' /\ PageHasTheToken' /\ StoredTokenIsLive'
    BY <2>1 DEF TokenInv, IssuedInOrder, CallsFit, NewPairsAreFresh, OneUser, PageHasTheToken, StoredTokenIsLive,
                SignInCall, Refreshing, Renewed, Claimed, Using
  <2>3. shown' = [shown EXCEPT ![t] = "out"]
    BY <1>2 DEF Mount
  <2>4. Undisturbed'
    BY <1>2, <2>1, <2>3 DEF TokenInv, TokensTypeOK, Undisturbed, SignInCall, Refreshing, Renewed
  <2>5. QED BY <2>2, <2>4 DEF TokenInv
<1>3. QED BY <1>1, <1>2

LEMMA UseKeeps ==
  ASSUME TokenInv, TokensTypeOK', NEW c \in Call, NEW t \in Tab, NEW k \in Kinds, Use(c, t, k) PROVE TokenInv'
<1>1. cause' = {} => store # 0
  BY DEF TokenInv, Undisturbed, Use
<1>2. call[c].pc = "idle" /\ Send(c, t, k) /\ k \in {"data", "chat"} /\ UNCHANGED <<serverVars, store>>
  BY DEF Use
<1>3. cause \subseteq cause' /\ shown' = shown
  BY DEF Use
<1>4. QED BY <1>1, <1>2, <1>3, SendKeeps

LEMMA SignInKeeps ==
  ASSUME TokenInv, TokensTypeOK', NEW c \in Call, NEW t \in Tab, NEW k \in Kinds, SignIn(c, t, k) PROVE TokenInv'
<1>1. call[c].pc = "idle" /\ Send(c, t, k) /\ k \in {"login", "guest"} /\ UNCHANGED <<serverVars, store>>
  BY DEF SignIn
<1>2. cause \subseteq cause' /\ shown' = shown
  BY DEF SignIn
<1>3. QED BY <1>1, <1>2, SendKeeps

LEMMA LogoutKeeps ==
  ASSUME TokenInv, TokensTypeOK', NEW c \in Call, NEW t \in Tab, Logout(c, t) PROVE TokenInv'
<1>1. CASE store = 0 \/ store \in guests
  <2>1. /\ UNCHANGED <<serverVars, call>> /\ store' = 0 /\ cause \subseteq cause' /\ cause' # {}
    BY <1>1 DEF Logout, serverVars
  <2>2. IssuedInOrder' /\ CallsFit' /\ NewPairsAreFresh' /\ OneUser' /\ PageHasTheToken'
    BY <2>1, Withdrawn
  <2>3. Undisturbed' /\ StoredTokenIsLive'
    BY <2>1 DEF Undisturbed, StoredTokenIsLive
  <2>4. QED BY <2>2, <2>3 DEF TokenInv
<1>2. CASE store # 0 /\ store \notin guests
  <2>1. call[c].pc = "idle" /\ Send(c, t, "logout") /\ UNCHANGED <<serverVars, store>> /\ shown' = shown
    BY <1>2 DEF Logout
  <2>2. cause \subseteq cause' /\ Race(store) \subseteq cause' /\ cause' # {}
    BY <1>2 DEF Logout
  <2>3. QED BY <1>2, <2>1, <2>2, SendKeeps
<1>3. QED BY <1>1, <1>2

\* A new pair: a sign-in founds a family, a refresh passes the claim of the token it
\* revokes to the new one.
LEMMA Issues ==
  ASSUME TokenInv, TokensTypeOK', NEW c \in Call,
         (Login(c) /\ call'[c].pc = "renewed") \/ GuestLogin(c) \/ RefreshCommit(c)
  PROVE  TokenInv'
<1>k. PICK k \in Nat : k = issued + 1
  BY Fields DEF TokenInv
<1>0. /\ issued < MaxPairs /\ call' = [call EXCEPT ![c].pc = "renewed", ![c].pair = issued + 1]
      /\ TokensTypeOK
  <2>1. TokensTypeOK
    BY DEF TokenInv
  <2>2. CASE Login(c) /\ call'[c].pc = "renewed"
    <3>1. ~Step(c, "refused")
      <4>1. Step(c, "refused") => call'[c].pc = "refused"
        BY <2>1, Stepped DEF PcType, Answered
      <4>2. QED BY <2>2, <4>1
    <3>2. QED BY <2>1, <2>2, <3>1 DEF Login
  <2>3. CASE GuestLogin(c)
    BY <2>1, <2>3 DEF GuestLogin
  <2>4. CASE RefreshCommit(c)
    BY <2>1, <2>4 DEF RefreshCommit
  <2>5. QED BY <2>2, <2>3, <2>4
<1>1. /\ call'[c].pc = "renewed" /\ call'[c].pair = k
      /\ call'[c].kind = call[c].kind /\ call'[c].tab = call[c].tab
      /\ call'[c].body = call[c].body /\ call'[c].rt = call[c].rt /\ call'[c].again = call[c].again
      /\ \A d \in Call : d = c \/ call'[d] = call[d]
  BY <1>0, <1>k, Renews
<1>2. /\ active' = active /\ store' = store /\ shown' = shown /\ cause' = cause
      /\ issued' = k /\ k \in Pair
  <2>1. k \in Pair
    BY <1>0, <1>k, PairsAssumption DEF TokensTypeOK, Pair
  <2>2. ~Step(c, "refused") \/ ~Login(c)
    <3>1. Step(c, "refused") => call'[c].pc = "refused"
      BY <1>0, Stepped DEF PcType, Answered
    <3>2. QED BY <1>1, <3>1
  <2>3. CASE Login(c)
    BY <1>k, <2>1, <2>2, <2>3 DEF Login, NewPair
  <2>4. CASE GuestLogin(c)
    BY <1>k, <2>1, <2>4 DEF GuestLogin, NewPair
  <2>5. CASE RefreshCommit(c)
    BY <1>k, <2>1, <2>5 DEF RefreshCommit, NewPair
  <2>6. QED BY <2>3, <2>4, <2>5
<1>3. /\ TokensTypeOK /\ IssuedInOrder /\ CallsFit /\ NewPairsAreFresh
      /\ OneUser /\ PageHasTheToken /\ Undisturbed /\ StoredTokenIsLive
  BY DEF TokenInv
<1>4. /\ \A j \in guests : j \in Pair
      /\ \A d \in Call : call[d].rt # 0 => call[d].rt \in Pair
      /\ \A d \in Call : call[d].body # 0 => call[d].body \in Pair
      /\ \A d \in Call : call[d].pair # 0 => call[d].pair \in Pair
      /\ store # 0 => store \in Pair
  BY <1>3, Fields DEF TokensTypeOK, Pair
<1>b. /\ guests' = IF call[c].kind = "guest" THEN guests \cup {k} ELSE guests
      /\ access'[k] /\ (call[c].kind # "guest" => row'[k] = "live") /\ (call[c].kind = "guest" => row'[k] = row[k])
      /\ root'[k] = IF call[c].pc = "checked" THEN root[call[c].rt] ELSE k
      /\ \A j \in Pair : j # k => root'[j] = root[j] /\ access'[j] = access[j]
      /\ \A j \in Pair : j # k => row'[j] = row[j] \/ (call[c].pc = "checked" /\ j = call[c].rt)
      /\ call[c].pc = "checked" => row'[call[c].rt] = "revoked"
  <2>1. CASE Login(c) /\ call'[c].pc = "renewed"
    <3>1. call[c].pc = "sent" /\ call[c].kind = "login"
      BY <2>1 DEF Login
    <3>2. NewPair(FALSE, 0) /\ row' = [row EXCEPT ![issued + 1] = "live"]
      <4>1. ~Step(c, "refused")
        <5>1. Step(c, "refused") => call'[c].pc = "refused"
          BY <1>0, Stepped DEF PcType, Answered
        <5>2. QED BY <2>1, <5>1
      <4>2. QED BY <2>1, <4>1 DEF Login
    <3>3. QED BY <1>0, <1>k, <1>2, <3>1, <3>2 DEF NewPair, TokensTypeOK
  <2>2. CASE GuestLogin(c)
    BY <1>0, <1>k, <1>2, <2>2 DEF GuestLogin, NewPair, TokensTypeOK
  <2>3. CASE RefreshCommit(c)
    <3>1. call[c].pc = "checked" /\ call[c].rt \in Pair /\ call[c].rt # k /\ call[c].kind # "guest"
      BY <1>0, <1>k, <1>2, <1>3, <1>4, <2>3, Fields DEF RefreshCommit, CallsFit, IssuedInOrder, Refreshing, SignInCall
    <3>2. NewPair(FALSE, call[c].rt) /\ row' = [row EXCEPT ![call[c].rt] = "revoked", ![issued + 1] = "live"] /\ call[c].rt # 0
      BY <1>0, <2>3, <3>1, Fields DEF RefreshCommit
    <3>3. QED BY <1>0, <1>k, <1>2, <3>1, <3>2 DEF NewPair, TokensTypeOK
  <2>4. QED BY <2>1, <2>2, <2>3
<1>c. call[c].pc = "checked" \/ (call[c].pc = "sent" /\ SignInCall(c))
  BY DEF Login, GuestLogin, RefreshCommit, SignInCall
<1>5. row[k] = "none" /\ root[k] = 0 /\ k \notin guests
  BY <1>2, <1>3, <1>k, Fields DEF IssuedInOrder
<1> USE Fields, <1>1, <1>2, <1>3, <1>4, <1>5, <1>b, <1>k DEF SignInCall
<1>a. IF call[c].pc = "checked" THEN ~SignInCall(c) /\ call[c].rt \in Pair /\ ~call[c].again
      ELSE SignInCall(c) /\ call[c].rt = 0 /\ call[c].body = 0 /\ ~call[c].again
  BY <1>c DEF CallsFit, Refreshing
<1>6. \A d \in Call : call[d].pair # k /\ call[d].rt # k /\ call[d].body # k /\ store # k
  BY DEF IssuedInOrder
<1>7. IssuedInOrder'
  <2>1. ASSUME NEW j \in Pair
        PROVE  IF j > issued'
               THEN row'[j] = "none" /\ root'[j] = 0 /\ ~access'[j] /\ j \notin guests'
               ELSE root'[j] \in 1..j /\ (j \in guests' => row'[j] = "none")
    <3>1. CASE j # k
      <4>1. row'[j] = row[j] \/ (~(j > issued) /\ j \notin guests)
        BY <3>1 DEF IssuedInOrder, CallsFit
      <4>2. root'[j] = root[j] /\ access'[j] = access[j] /\ (j \in guests' => j \in guests) /\ (j > issued' <=> j > issued)
        <5>1. root'[j] = root[j] /\ access'[j] = access[j]
          BY <3>1
        <5>2. j \in guests' => j \in guests
          BY <3>1
        <5>3. j > issued' <=> j > issued
          BY <3>1
        <5>4. QED BY <5>1, <5>2, <5>3
      <4>3. IF j > issued THEN row[j] = "none" /\ root[j] = 0 /\ ~access[j] /\ j \notin guests
            ELSE root[j] \in 1..j /\ (j \in guests => row[j] = "none")
        BY DEF IssuedInOrder
      <4> HIDE Fields, <1>1, <1>2, <1>3, <1>4, <1>5, <1>b, <1>k
      <4>4. QED BY <4>1, <4>2, <4>3
    <3>2. CASE j = k
      <4>1. root'[k] \in 1..k
        BY <1>a, <1>6 DEF IssuedInOrder
      <4>2. k \in guests' => row'[k] = "none"
        OBVIOUS
      <4>3. QED BY <3>2, <4>1, <4>2
    <3>3. QED BY <3>1, <3>2
  <2>2. \A d \in Call : call'[d].pair <= issued' /\ call'[d].body <= issued' /\ call'[d].rt <= issued'
    BY DEF IssuedInOrder
  <2>3. QED BY <2>1, <2>2 DEF IssuedInOrder
<1>8. CallsFit'
  <2>1. \A d \in Call : call[d].rt \notin guests' /\ call[d].body \notin guests'
    BY <1>6 DEF CallsFit
  <2>2. \A d \in Call : call[d].pair # 0 /\ access[call[d].pair] => access'[call[d].pair]
    OBVIOUS
  <2>3. ASSUME NEW d \in Call, d # c PROVE call'[d] = call[d]
    BY <2>3
  <2>4. access'[k]
    OBVIOUS
  <2>5. QED BY <1>a, <2>1, <2>2, <2>3, <2>4 DEF CallsFit, Refreshing, Renewed
<1>9. NewPairsAreFresh'
  <2>1. ASSUME NEW d \in Call, call'[d].pc = "renewed"
        PROVE  /\ store # call'[d].pair
               /\ \A e \in Call : /\ call'[e].rt # call'[d].pair /\ call'[e].body # call'[d].pair
                                  /\ e # d => call'[e].pair # call'[d].pair
    BY <1>6, <2>1 DEF NewPairsAreFresh
  <2>2. ASSUME NEW d \in Call, Renewed(d)'
        PROVE  root'[call'[d].pair] = root'[call'[d].rt] /\ row'[call'[d].rt] # "live"
    <3>1. CASE d = c
      BY <1>a, <1>6, <2>2, <3>1 DEF Renewed
    <3>2. CASE d # c
      BY <1>6, <2>2, <3>2 DEF NewPairsAreFresh, CallsFit, Renewed
    <3>3. QED BY <3>1, <3>2
  <2>3. QED BY <2>1, <2>2 DEF NewPairsAreFresh, Renewed
<1>10. ASSUME NEW j \in Pair, Claimed(j)', j # k PROVE Claimed(j)
  BY <1>6, <1>10 DEF Claimed
<1>11. \A j \in Pair : j # k => Using(j)' \subseteq Using(j)
  BY <1>a DEF Using, Waiting, Answered
<1>12. Using(k)' = {}
  BY <1>6 DEF Using
<1>13. ASSUME "race" \notin cause, call[c].pc = "checked", NEW j \in Pair, Claimed(j)', root[j] = root[call[c].rt]
       PROVE  j = k
  <2>1. SUFFICES ASSUME j # k PROVE FALSE
    OBVIOUS
  <2>2. call[c].rt \in Pair /\ Claimed(call[c].rt)
    BY <1>13 DEF CallsFit, Refreshing, Claimed
  <2>3. j = call[c].rt
    BY <1>10, <1>13, <2>1, <2>2 DEF OneUser
  <2>4. PICK d \in Call : call'[d].pc = "checked" /\ call'[d].rt = j
    BY <1>13, <2>1, <2>3 DEF Claimed
  <2>5. d # c /\ d \in Using(j) /\ c \in Using(j)
    BY <1>13, <2>3, <2>4 DEF Using, Waiting
  <2>6. QED BY <1>13, <2>5 DEF OneUser
<1>14. OneUser'
  <2>1. SUFFICES ASSUME "race" \notin cause PROVE OneUser'
    BY DEF OneUser
  <2>2. \A j \in Pair : \A d, e \in Using(j)' : d = e
    BY <1>11, <1>12, <2>1 DEF OneUser
  <2>3. ASSUME NEW j \in Pair, Claimed(j)', root'[j] = root'[k] PROVE j = k
    <3>1. CASE call[c].pc = "checked"
      <4>1. j # k => root[j] = root[call[c].rt]
        BY <2>3, <3>1
      <4>2. QED BY <1>13, <2>1, <2>3, <3>1, <4>1
    <3>2. CASE call[c].pc # "checked"
      BY <2>3, <3>2 DEF IssuedInOrder
    <3>3. QED BY <3>1, <3>2
  <2>4. ASSUME NEW i \in Pair, NEW j \in Pair, Claimed(i)', Claimed(j)', root'[i] = root'[j] PROVE i = j
    <3>1. CASE i # k /\ j # k
      BY <1>10, <2>1, <2>4, <3>1 DEF OneUser
    <3>2. CASE i = k \/ j = k
      BY <2>3, <2>4, <3>2
    <3>3. QED BY <3>1, <3>2
  <2>5. ASSUME NEW d \in Call, call'[d].pc = "renewed", NEW j \in Pair, Claimed(j)', root'[j] = root'[call'[d].pair]
        PROVE  j = call'[d].pair
    <3>1. CASE d = c
      BY <2>3, <2>5, <3>1
    <3>2. CASE d # c /\ j # k
      <4>1. call'[d] = call[d] /\ call[d].pair \in Pair /\ call[d].pair # k
        BY <1>6, <2>5, <3>2 DEF CallsFit
      <4>2. Claimed(j) /\ root[j] = root[call[d].pair]
        BY <1>10, <2>5, <3>2, <4>1
      <4>3. call[d].pc = "renewed"
        BY <2>5, <4>1
      <4>4. QED BY <2>1, <4>1, <4>2, <4>3 DEF OneUser
    <3>3. CASE d # c /\ j = k /\ call[c].pc = "checked"
      <4>1. Claimed(call[c].rt) /\ call[c].rt \in Pair
        BY <3>3 DEF Claimed, CallsFit, Refreshing
      <4>2. call[d].pc = "renewed" /\ root[call[c].rt] = root[call[d].pair]
        BY <1>6, <2>5, <3>3 DEF CallsFit
      <4>3. call[c].rt = call[d].pair
        BY <2>1, <4>1, <4>2 DEF OneUser
      <4>4. QED BY <4>2, <4>3 DEF NewPairsAreFresh
    <3>4. CASE d # c /\ j = k /\ call[c].pc # "checked"
      <4>1. call'[d] = call[d] /\ call[d].pair \in Pair /\ call[d].pair # k
        BY <1>6, <2>5, <3>4 DEF CallsFit
      <4>2. QED BY <2>5, <3>4, <4>1 DEF IssuedInOrder
    <3>5. QED BY <3>1, <3>2, <3>3, <3>4
  <2>6. QED BY <2>2, <2>4, <2>5 DEF OneUser
<1>15. PageHasTheToken'
  <2>1. SUFFICES ASSUME {"race", "lost"} \cap cause = {} PROVE PageHasTheToken'
    BY DEF PageHasTheToken
  <2>2. \A d \in Call : Refreshing(d)' \/ Renewed(d)' => call'[d].tab # None
    BY <1>a, <2>1 DEF PageHasTheToken, Refreshing, Renewed
  <2>3. ASSUME store # 0, NEW j \in Pair, Claimed(j)', root'[j] = root'[store]
        PROVE  j = store \/ \E d \in Call : Renewed(d)' /\ call'[d].rt = store /\ call'[d].pair = j
    <3>1. root'[store] = root[store] /\ root[store] <= issued
      BY <1>6, <2>3 DEF IssuedInOrder
    <3>2. CASE j # k
      <4>1. j = store \/ \E d \in Call : Renewed(d) /\ call[d].rt = store /\ call[d].pair = j
        BY <1>10, <2>1, <2>3, <3>1, <3>2 DEF PageHasTheToken
      <4>2. \A d \in Call : Renewed(d) => d # c
        BY <1>c DEF Renewed
      <4>3. QED BY <4>1, <4>2 DEF Renewed, SignInCall
    <3>3. CASE j = k
      <4>1. call[c].pc = "checked" /\ root[call[c].rt] = root[store]
        BY <2>3, <3>1, <3>3
      <4>2. Claimed(call[c].rt) /\ call[c].rt \in Pair
        BY <4>1 DEF Claimed, CallsFit, Refreshing
      <4>3. call[c].rt = store
        BY <2>1, <2>3, <4>1, <4>2 DEF PageHasTheToken, NewPairsAreFresh, Renewed
      <4>4. QED BY <3>3, <4>1, <4>3 DEF Renewed, SignInCall, CallsFit
    <3>4. QED BY <3>2, <3>3
  <2>4. ASSUME NEW d \in Call, call'[d].kind = "logout", ~call'[d].again,
               NEW j \in Pair, Claimed(j)', root'[j] = root'[call'[d].body]
        PROVE  /\ call'[d].pc = "sent" => j = call'[d].body
               /\ call'[d].pc \notin {"ok", "done"}
    <3>1. CASE call'[d].pc \notin {"sent", "ok", "done"}
      BY <3>1
    <3>2. CASE call'[d].pc \in {"sent", "ok", "done"}
      <4>1. d # c /\ call'[d] = call[d] /\ call[d].body \in Pair /\ root'[call[d].body] = root[call[d].body]
        <5>1. d # c /\ call'[d] = call[d]
          BY <3>2
        <5>2. call[d].body # 0
          BY <2>4, <5>1 DEF CallsFit
        <5>3. QED BY <1>6, <5>1, <5>2
      <4>2. CASE j # k
        <5>1. Claimed(j) /\ root[j] = root[call[d].body] /\ call[d].kind = "logout" /\ ~call[d].again
          BY <1>10, <2>4, <4>1, <4>2
        <5>2. PageHasTheToken
          OBVIOUS
        <5> HIDE Fields, <1>1, <1>2, <1>3, <1>4, <1>5, <1>b, <1>k
        <5>3. QED BY <2>1, <4>1, <5>1, <5>2 DEF PageHasTheToken
      <4>3. CASE j = k
        <5>1. call[c].pc = "checked" /\ root[call[c].rt] = root[call[d].body]
          BY <1>6, <2>4, <4>1, <4>3 DEF IssuedInOrder
        <5>2. Claimed(call[c].rt) /\ call[c].rt \in Pair
          BY <5>1 DEF Claimed, CallsFit, Refreshing
        <5>3. call[d].pc = "sent" /\ call[c].rt = call[d].body
          BY <2>1, <2>4, <3>2, <4>1, <5>1, <5>2 DEF PageHasTheToken
        <5>4. c \in Using(call[d].body) /\ d \in Using(call[d].body)
          BY <2>4, <4>1, <5>1, <5>3 DEF Using, Waiting
        <5>5. QED BY <2>1, <4>1, <5>4 DEF OneUser
      <4>4. QED BY <4>2, <4>3
    <3>3. QED BY <3>1, <3>2
  <2>5. \A d \in Call : call'[d].kind = "logout" /\ ~call'[d].again =>
          \A j \in Pair : Claimed(j)' /\ root'[j] = root'[call'[d].body] =>
            (call'[d].pc = "sent" => j = call'[d].body) /\ call'[d].pc \notin {"ok", "done"}
    BY <2>4
  <2>6. QED BY <2>2, <2>3, <2>5 DEF PageHasTheToken
<1>16. StoredTokenIsLive' /\ Undisturbed'
  <2>1. SUFFICES ASSUME cause = {} PROVE StoredTokenIsLive' /\ Undisturbed'
    BY DEF StoredTokenIsLive, Undisturbed
  <2>2. ASSUME NEW d \in Call, d # c, call[c].pc = "checked" PROVE ~Refreshing(d) /\ ~Renewed(d)
    <3>1. SUFFICES ASSUME Refreshing(d) \/ Renewed(d) PROVE FALSE
      OBVIOUS
    <3>2. call[c].rt = store /\ call[d].rt = store /\ store \in Pair /\ call[d].tab # None
      BY <2>1, <2>2, <3>1 DEF Undisturbed, PageHasTheToken, Refreshing, Renewed, CallsFit
    <3>3. c \in Using(store) /\ d \in Using(store)
      BY <2>2, <3>1, <3>2 DEF Using, Waiting, Answered, Refreshing, Renewed
    <3>4. QED BY <2>1, <2>2, <3>2, <3>3 DEF OneUser
  <2>3. ASSUME store # 0, store \notin guests'
        PROVE  row'[store] = "live" \/ \E d \in Call : call'[d].pc = "renewed" /\ call'[d].rt = store
    <3>1. CASE call[c].pc = "checked"
      BY <2>1, <3>1 DEF Undisturbed, Refreshing
    <3>2. CASE call[c].pc # "checked"
      <4>1. store \notin guests /\ store # k
        BY <1>6, <2>3
      <4>2. CASE row[store] = "live"
        BY <2>3, <3>2, <4>1, <4>2
      <4>3. CASE row[store] # "live"
        <5>1. PICK d \in Call : call[d].pc = "renewed" /\ call[d].rt = store
          BY <2>1, <2>3, <4>1, <4>3 DEF StoredTokenIsLive
        <5>2. d # c
          BY <1>c, <5>1
        <5>3. QED BY <5>1, <5>2
      <4>4. QED BY <4>2, <4>3
    <3>3. QED BY <3>1, <3>2
  <2>4. StoredTokenIsLive'
    BY <2>3 DEF StoredTokenIsLive
  <2>5. ASSUME NEW d \in Call
        PROVE  /\ call'[d].kind # "logout" /\ call'[d].pc # "refused"
               /\ Refreshing(d)' => call'[d].rt = store /\ row'[store] = "live"
               /\ Renewed(d)' => call'[d].rt = store
               /\ call'[d].pc = "renewed" /\ call'[d].kind # "guest" => row'[call'[d].pair] = "live"
               /\ call'[d].pc = "unauthorized" => ~call'[d].again
    <3>1. CASE d = c
      <4>1. call[c].kind # "logout" /\ (call[c].pc = "checked" => call[c].rt = store)
        BY <1>c, <2>1 DEF Undisturbed, Refreshing
      <4>2. QED BY <1>a, <3>1, <4>1 DEF Refreshing, Renewed
    <3>2. CASE d # c
      <4>1. call'[d] = call[d]
        BY <3>2
      <4>2. Refreshing(d) => call[d].rt = store /\ row'[store] = "live"
        <5>1. Refreshing(d) => call[d].rt = store /\ row[store] = "live" /\ call[c].pc # "checked" /\ store \in Pair
          BY <2>1, <2>2, <3>2 DEF Undisturbed, CallsFit
        <5>2. QED BY <1>6, <5>1
      <4>3. call[d].pc = "renewed" /\ call[d].kind # "guest" => row'[call[d].pair] = "live"
        BY <1>6, <2>1 DEF Undisturbed, CallsFit, NewPairsAreFresh
      <4>4. QED BY <2>1, <4>1, <4>2, <4>3 DEF Undisturbed, Refreshing, Renewed
    <3>3. QED BY <3>1, <3>2
  <2>6. store = 0 => /\ \A t \in Tab : shown[t] \in {"blank", "out"}
                     /\ \A d \in Call : call'[d].pc # "idle" => SignInCall(d)'
    BY <1>a, <2>1 DEF Undisturbed
  <2>7. store \in guests' =>
         /\ access'[store]
         /\ \A d \in Call : call'[d].pc # "idle" /\ ~SignInCall(d)' =>
              call'[d].pair = store /\ call'[d].pc \in {"sent", "ok", "done"}
    <3>1. store \in guests' => store \in guests /\ store \in Pair
      BY <1>6
    <3>2. store \in guests => call[c].pc # "checked"
      BY <1>a, <2>1 DEF Undisturbed
    <3>3. QED BY <1>a, <2>1, <3>1, <3>2 DEF Undisturbed
  <2>8. active
    BY <2>1 DEF Undisturbed
  <2>9. Undisturbed'
    BY <2>5, <2>6, <2>7, <2>8 DEF Undisturbed
  <2>10. QED BY <2>4, <2>9
<1>17. QED BY <1>7, <1>8, <1>9, <1>14, <1>15, <1>16 DEF TokenInv

\* Other requests: a logout that is authorized takes away the claim of its token.
LEMMA ServeKeeps == ASSUME TokenInv, TokensTypeOK', NEW c \in Call, Serve(c) PROVE TokenInv'
<1>1. /\ TokensTypeOK /\ IssuedInOrder /\ CallsFit /\ NewPairsAreFresh
      /\ OneUser /\ PageHasTheToken /\ Undisturbed /\ StoredTokenIsLive
  BY DEF TokenInv
<1>2. /\ issued' = issued /\ access' = access /\ root' = root /\ guests' = guests /\ active' = active
      /\ store' = store /\ shown' = shown /\ cause' = cause
      /\ call[c].pc = "sent" /\ ~SignInCall(c)
  BY DEF Serve, SignInCall
<1>3. PICK p \in {"ok", "unauthorized"} : Step(c, p) /\ p = IF Authorized(c) THEN "ok" ELSE "unauthorized"
  BY DEF Serve
<1>4. /\ call'[c].pc = p
      /\ call'[c].kind = call[c].kind /\ call'[c].tab = call[c].tab /\ call'[c].pair = call[c].pair
      /\ call'[c].body = call[c].body /\ call'[c].rt = call[c].rt /\ call'[c].again = call[c].again
      /\ \A d \in Call : d = c \/ call'[d] = call[d]
  BY <1>1, <1>3, Stepped DEF PcType, Answered
<1>5. /\ \A j \in Pair : row'[j] = row[j] \/ (row[j] = "live" /\ row'[j] = "revoked" /\ call[c].kind = "logout" /\ j = call[c].body)
      /\ call[c].kind = "logout" /\ p = "ok" => row'[call[c].body] # "live"
      /\ call[c].kind # "logout" => row' = row
  <2>1. CASE call[c].kind = "logout" /\ Authorized(c) /\ row[call[c].body] = "live"
    <3>1. call[c].body \in Pair
      BY <1>1, <2>1, Fields DEF CallsFit, Pair
    <3>2. row' = [row EXCEPT ![call[c].body] = "revoked"]
      BY <2>1 DEF Serve
    <3>3. QED BY <1>1, <1>3, <2>1, <3>1, <3>2 DEF TokensTypeOK
  <2>2. CASE ~(call[c].kind = "logout" /\ Authorized(c) /\ row[call[c].body] = "live")
    BY <1>3, <2>2 DEF Serve
  <2>3. QED BY <2>1, <2>2
<1>6. \A d \in Call : (call[d].rt # 0 => call[d].rt \in Pair) /\ (call[d].body # 0 => call[d].body \in Pair)
  BY <1>1, Fields DEF Pair
<1>7. p = "unauthorized" /\ call[c].again => ~active
  BY <1>1, <1>2, <1>3 DEF Authorized, CallsFit
<1> USE NoneAssumption, Fields, <1>1, <1>2, <1>4, <1>5, <1>6
<1>8. IssuedInOrder'
  <2>1. \A j \in Pair : row[j] = "none" => row'[j] = "none"
    OBVIOUS
  <2>2. QED BY <2>1 DEF IssuedInOrder
<1>9. CallsFit'
  BY DEF CallsFit, SignInCall, Refreshing, Renewed
<1>10. NewPairsAreFresh'
  <2>1. \A d \in Call : Renewed(d)' => Renewed(d) /\ d # c /\ row'[call[d].rt] # "live"
    BY DEF Renewed, SignInCall, NewPairsAreFresh, CallsFit
  <2>2. QED BY <2>1 DEF NewPairsAreFresh
<1>11. \A j \in Pair : Claimed(j)' => Claimed(j)
  BY DEF Claimed
<1>12. \A j \in Pair : Using(j)' \subseteq Using(j)
  BY DEF Using, Waiting, Answered
<1>13. \A d \in Call : Renewed(d)' <=> Renewed(d)
  BY DEF Renewed, SignInCall
<1>14. OneUser'
  BY <1>11, <1>12 DEF OneUser
<1>15. PageHasTheToken'
  <2>1. SUFFICES ASSUME {"race", "lost"} \cap cause = {} PROVE PageHasTheToken'
    BY DEF PageHasTheToken
  <2>2. \A d \in Call : Refreshing(d)' \/ Renewed(d)' => call'[d].tab # None
    BY <1>13, <2>1 DEF PageHasTheToken, Refreshing
  <2>3. store # 0 => \A j \in Pair : Claimed(j)' /\ root[j] = root[store] =>
         j = store \/ \E d \in Call : Renewed(d)' /\ call'[d].rt = store /\ call'[d].pair = j
    BY <1>11, <1>13, <2>1 DEF PageHasTheToken
  <2>4. ASSUME NEW d \in Call, call'[d].kind = "logout", ~call'[d].again,
               NEW j \in Pair, Claimed(j)', root[j] = root[call'[d].body]
        PROVE  (call'[d].pc = "sent" => j = call'[d].body) /\ call'[d].pc \notin {"ok", "done"}
    <3>1. CASE d # c
      BY <1>11, <2>1, <2>4, <3>1 DEF PageHasTheToken
    <3>2. CASE d = c /\ p = "unauthorized"
      BY <3>2
    <3>3. CASE d = c /\ p = "ok"
      <4>1. j = call[c].body
        BY <1>11, <2>1, <2>4, <3>3 DEF PageHasTheToken
      <4>2. row'[j] # "live"
        BY <2>4, <3>3, <4>1
      <4>3. PICK e \in Call : call'[e].pc = "checked" /\ call'[e].rt = j
        BY <2>4, <4>2 DEF Claimed
      <4>4. e # c /\ e \in Using(j) /\ c \in Using(j)
        BY <2>4, <3>3, <4>1, <4>3 DEF Using, Waiting
      <4>5. QED BY <2>1, <4>4 DEF OneUser
    <3>4. QED BY <3>1, <3>2, <3>3
  <2>5. \A d \in Call : call'[d].kind = "logout" /\ ~call'[d].again =>
          \A j \in Pair : Claimed(j)' /\ root[j] = root[call'[d].body] =>
            (call'[d].pc = "sent" => j = call'[d].body) /\ call'[d].pc \notin {"ok", "done"}
    BY <2>4
  <2>6. QED BY <2>2, <2>3, <2>5 DEF PageHasTheToken
<1>16. StoredTokenIsLive' /\ Undisturbed'
  <2>1. SUFFICES ASSUME cause = {} PROVE StoredTokenIsLive' /\ Undisturbed'
    BY DEF StoredTokenIsLive, Undisturbed
  <2>2. row' = row /\ ~(p = "unauthorized" /\ call[c].again)
    BY <1>7, <2>1 DEF Undisturbed
  <2>3. StoredTokenIsLive'
    BY <2>2 DEF StoredTokenIsLive
  <2>4. store \in guests => p = "ok"
    <3>1. store \in guests => access[call[c].pair] /\ call[c].pair = store /\ store # 0
      BY <2>1 DEF Undisturbed, TokensTypeOK, Pair
    <3>2. QED BY <1>3, <3>1 DEF Authorized
  <2>5. Undisturbed'
    BY <2>1, <2>2, <2>4 DEF Undisturbed, SignInCall, Refreshing, Renewed
  <2>6. QED BY <2>3, <2>5
<1>17. QED BY <1>8, <1>9, <1>10, <1>14, <1>15, <1>16 DEF TokenInv

\* The new tokens are stored: they carry the claim of their sign-in.
LEMMA TokensArrive ==
  ASSUME TokenInv, TokensTypeOK', NEW c \in Call, ReceiveTokens(c) \/ ReceiveSignIn(c)
  PROVE  TokenInv'
<1>1. /\ TokensTypeOK /\ IssuedInOrder /\ CallsFit /\ NewPairsAreFresh
      /\ OneUser /\ PageHasTheToken /\ Undisturbed /\ StoredTokenIsLive
  BY DEF TokenInv
<1>2. /\ issued' = issued /\ row' = row /\ access' = access /\ root' = root /\ guests' = guests /\ active' = active
      /\ shown' = shown /\ store' = call[c].pair /\ call[c].pc = "renewed" /\ call[c].tab # None
  BY DEF ReceiveTokens, ReceiveSignIn, serverVars
<1>3. /\ \A d \in Call : d = c \/ call'[d] = call[d]
      /\ call'[c].pc = "sent" /\ call'[c].tab = call[c].tab /\ call'[c].pair = call[c].pair
      /\ call'[c].body = call[c].body /\ call'[c].rt = call[c].rt
      /\ IF SignInCall(c) THEN call'[c].kind = "me" /\ ~call'[c].again
         ELSE call'[c].kind = call[c].kind /\ call'[c].again
  <2>1. call[c] \in CallType
    BY <1>1 DEF TokensTypeOK
  <2>2. CASE ReceiveTokens(c)
    <3>1. call' = [call EXCEPT ![c] = [call[c] EXCEPT !.pc = "sent", !.again = TRUE]] /\ ~SignInCall(c)
      BY <1>1, <2>2 DEF ReceiveTokens, TokensTypeOK, SignInCall
    <3>2. QED BY <1>1, <2>1, <3>1 DEF TokensTypeOK, CallType
  <2>3. CASE ReceiveSignIn(c)
    <3>1. call' = [call EXCEPT ![c] = [call[c] EXCEPT !.pc = "sent", !.kind = "me"]] /\ SignInCall(c)
      BY <1>1, <2>3 DEF ReceiveSignIn, TokensTypeOK, SignInCall
    <3>2. ~call[c].again
      BY <1>1, <3>1 DEF CallsFit
    <3>3. QED BY <1>1, <2>1, <3>1, <3>2 DEF TokensTypeOK, CallType
  <2>4. QED BY <2>2, <2>3
<1>4. cause \subseteq cause' /\ (cause' = {} => cause = {} /\ (SignInCall(c) => store = 0))
  BY DEF ReceiveTokens, ReceiveSignIn, SignInCall
<1>5. "race" \in cause' <=> "race" \in cause
  BY DEF ReceiveTokens, ReceiveSignIn
<1>6. "lost" \in cause' <=> "lost" \in cause
  BY DEF ReceiveTokens, ReceiveSignIn
<1>7. \A d \in Call : (call[d].rt # 0 => call[d].rt \in Pair) /\ (call[d].body # 0 => call[d].body \in Pair)
                     /\ (call[d].pair # 0 => call[d].pair \in Pair)
  BY <1>1, Fields DEF Pair
<1>8. /\ call[c].pair \in Pair /\ access[call[c].pair]
      /\ SignInCall(c) => call[c].rt = 0 /\ call[c].body = 0 /\ call[c].kind # "logout"
      /\ ~SignInCall(c) => call[c].rt \in Pair
  BY <1>1, <1>2, <1>7 DEF CallsFit, Renewed, SignInCall
<1> USE NoneAssumption, Fields, <1>1, <1>2, <1>3, <1>7, <1>8
<1>9. IssuedInOrder'
  BY DEF IssuedInOrder
<1>10. CallsFit'
  BY DEF CallsFit, SignInCall, Refreshing, Renewed
<1>11. NewPairsAreFresh'
  BY DEF NewPairsAreFresh, SignInCall, Renewed
<1>12. \A j \in Pair : Claimed(j)' <=> Claimed(j)
  BY DEF Claimed
<1>13. \A j \in Pair : Using(j)' \subseteq Using(j)
  BY DEF Using, Waiting, Answered
<1>14. \A d \in Call : Renewed(d)' <=> Renewed(d) /\ d # c
  BY DEF Renewed, SignInCall
<1>15. OneUser'
  BY <1>5, <1>12, <1>13 DEF OneUser
<1>16. PageHasTheToken'
  <2>1. SUFFICES ASSUME {"race", "lost"} \cap cause = {} PROVE PageHasTheToken'
    BY <1>5, <1>6 DEF PageHasTheToken
  <2>2. \A d \in Call : Refreshing(d)' \/ Renewed(d)' => call'[d].tab # None
    BY <1>14, <2>1 DEF PageHasTheToken, Refreshing
  <2>3. \A j \in Pair : Claimed(j)' /\ root[j] = root[call[c].pair] => j = call[c].pair
    BY <1>12, <2>1 DEF OneUser
  <2>4. \A d \in Call : call'[d].kind = "logout" /\ ~call'[d].again =>
          \A j \in Pair : Claimed(j)' /\ root[j] = root[call'[d].body] =>
            (call'[d].pc = "sent" => j = call'[d].body) /\ call'[d].pc \notin {"ok", "done"}
    BY <1>12, <2>1 DEF PageHasTheToken
  <2>5. QED BY <2>2, <2>3, <2>4 DEF PageHasTheToken
<1>17. StoredTokenIsLive' /\ Undisturbed'
  <2>1. SUFFICES ASSUME cause' = {} PROVE StoredTokenIsLive' /\ Undisturbed'
    BY DEF StoredTokenIsLive, Undisturbed
  <2>2. cause = {} /\ (SignInCall(c) => store = 0)
    BY <1>4, <2>1
  <2>3. call[c].kind # "guest" => row[call[c].pair] = "live"
    BY <2>2 DEF Undisturbed
  <2>4. call[c].kind = "guest" \/ call[c].pair \notin guests
    <3>1. \A j \in guests : j <= issued => row[j] = "none"
      BY DEF IssuedInOrder, TokensTypeOK
    <3>2. QED BY <2>3, <3>1 DEF IssuedInOrder
  <2>5. ASSUME NEW d \in Call, d # c PROVE ~Refreshing(d) /\ ~Renewed(d)
    <3>1. SUFFICES ASSUME Refreshing(d) \/ Renewed(d) PROVE FALSE
      OBVIOUS
    <3>2. ~SignInCall(d) /\ call[d].pc # "idle" /\ call[d].tab # None /\ call[d].rt = store /\ call[d].rt # 0
      BY <2>2, <3>1 DEF Undisturbed, PageHasTheToken, Refreshing, Renewed, CallsFit, SignInCall
    <3>3. ~SignInCall(c) /\ call[c].rt = store
      BY <2>2, <3>2 DEF Undisturbed, Renewed
    <3>4. c \in Using(store) /\ d \in Using(store) /\ store \in Pair
      BY <3>1, <3>2, <3>3 DEF Using, Waiting, Answered, Refreshing, Renewed
    <3>5. QED BY <2>2, <2>5, <3>4 DEF OneUser
  <2>6. StoredTokenIsLive'
    BY <2>3 DEF StoredTokenIsLive, CallsFit
  <2>7. ASSUME SignInCall(c), NEW d \in Call, call'[d].pc # "idle", ~SignInCall(d)' PROVE d = c
    BY <2>2, <2>7 DEF Undisturbed, SignInCall
  <2>8. ~SignInCall(c) => call[c].pair \notin guests
    BY <2>4 DEF SignInCall
  <2>9. Undisturbed'
    <3>1. \A d \in Call :
         /\ call'[d].kind # "logout" /\ call'[d].pc # "refused"
         /\ Refreshing(d)' => call'[d].rt = store' /\ row'[store'] = "live"
         /\ Renewed(d)' => call'[d].rt = store'
         /\ call'[d].pc = "renewed" /\ call'[d].kind # "guest" => row'[call'[d].pair] = "live"
         /\ call'[d].pc = "unauthorized" => ~call'[d].again
      BY <1>14, <2>2, <2>5 DEF Undisturbed, Refreshing
    <3>2. store' # 0
      BY DEF Pair
    <3>3. store' \in guests' => /\ access'[store']
         /\ \A d \in Call : call'[d].pc # "idle" /\ ~SignInCall(d)' =>
              call'[d].pair = store' /\ call'[d].pc \in {"sent", "ok", "done"}
      BY <2>7, <2>8
    <3>4. active
      BY <2>2 DEF Undisturbed
    <3>5. QED BY <3>1, <3>2, <3>3, <3>4 DEF Undisturbed
  <2>10. QED BY <2>6, <2>9
<1>18. QED BY <1>9, <1>10, <1>11, <1>15, <1>16, <1>17 DEF TokenInv

\* A 401 starts a refresh with the stored token: the call becomes its only user.
LEMMA RefreshBegins ==
  ASSUME TokenInv, TokensTypeOK', NEW c \in Call,
         Receive(c), call[c].pc = "unauthorized", ~call[c].again, store # 0, store \notin guests
  PROVE  TokenInv'
<1>0. /\ call' = [call EXCEPT ![c].pc = "refreshing", ![c].rt = store] /\ call[c].tab # None
      /\ cause' = cause \cup Race(IF call[c].kind = "logout" /\ call[c].body = store THEN 0 ELSE store)
      /\ UNCHANGED <<serverVars, store, shown>>
  BY DEF Receive
<1>1. /\ TokensTypeOK /\ IssuedInOrder /\ CallsFit /\ NewPairsAreFresh
      /\ OneUser /\ PageHasTheToken /\ Undisturbed /\ StoredTokenIsLive
  BY DEF TokenInv
<1>2. /\ issued' = issued /\ row' = row /\ access' = access /\ root' = root /\ guests' = guests /\ active' = active
      /\ store' = store /\ shown' = shown
  BY <1>0 DEF serverVars
<1>3. /\ \A d \in Call : d = c \/ call'[d] = call[d]
      /\ call'[c].pc = "refreshing" /\ call'[c].tab = call[c].tab /\ call'[c].pair = call[c].pair
      /\ call'[c].body = call[c].body /\ call'[c].rt = store
      /\ call'[c].kind = call[c].kind /\ call'[c].again = call[c].again
  <2>1. call[c] \in CallType
    BY <1>1 DEF TokensTypeOK
  <2>2. call' = [call EXCEPT ![c] = [call[c] EXCEPT !.pc = "refreshing", !.rt = store]]
    BY <1>0, <1>1 DEF TokensTypeOK
  <2>3. QED BY <1>1, <2>1, <2>2 DEF TokensTypeOK, CallType
<1>4. store \in Pair /\ call[c].rt = 0 /\ ~SignInCall(c) /\ call[c].tab # None
  BY <1>0, <1>1, Fields DEF Pair, CallsFit, SignInCall
<1>5. cause \subseteq cause' /\ (cause' = {} => cause = {}) /\ ("lost" \in cause' => "lost" \in cause)
  BY <1>0 DEF Race
<1>6. "race" \notin cause' => /\ "race" \notin cause
                              /\ Using(store) = {} \/ (Using(store) = {c} /\ call[c].kind = "logout" /\ call[c].body = store)
  <2>1. "race" \notin cause' => "race" \notin cause
    BY <1>5
  <2>2. CASE call[c].kind = "logout" /\ call[c].body = store
    <3>1. c \in Using(store)
      BY <1>0, <2>2 DEF Using, Answered
    <3>2. \A d \in Using(store) : d \in Call
      BY DEF Using
    <3>3. "race" \notin cause => Using(store) = {c}
      BY <1>1, <1>4, <3>1, <3>2 DEF OneUser
    <3>4. QED BY <2>1, <2>2, <3>3
  <2>3. CASE ~(call[c].kind = "logout" /\ call[c].body = store)
    BY <1>0, <1>4, <2>1, <2>3 DEF Race, Pair
  <2>4. QED BY <2>2, <2>3
<1>7. \A d \in Call : call[d].pc = "renewed" => call[d].pair # store /\ call[d].pair \in Pair
  BY <1>1, Fields DEF NewPairsAreFresh, CallsFit, Pair
<1>8. Refreshing(c)' /\ ~Refreshing(c) /\ ~Renewed(c) /\ ~Renewed(c)'
  BY <1>3 DEF Refreshing, Renewed
<1>9. \A j \in Pair : Claimed(j)' <=> Claimed(j)
  BY <1>2, <1>3 DEF Claimed
<1>10. \A j \in Pair : Using(j)' \subseteq Using(j) \cup (IF j = store THEN {c} ELSE {})
  BY <1>3, <1>4 DEF Using, Waiting, Answered
<1>11. \A d \in Call : d # c => (Renewed(d)' <=> Renewed(d)) /\ (Refreshing(d)' <=> Refreshing(d))
  BY <1>3 DEF Renewed, Refreshing, SignInCall
<1>12. IssuedInOrder'
  BY <1>1, <1>2, <1>3, Fields DEF IssuedInOrder
<1>13. CallsFit'
  BY <1>1, <1>2, <1>3, <1>4, Fields DEF CallsFit, SignInCall, Refreshing, Renewed
<1>14. NewPairsAreFresh'
  BY <1>1, <1>2, <1>3, <1>7, Fields DEF NewPairsAreFresh, SignInCall, Renewed
<1>15. OneUser'
  <2>1. SUFFICES ASSUME "race" \notin cause' PROVE OneUser'
    BY DEF OneUser
  <2>2. "race" \notin cause
    BY <1>6, <2>1
  <2>3. \A j \in Pair : \A d, e \in Using(j)' : d = e
    BY <1>1, <1>6, <1>10, <2>1 DEF OneUser
  <2>4. \A i, j \in Pair : Claimed(i)' /\ Claimed(j)' /\ root'[i] = root'[j] => i = j
    BY <1>1, <1>2, <1>9, <2>2 DEF OneUser
  <2>5. \A d \in Call : call'[d].pc = "renewed" =>
         \A j \in Pair : Claimed(j)' /\ root'[j] = root'[call'[d].pair] => j = call'[d].pair
    BY <1>1, <1>2, <1>3, <1>9, <2>2 DEF OneUser
  <2>6. QED BY <2>3, <2>4, <2>5 DEF OneUser
<1>16. PageHasTheToken'
  <2>1. SUFFICES ASSUME {"race", "lost"} \cap cause' = {} PROVE PageHasTheToken'
    BY DEF PageHasTheToken
  <2>2. {"race", "lost"} \cap cause = {}
    BY <1>5, <2>1
  <2>3. \A d \in Call : Refreshing(d)' \/ Renewed(d)' => call'[d].tab # None
    BY <1>0, <1>1, <1>3, <1>11, <2>2 DEF PageHasTheToken
  <2>4. store # 0 => \A j \in Pair : Claimed(j)' /\ root[j] = root[store] =>
         j = store \/ \E d \in Call : Renewed(d)' /\ call'[d].rt = store /\ call'[d].pair = j
    BY <1>1, <1>3, <1>8, <1>9, <1>11, <2>2 DEF PageHasTheToken
  <2>5. \A d \in Call : call'[d].kind = "logout" /\ ~call'[d].again =>
          \A j \in Pair : Claimed(j)' /\ root[j] = root[call'[d].body] =>
            (call'[d].pc = "sent" => j = call'[d].body) /\ call'[d].pc \notin {"ok", "done"}
    BY <1>1, <1>3, <1>9, <2>2 DEF PageHasTheToken
  <2>6. QED BY <1>2, <2>3, <2>4, <2>5 DEF PageHasTheToken
<1>17. StoredTokenIsLive' /\ Undisturbed'
  <2>1. SUFFICES ASSUME cause' = {} PROVE StoredTokenIsLive' /\ Undisturbed'
    BY DEF StoredTokenIsLive, Undisturbed
  <2>2. cause = {} /\ call[c].kind # "logout" /\ "race" \notin cause'
    BY <1>1, <1>5, <2>1 DEF Undisturbed
  <2>3. Using(store) = {}
    BY <1>6, <2>2
  <2>4. ASSUME NEW d \in Call, call[d].pc = "renewed", call[d].rt = store PROVE FALSE
    <3>1. Renewed(d)
      BY <1>1, <1>4, <2>4, Fields DEF CallsFit, Renewed, Pair
    <3>2. call[d].tab # None
      BY <1>1, <2>2, <3>1 DEF PageHasTheToken
    <3>3. d \in Using(store)
      BY <2>4, <3>2 DEF Using, Answered
    <3>4. QED BY <2>3, <3>3
  <2>5. row[store] = "live"
    BY <1>1, <2>2, <2>4 DEF StoredTokenIsLive
  <2>6. StoredTokenIsLive'
    BY <1>2, <2>5 DEF StoredTokenIsLive
  <2>7. \A d \in Call :
         /\ call'[d].kind # "logout" /\ call'[d].pc # "refused"
         /\ Refreshing(d)' => call'[d].rt = store /\ row[store] = "live"
         /\ Renewed(d)' => call'[d].rt = store
         /\ call'[d].pc = "renewed" /\ call'[d].kind # "guest" => row[call'[d].pair] = "live"
         /\ call'[d].pc = "unauthorized" => ~call'[d].again
    BY <1>1, <1>3, <1>8, <1>11, <2>2, <2>5 DEF Undisturbed
  <2>8. active
    BY <1>1, <2>2 DEF Undisturbed
  <2>9. Undisturbed'
    BY <1>2, <2>7, <2>8 DEF Undisturbed
  <2>10. QED BY <2>6, <2>9
<1>18. QED BY <1>12, <1>13, <1>14, <1>15, <1>16, <1>17 DEF TokenInv

\* A call ends with its answer.
LEMMA CallEnds ==
  ASSUME TokenInv, TokensTypeOK', NEW c \in Call, NEW ok \in BOOLEAN, End(c, ok), UNCHANGED <<serverVars, cause>>,
         IF ok THEN call[c].pc = "ok" ELSE call[c].pc = "unauthorized" /\ call[c].again
  PROVE  TokenInv'
<1>1. /\ TokensTypeOK /\ CallsFit /\ Undisturbed /\ StoredTokenIsLive
  BY DEF TokenInv
<1>2. PICK p \in {"done", "failed"} : Step(c, p) /\ p = IF ok THEN "done" ELSE "failed"
  BY DEF End
<1>3. /\ call'[c].pc = p
      /\ call'[c].kind = call[c].kind /\ call'[c].tab = call[c].tab /\ call'[c].pair = call[c].pair
      /\ call'[c].body = call[c].body /\ call'[c].rt = call[c].rt /\ call'[c].again = call[c].again
      /\ \A d \in Call : d = c \/ call'[d] = call[d]
  BY <1>1, <1>2, Stepped DEF PcType
<1>4. store' \in {0, store}
  BY DEF End
<1>5. ~Refreshing(c) /\ ~Renewed(c) /\ call[c].pc \in {"ok", "unauthorized"} /\ ~SignInCall(c)
  BY <1>1 DEF Refreshing, Renewed, CallsFit
<1>6. IssuedInOrder' /\ CallsFit' /\ NewPairsAreFresh' /\ OneUser' /\ PageHasTheToken'
  <2>1. \A d \in Call :
           /\ call'[d].kind = call[d].kind /\ call'[d].pair = call[d].pair /\ call'[d].body = call[d].body
           /\ call'[d].rt = call[d].rt /\ call'[d].again = call[d].again
           /\ call'[d].tab \in {call[d].tab, None}
           /\ \/ call'[d].pc = call[d].pc
              \/ call[d].pc = "ok" /\ call'[d].pc = "done"
              \/ call[d].pc \in {"unauthorized", "refused"} /\ call'[d].pc = "failed"
           /\ call[d].pc = "idle" => call'[d] = call[d]
           /\ (Refreshing(d) \/ Renewed(d)) /\ call'[d].tab # call[d].tab => "lost" \in cause'
    BY <1>2, <1>3, <1>5
  <2>2. UNCHANGED serverVars /\ cause \subseteq cause'
    OBVIOUS
  <2>3. QED BY <1>4, <2>1, <2>2, Withdrawn
<1>7. StoredTokenIsLive' /\ Undisturbed'
  <2>1. SUFFICES ASSUME cause = {} PROVE StoredTokenIsLive' /\ Undisturbed'
    BY DEF StoredTokenIsLive, Undisturbed
  <2>2. ok /\ call[c].kind # "logout" /\ store # 0
    BY <1>1, <1>5, <2>1 DEF Undisturbed
  <2>3. store' = store /\ row' = row /\ guests' = guests /\ active' = active /\ access' = access /\ cause' = cause
    BY <2>2 DEF End, serverVars
  <2>4. StoredTokenIsLive'
    BY <1>1, <1>3, <1>5, <2>3 DEF StoredTokenIsLive
  <2>5. \A d \in Call : (Refreshing(d)' => Refreshing(d)) /\ (Renewed(d)' => Renewed(d)) /\ (SignInCall(d)' <=> SignInCall(d))
    BY <1>2, <1>3 DEF Refreshing, Renewed, SignInCall
  <2>6. Undisturbed'
    BY <1>1, <1>2, <1>3, <1>5, <2>1, <2>2, <2>3, <2>5 DEF Undisturbed
  <2>7. QED BY <2>4, <2>6
<1>8. QED BY <1>6, <1>7 DEF TokenInv

\* The page is reloaded: what its calls carry stays, and a refresh that is given up
\* counts as lost.
LEMMA Reloads ==
  ASSUME TokensTypeOK, NEW c \in Call, SignOutAndReload(c),
         \A d \in Call : (Refreshing(d) \/ Renewed(d)) /\ call[d].tab = call[c].tab => "lost" \in cause'
  PROVE  \A d \in Call :
           /\ call'[d].kind = call[d].kind /\ call'[d].pair = call[d].pair /\ call'[d].body = call[d].body
           /\ call'[d].rt = call[d].rt /\ call'[d].again = call[d].again
           /\ call'[d].tab \in {call[d].tab, None} /\ call'[d].pc = call[d].pc
           /\ call[d].pc = "idle" => call'[d] = call[d]
           /\ (Refreshing(d) \/ Renewed(d)) /\ call'[d].tab # call[d].tab => "lost" \in cause'
<1>1. call' = [d \in Call |-> IF call[d].tab = call[c].tab /\ call[d].pc \in Waiting \cup Answered
                             THEN [call[d] EXCEPT !.tab = None] ELSE call[d]]
  BY DEF SignOutAndReload
<1>2. SUFFICES ASSUME NEW d \in Call
               PROVE  /\ call'[d].kind = call[d].kind /\ call'[d].pair = call[d].pair /\ call'[d].body = call[d].body
                      /\ call'[d].rt = call[d].rt /\ call'[d].again = call[d].again
                      /\ call'[d].tab \in {call[d].tab, None} /\ call'[d].pc = call[d].pc
                      /\ call[d].pc = "idle" => call'[d] = call[d]
                      /\ (Refreshing(d) \/ Renewed(d)) /\ call'[d].tab # call[d].tab => "lost" \in cause'
  OBVIOUS
<1>3. call[d] \in CallType
  BY DEF TokensTypeOK
<1>4. CASE ~(call[d].tab = call[c].tab /\ call[d].pc \in Waiting \cup Answered)
  <2>1. call'[d] = call[d]
    BY <1>1, <1>4
  <2>2. QED BY <2>1
<1>5. CASE call[d].tab = call[c].tab /\ call[d].pc \in Waiting \cup Answered
  <2>1. call'[d] = [call[d] EXCEPT !.tab = None]
    BY <1>1, <1>5
  <2>2. call[d].pc # "idle"
    BY <1>5 DEF Waiting, Answered
  <2>3. QED BY <1>3, <1>5, <2>1, <2>2 DEF CallType
<1>6. QED BY <1>4, <1>5

\* The page is signed out, and reloaded unless a chat was refused.
LEMMA SignsOut ==
  ASSUME TokenInv, TokensTypeOK', NEW c \in Call, SignOut(c), cause' = cause \cup Abandons(c), UNCHANGED serverVars,
         call[c].pc \in {"unauthorized", "refused"}, ~SignInCall(c), cause # {}
  PROVE  TokenInv'
<1>1. TokensTypeOK
  BY DEF TokenInv
<1>2. store' = 0 /\ cause \subseteq cause' /\ cause' # {}
  BY DEF SignOut, SignOutAndReload
<1>3. StoredTokenIsLive' /\ Undisturbed'
  BY <1>2 DEF StoredTokenIsLive, Undisturbed
<1>4. \A d \in Call :
           /\ call'[d].kind = call[d].kind /\ call'[d].pair = call[d].pair /\ call'[d].body = call[d].body
           /\ call'[d].rt = call[d].rt /\ call'[d].again = call[d].again
           /\ call'[d].tab \in {call[d].tab, None}
           /\ \/ call'[d].pc = call[d].pc
              \/ call[d].pc = "ok" /\ call'[d].pc = "done"
              \/ call[d].pc \in {"unauthorized", "refused"} /\ call'[d].pc = "failed"
           /\ call[d].pc = "idle" => call'[d] = call[d]
           /\ (Refreshing(d) \/ Renewed(d)) /\ call'[d].tab # call[d].tab => "lost" \in cause'
  <2>1. CASE call[c].kind = "chat"
    <3>1. Step(c, "failed")
      BY <2>1 DEF SignOut
    <3>2. /\ call'[c].pc = "failed"
          /\ call'[c].kind = call[c].kind /\ call'[c].tab = call[c].tab /\ call'[c].pair = call[c].pair
          /\ call'[c].body = call[c].body /\ call'[c].rt = call[c].rt /\ call'[c].again = call[c].again
          /\ \A d \in Call : d = c \/ call'[d] = call[d]
      BY <1>1, <3>1, Stepped DEF PcType
    <3>3. QED BY <3>2
  <2>2. CASE call[c].kind # "chat"
    <3>1. SignOutAndReload(c)
      BY <2>2 DEF SignOut
    <3>2. \A d \in Call : Refreshing(d) \/ Renewed(d) => d # c /\ call[d].pc \in Waiting \cup Answered
      BY DEF Refreshing, Renewed, Waiting, Answered
    <3>3. \A d \in Call : (Refreshing(d) \/ Renewed(d)) /\ call[d].tab = call[c].tab => "lost" \in cause'
      BY <3>2 DEF Abandons
    <3>4. QED BY <1>1, <3>1, <3>3, Reloads
  <2>3. QED BY <2>1, <2>2
<1>5. IssuedInOrder' /\ CallsFit' /\ NewPairsAreFresh' /\ OneUser' /\ PageHasTheToken'
  BY <1>2, <1>4, Withdrawn
<1>6. QED BY <1>3, <1>5 DEF TokenInv

\* A refresh that fails signs the page out and counts as lost.
LEMMA RefreshFailsKeeps == ASSUME TokenInv, TokensTypeOK', NEW c \in Call, RefreshFails(c) PROVE TokenInv'
<1>1. TokensTypeOK
  BY DEF TokenInv
<1>2. UNCHANGED serverVars /\ store' = 0 /\ cause \subseteq cause' /\ cause' # {} /\ "lost" \in cause'
  BY DEF RefreshFails, SignOutAndReload
<1>3. StoredTokenIsLive' /\ Undisturbed'
  BY <1>2 DEF StoredTokenIsLive, Undisturbed
<1>4. \A d \in Call :
           /\ call'[d].kind = call[d].kind /\ call'[d].pair = call[d].pair /\ call'[d].body = call[d].body
           /\ call'[d].rt = call[d].rt /\ call'[d].again = call[d].again
           /\ call'[d].tab \in {call[d].tab, None} /\ call'[d].pc = call[d].pc
           /\ call[d].pc = "idle" => call'[d] = call[d]
           /\ (Refreshing(d) \/ Renewed(d)) /\ call'[d].tab # call[d].tab => "lost" \in cause'
  <2>1. CASE call[c].kind = "chat"
    <3>1. call[c] \in CallType /\ call[c].pc # "idle"
      BY <1>1 DEF RefreshFails, Refreshing, Renewed, TokensTypeOK
    <3>2. call' = [call EXCEPT ![c] = [call[c] EXCEPT !.tab = None]]
      BY <1>1, <2>1 DEF RefreshFails, TokensTypeOK
    <3>3. QED BY <1>1, <1>2, <3>1, <3>2 DEF CallType, TokensTypeOK
  <2>2. CASE call[c].kind # "chat"
    BY <1>1, <1>2, <2>2, Reloads DEF RefreshFails
  <2>3. QED BY <2>1, <2>2
<1>5. IssuedInOrder' /\ CallsFit' /\ NewPairsAreFresh' /\ OneUser' /\ PageHasTheToken'
  BY <1>2, <1>4, Withdrawn
<1>6. QED BY <1>3, <1>5 DEF TokenInv

\* The answers of the server, one handler each.
LEMMA ReceiveKeeps == ASSUME TokenInv, TokensTypeOK', NEW c \in Call, Receive(c) PROVE TokenInv'
<1>1. UNCHANGED serverVars /\ call[c].tab # None /\ call[c].pc \in {"ok", "unauthorized"}
  BY DEF Receive
<1>2. CASE call[c].pc = "ok"
  <2>1. End(c, TRUE) /\ UNCHANGED cause
    BY <1>2 DEF Receive
  <2>2. QED BY <1>1, <1>2, <2>1, CallEnds
<1>3. CASE call[c].pc = "unauthorized" /\ call[c].again
  <2>1. End(c, FALSE) /\ UNCHANGED cause
    BY <1>3 DEF Receive
  <2>2. QED BY <1>1, <1>3, <2>1, CallEnds
<1>4. CASE call[c].pc = "unauthorized" /\ ~call[c].again /\ (store = 0 \/ store \in guests)
  <2>1. SignOut(c) /\ cause' = cause \cup Abandons(c)
    BY <1>4 DEF Receive
  <2>2. ~SignInCall(c)
    BY <1>4 DEF TokenInv, CallsFit
  <2>3. cause # {}
    BY <1>4, <2>2 DEF TokenInv, Undisturbed
  <2>4. QED BY <1>1, <1>4, <2>1, <2>2, <2>3, SignsOut
<1>5. CASE call[c].pc = "unauthorized" /\ ~call[c].again /\ store # 0 /\ store \notin guests
  BY <1>5, RefreshBegins
<1>6. QED BY <1>1, <1>2, <1>3, <1>4, <1>5

LEMMA ReceiveRefusalKeeps == ASSUME TokenInv, TokensTypeOK', NEW c \in Call, ReceiveRefusal(c) PROVE TokenInv'
<1>1. UNCHANGED serverVars /\ call[c].pc = "refused" /\ cause # {}
  BY DEF ReceiveRefusal, TokenInv, Undisturbed
<1>2. CASE SignInCall(c)
  <2>1. Step(c, "failed") /\ UNCHANGED <<store, shown, cause>>
    BY <1>2 DEF ReceiveRefusal, SignInCall
  <2>2. /\ call'[c].pc = "failed"
        /\ call'[c].kind = call[c].kind /\ call'[c].tab = call[c].tab /\ call'[c].pair = call[c].pair
        /\ call'[c].body = call[c].body /\ call'[c].rt = call[c].rt /\ call'[c].again = call[c].again
        /\ \A d \in Call : d = c \/ call'[d] = call[d]
    BY <2>1, Stepped DEF PcType, TokenInv
  <2>3. IssuedInOrder' /\ CallsFit' /\ NewPairsAreFresh' /\ OneUser' /\ PageHasTheToken'
    <3>1. \A d \in Call :
           /\ call'[d].kind = call[d].kind /\ call'[d].pair = call[d].pair /\ call'[d].body = call[d].body
           /\ call'[d].rt = call[d].rt /\ call'[d].again = call[d].again
           /\ call'[d].tab \in {call[d].tab, None}
           /\ \/ call'[d].pc = call[d].pc
              \/ call[d].pc = "ok" /\ call'[d].pc = "done"
              \/ call[d].pc \in {"unauthorized", "refused"} /\ call'[d].pc = "failed"
           /\ call[d].pc = "idle" => call'[d] = call[d]
           /\ (Refreshing(d) \/ Renewed(d)) /\ call'[d].tab # call[d].tab => "lost" \in cause'
      BY <1>1, <2>2
    <3>2. cause \subseteq cause' /\ store' \in {0, store}
      BY <2>1
    <3>3. QED BY <1>1, <3>1, <3>2, Withdrawn
  <2>4. StoredTokenIsLive' /\ Undisturbed'
    BY <1>1, <2>1 DEF StoredTokenIsLive, Undisturbed
  <2>5. QED BY <2>3, <2>4 DEF TokenInv
<1>3. CASE ~SignInCall(c)
  <2>1. SignOut(c) /\ cause' = cause \cup Abandons(c)
    BY <1>3 DEF ReceiveRefusal, SignInCall
  <2>2. QED BY <1>1, <1>3, <2>1, SignsOut
<1>4. QED BY <1>2, <1>3

\* A broken call is a cause only if the page was loading or a refresh was under way.
LEMMA BreakKeeps == ASSUME TokenInv, TokensTypeOK', NEW c \in Call, Break(c) PROVE TokenInv'
<1>1. TokensTypeOK /\ CallsFit /\ PageHasTheToken /\ Undisturbed /\ StoredTokenIsLive
  BY DEF TokenInv
<1>2. UNCHANGED serverVars /\ store' \in {0, store} /\ cause \subseteq cause'
  BY DEF Break
<1>3. Refreshing(c) \/ Renewed(c) => "lost" \in cause'
  BY DEF Break
<1>4. call[c] \in CallType /\ call[c].pc # "idle"
  BY <1>1 DEF Break, TokensTypeOK, Waiting, Answered
<1>5. /\ call'[c].pc = call[c].pc /\ call'[c].tab = None
      /\ call'[c].kind = call[c].kind /\ call'[c].pair = call[c].pair
      /\ call'[c].body = call[c].body /\ call'[c].rt = call[c].rt /\ call'[c].again = call[c].again
      /\ \A d \in Call : d = c \/ call'[d] = call[d]
  <2>1. call' = [call EXCEPT ![c] = [call[c] EXCEPT !.tab = None]]
    BY <1>1 DEF Break, TokensTypeOK
  <2>2. QED BY <1>1, <1>4, <2>1 DEF CallType, TokensTypeOK
<1>6. IssuedInOrder' /\ CallsFit' /\ NewPairsAreFresh' /\ OneUser' /\ PageHasTheToken'
  <2>1. \A d \in Call :
           /\ call'[d].kind = call[d].kind /\ call'[d].pair = call[d].pair /\ call'[d].body = call[d].body
           /\ call'[d].rt = call[d].rt /\ call'[d].again = call[d].again
           /\ call'[d].tab \in {call[d].tab, None}
           /\ call'[d].pc = call[d].pc
           /\ call[d].pc = "idle" => call'[d] = call[d]
           /\ (Refreshing(d) \/ Renewed(d)) /\ call'[d].tab # call[d].tab => "lost" \in cause'
    BY <1>3, <1>4, <1>5
  <2>2. QED BY <1>2, <2>1, Withdrawn
<1>7. StoredTokenIsLive' /\ Undisturbed'
  <2>1. SUFFICES ASSUME cause' = {} PROVE StoredTokenIsLive' /\ Undisturbed'
    BY DEF StoredTokenIsLive, Undisturbed
  <2>2. cause = {} /\ call[c].kind \notin {"me", "logout"}
    BY <1>1, <1>2, <2>1 DEF Break, Undisturbed
  <2>3. /\ store' = store /\ shown' = shown /\ row' = row /\ guests' = guests /\ active' = active /\ access' = access
    BY <1>2, <2>2 DEF Break, serverVars
  <2>4. StoredTokenIsLive'
    <3>1. \A d \in Call : call'[d].pc = call[d].pc /\ call'[d].rt = call[d].rt
      BY <1>5
    <3>2. QED BY <1>1, <2>2, <2>3, <3>1 DEF StoredTokenIsLive
  <2>5. \A d \in Call :
          /\ call'[d].pc = call[d].pc /\ call'[d].kind = call[d].kind /\ call'[d].pair = call[d].pair
          /\ call'[d].rt = call[d].rt /\ call'[d].again = call[d].again
    BY <1>5
  <2>6. \A d \in Call : (Refreshing(d)' <=> Refreshing(d)) /\ (Renewed(d)' <=> Renewed(d)) /\ (SignInCall(d)' <=> SignInCall(d))
    BY <2>5 DEF Refreshing, Renewed, SignInCall
  <2>7. Undisturbed'
    BY <1>1, <2>2, <2>3, <2>5, <2>6 DEF Undisturbed
  <2>8. QED BY <2>4, <2>7
<1>8. QED BY <1>6, <1>7 DEF TokenInv

\* Tokens expire, an account is disabled.
LEMMA ExpireKeeps == ASSUME TokenInv, TokensTypeOK', NEW k \in Pair, Expire(k) PROVE TokenInv'
<1>1. /\ TokensTypeOK /\ IssuedInOrder /\ CallsFit /\ NewPairsAreFresh
      /\ OneUser /\ PageHasTheToken /\ Undisturbed /\ StoredTokenIsLive
  BY DEF TokenInv
<1>2. /\ issued' = issued /\ root' = root /\ guests' = guests /\ active' = active
      /\ store' = store /\ shown' = shown /\ call' = call
  BY DEF Expire
<1>3. /\ \A j \in Pair : row'[j] = row[j] \/ (row[j] = "live" /\ row'[j] = "expired" /\ cause' # {})
      /\ \A j \in Pair : access'[j] => access[j]
      /\ cause \subseteq cause' /\ ("race" \in cause' => "race" \in cause) /\ ("lost" \in cause' => "lost" \in cause)
      /\ cause' = {} => row' = row /\ cause = {}
  BY <1>1 DEF Expire, TokensTypeOK
<1>4. \A c \in Call : call[c].pc = "renewed" \/ (call[c].again /\ call[c].pc = "sent")
                      => access'[call[c].pair] = access[call[c].pair]
  <2>1. ASSUME NEW c \in Call, call[c].pc = "renewed" \/ (call[c].again /\ call[c].pc = "sent")
        PROVE  access'[call[c].pair] = access[call[c].pair]
    <3>1. call[c].pair \in Pair
      BY <1>1, <2>1, Fields DEF CallsFit, Pair
    <3>2. CASE UNCHANGED access
      BY <3>2
    <3>3. CASE access' = [access EXCEPT ![k] = FALSE] /\ k # call[c].pair
      BY <1>1, <3>1, <3>3 DEF TokensTypeOK
    <3>4. QED BY <2>1, <3>2, <3>3 DEF Expire
  <2>2. QED BY <2>1
<1>5. \A j \in Pair : j \in guests /\ access'[j] # access[j] => cause' # {}
  BY <1>1 DEF Expire, TokensTypeOK
<1>6. IssuedInOrder'
  <2>1. \A j \in Pair : row[j] = "none" => row'[j] = "none"
    BY <1>3
  <2>2. QED BY <1>1, <1>2, <1>3, <2>1 DEF IssuedInOrder
<1>7. CallsFit'
  BY <1>1, <1>2, <1>4 DEF CallsFit, SignInCall, Refreshing, Renewed
<1>8. NewPairsAreFresh'
  <2>1. \A d \in Call : Renewed(d) => call[d].rt \in Pair
    BY <1>1, Fields DEF CallsFit, Pair
  <2>2. \A d \in Call : Renewed(d)' <=> Renewed(d)
    BY <1>2 DEF Renewed, SignInCall
  <2>3. QED BY <1>1, <1>2, <1>3, <2>1, <2>2 DEF NewPairsAreFresh
<1>9. \A j \in Pair : Claimed(j)' => Claimed(j)
  BY <1>2, <1>3 DEF Claimed
<1>10. \A j \in Pair : Using(j)' = Using(j)
  BY <1>2 DEF Using
<1>11. OneUser'
  BY <1>1, <1>2, <1>3, <1>9, <1>10 DEF OneUser
<1>12. PageHasTheToken'
  BY <1>1, <1>2, <1>3, <1>9 DEF PageHasTheToken, Refreshing, Renewed, SignInCall
<1>13. StoredTokenIsLive' /\ Undisturbed'
  <2>1. SUFFICES ASSUME cause' = {} PROVE StoredTokenIsLive' /\ Undisturbed'
    BY DEF StoredTokenIsLive, Undisturbed
  <2>2. row' = row /\ cause = {} /\ (store \in guests => access'[store] = access[store])
    BY <1>1, <1>3, <1>5, <2>1 DEF TokensTypeOK
  <2>3. StoredTokenIsLive'
    BY <1>1, <1>2, <2>2 DEF StoredTokenIsLive
  <2>4. Undisturbed'
    BY <1>1, <1>2, <2>2 DEF Undisturbed, SignInCall, Refreshing, Renewed
  <2>5. QED BY <2>3, <2>4
<1>14. QED BY <1>6, <1>7, <1>8, <1>11, <1>12, <1>13 DEF TokenInv

LEMMA DisableKeeps == ASSUME TokenInv, TokensTypeOK', Disable PROVE TokenInv'
<1>1. /\ UNCHANGED <<issued, row, access, guests, root, store, shown, call>> /\ cause' = cause \cup {"disabled"}
  BY DEF Disable
<1>2. IssuedInOrder' /\ CallsFit' /\ NewPairsAreFresh' /\ OneUser' /\ PageHasTheToken'
  BY <1>1 DEF TokenInv, IssuedInOrder, CallsFit, NewPairsAreFresh, OneUser, PageHasTheToken, SignInCall, Refreshing, Renewed,
              Claimed, Using
<1>3. StoredTokenIsLive' /\ Undisturbed'
  BY <1>1 DEF StoredTokenIsLive, Undisturbed
<1>4. QED BY <1>2, <1>3 DEF TokenInv

-----------------------------------------------------------------------------
(* Every step *)

\* Every step keeps the types.
LEMMA TokenTypesKept == ASSUME TokenInv, TokensNext PROVE TokensTypeOK'
<1>1. TokensTypeOK
  BY DEF TokenInv
<1> USE PairsAssumption, <1>1 DEF serverVars
<1>2. ASSUME NEW c \in Call, NEW t \in Tab, NEW k \in KindType, Send(c, t, k)
      PROVE  call' \in [Call -> CallType]
  BY <1>2, Sent DEF KindType
<1>3. ASSUME NEW c \in Call, NEW p \in PcType, Step(c, p) PROVE call' \in [Call -> CallType]
  BY <1>3, Stepped
<1>4. ASSUME NEW t \in Tab, Mount(t) PROVE TokensTypeOK'
  BY <1>2, <1>4 DEF Mount, TokensTypeOK, KindType
<1>5. ASSUME NEW c \in Call, NEW t \in Tab, NEW k \in Kinds, Use(c, t, k) \/ SignIn(c, t, k) PROVE TokensTypeOK'
  BY <1>2, <1>5 DEF Use, SignIn, TokensTypeOK, KindType
<1>6. ASSUME NEW c \in Call, NEW t \in Tab, Logout(c, t) PROVE TokensTypeOK'
  BY <1>2, <1>6 DEF Logout, Race, TokensTypeOK, KindType
<1>7. ASSUME NEW c \in Call, Login(c) PROVE TokensTypeOK'
  <2>1. CASE Step(c, "refused") /\ UNCHANGED <<issued, row, access, guests, root>>
    BY <1>3, <1>7, <2>1 DEF Login, TokensTypeOK, PcType, Answered
  <2>2. CASE /\ active /\ issued < MaxPairs /\ NewPair(FALSE, 0)
             /\ row' = [row EXCEPT ![issued + 1] = "live"]
             /\ call' = [call EXCEPT ![c].pc = "renewed", ![c].pair = issued + 1]
    <3>1. call' \in [Call -> CallType]
      BY <2>2, Renews
    <3>2. QED BY <1>7, <2>2, <3>1 DEF Login, NewPair, TokensTypeOK, Pair
  <2>3. QED BY <1>7, <2>1, <2>2 DEF Login
<1>8. ASSUME NEW c \in Call, GuestLogin(c) PROVE TokensTypeOK'
  <2>1. call' \in [Call -> CallType]
    BY <1>8, Renews DEF GuestLogin
  <2>2. QED BY <1>8, <2>1 DEF GuestLogin, NewPair, TokensTypeOK, Pair
<1>9. ASSUME NEW c \in Call, Serve(c) PROVE TokensTypeOK'
  <2>1. call' \in [Call -> CallType]
    BY <1>3, <1>9 DEF Serve, PcType, Answered
  <2>2. QED BY <1>9, <2>1 DEF Serve, TokensTypeOK
<1>10. ASSUME NEW c \in Call, RefreshRead(c) \/ RefreshDenied(c) PROVE TokensTypeOK'
  <2>1. call' \in [Call -> CallType]
    BY <1>3, <1>10 DEF RefreshRead, RefreshDenied, PcType, Waiting, Answered
  <2>2. QED BY <1>10, <2>1 DEF RefreshRead, RefreshDenied, TokensTypeOK
<1>11. ASSUME NEW c \in Call, RefreshCommit(c) PROVE TokensTypeOK'
  <2>1. call' \in [Call -> CallType]
    BY <1>11, Renews DEF RefreshCommit
  <2>2. call[c].rt = 0 \/ call[c].rt \in Pair
    BY Fields DEF Pair
  <2>3. QED BY <1>11, <2>1, <2>2 DEF RefreshCommit, NewPair, TokensTypeOK, Pair
<1>12. ASSUME NEW c \in Call, NEW ok \in BOOLEAN, End(c, ok), UNCHANGED <<serverVars, cause>> PROVE TokensTypeOK'
  <2>1. call' \in [Call -> CallType]
    BY <1>3, <1>12 DEF End, PcType
  <2>2. store' \in {0, store} /\ shown' \in [Tab -> {"blank", "loading", "in", "out"}]
    BY <1>12 DEF End, TokensTypeOK
  <2>3. QED BY <1>12, <2>1, <2>2 DEF TokensTypeOK
<1>13. ASSUME NEW c \in Call, SignOut(c), cause' = cause \cup Abandons(c), UNCHANGED serverVars PROVE TokensTypeOK'
  <2>1. CASE call[c].kind = "chat"
    <3>1. call' \in [Call -> CallType]
      BY <1>3, <1>13, <2>1 DEF SignOut, PcType
    <3>2. QED BY <1>13, <2>1, <3>1 DEF SignOut, Abandons, TokensTypeOK
  <2>2. CASE call[c].kind # "chat"
    <3>1. \A d \in Call : [call[d] EXCEPT !.tab = None] \in CallType
      BY DEF TokensTypeOK, CallType
    <3>2. call' \in [Call -> CallType]
      BY <1>13, <2>2, <3>1 DEF SignOut, SignOutAndReload, TokensTypeOK
    <3>3. store' = 0 /\ shown' = [shown EXCEPT ![call[c].tab] = "blank"]
      BY <1>13, <2>2 DEF SignOut, SignOutAndReload
    <3>4. shown' \in [Tab -> {"blank", "loading", "in", "out"}]
      BY <3>3 DEF TokensTypeOK
    <3>5. cause' \subseteq cause \cup {"lost"}
      BY <1>13 DEF Abandons
    <3>6. /\ issued' = issued /\ row' = row /\ access' = access /\ active' = active /\ guests' = guests /\ root' = root
      BY <1>13
    <3>7. QED BY <3>2, <3>3, <3>4, <3>5, <3>6 DEF TokensTypeOK
  <2>3. QED BY <2>1, <2>2
<1>14. ASSUME NEW c \in Call, Receive(c) PROVE TokensTypeOK'
  <2>1. UNCHANGED serverVars /\ call[c].pc \in {"ok", "unauthorized"}
    BY <1>14 DEF Receive
  <2>2. CASE call[c].pc = "ok"
    BY <1>12, <1>14, <2>1, <2>2 DEF Receive
  <2>3. CASE call[c].pc = "unauthorized" /\ call[c].again
    BY <1>12, <1>14, <2>1, <2>3 DEF Receive
  <2>4. CASE call[c].pc = "unauthorized" /\ ~call[c].again /\ (store = 0 \/ store \in guests)
    BY <1>13, <1>14, <2>1, <2>4 DEF Receive
  <2>5. CASE call[c].pc = "unauthorized" /\ ~call[c].again /\ ~(store = 0 \/ store \in guests)
    <3>1. /\ call' = [call EXCEPT ![c] = [call[c] EXCEPT !.pc = "refreshing", !.rt = store]]
          /\ cause' \subseteq cause \cup {"race"} /\ UNCHANGED <<store, shown>>
      BY <1>14, <2>5 DEF Receive, Race, TokensTypeOK
    <3>2. [call[c] EXCEPT !.pc = "refreshing", !.rt = store] \in CallType
      <4>1. store \in 0..MaxPairs /\ call[c] \in CallType
        BY Fields DEF TokensTypeOK
      <4>2. QED BY <4>1 DEF CallType, Waiting
    <3>3. call' \in [Call -> CallType]
      BY <3>1, <3>2, OneCall
    <3>4. QED BY <2>1, <3>1, <3>3 DEF TokensTypeOK
  <2>6. QED BY <2>1, <2>2, <2>3, <2>4, <2>5
<1>15. ASSUME NEW c \in Call, ReceiveTokens(c) \/ ReceiveSignIn(c) PROVE TokensTypeOK'
  <2>1. /\ call[c] \in CallType /\ call[c].pair \in 0..issued
    BY Fields DEF TokenInv, IssuedInOrder, TokensTypeOK
  <2>2. /\ [call[c] EXCEPT !.pc = "sent", !.again = TRUE] \in CallType
        /\ [call[c] EXCEPT !.pc = "sent", !.kind = "me"] \in CallType
    BY <2>1 DEF CallType, Waiting
  <2>3. call' \in [Call -> CallType]
    <3>1. \/ call' = [call EXCEPT ![c] = [call[c] EXCEPT !.pc = "sent", !.again = TRUE]]
          \/ call' = [call EXCEPT ![c] = [call[c] EXCEPT !.pc = "sent", !.kind = "me"]]
      BY <1>15 DEF ReceiveTokens, ReceiveSignIn, TokensTypeOK
    <3>2. QED BY <2>2, <3>1, OneCall
  <2>4. UNCHANGED <<serverVars, shown>> /\ store' = call[c].pair /\ cause' \subseteq cause \cup {"switch"}
    BY <1>15 DEF ReceiveTokens, ReceiveSignIn
  <2>5. QED BY <2>1, <2>3, <2>4 DEF TokensTypeOK
<1>16. ASSUME NEW c \in Call, ReceiveRefusal(c) PROVE TokensTypeOK'
  <2>1. CASE Step(c, "failed") /\ UNCHANGED <<store, shown, cause>>
    BY <1>3, <1>16, <2>1 DEF ReceiveRefusal, TokensTypeOK, PcType
  <2>2. CASE SignOut(c) /\ cause' = cause \cup Abandons(c)
    BY <1>13, <1>16, <2>2 DEF ReceiveRefusal
  <2>3. QED BY <1>16, <2>1, <2>2 DEF ReceiveRefusal
<1>17. ASSUME NEW c \in Call, Break(c) PROVE TokensTypeOK'
  <2>1. [call[c] EXCEPT !.tab = None] \in CallType
    BY DEF TokensTypeOK, CallType
  <2>2. call' = [call EXCEPT ![c] = [call[c] EXCEPT !.tab = None]]
    BY <1>17 DEF Break, TokensTypeOK
  <2>3. call' \in [Call -> CallType]
    BY <2>1, <2>2, OneCall
  <2>4. /\ UNCHANGED serverVars /\ store' \in {0, store} /\ shown' \in [Tab -> {"blank", "loading", "in", "out"}]
        /\ cause' \subseteq cause \cup {"lost", "outage"}
    BY <1>17 DEF Break, TokensTypeOK
  <2>5. QED BY <2>3, <2>4 DEF TokensTypeOK
<1>18. ASSUME NEW c \in Call, RefreshFails(c) PROVE TokensTypeOK'
  <2>1. \A d \in Call : [call[d] EXCEPT !.tab = None] \in CallType
    BY DEF TokensTypeOK, CallType
  <2>2. call' \in [Call -> CallType]
    <3>1. CASE call[c].kind = "chat"
      <4>1. call' = [call EXCEPT ![c] = [call[c] EXCEPT !.tab = None]]
        BY <1>18, <3>1 DEF RefreshFails, TokensTypeOK
      <4>2. QED BY <2>1, <4>1, OneCall
    <3>2. CASE call[c].kind # "chat"
      BY <1>18, <2>1, <3>2 DEF RefreshFails, SignOutAndReload, TokensTypeOK
    <3>3. QED BY <3>1, <3>2
  <2>3. store' = 0 /\ (shown' = shown \/ shown' = [shown EXCEPT ![call[c].tab] = "blank"])
    BY <1>18 DEF RefreshFails, SignOutAndReload
  <2>4. UNCHANGED serverVars /\ cause' = cause \cup {"outage", "lost"}
    BY <1>18 DEF RefreshFails
  <2>5. shown' \in [Tab -> {"blank", "loading", "in", "out"}]
    BY <2>3 DEF TokensTypeOK
  <2>6. QED BY <2>2, <2>3, <2>4, <2>5 DEF TokensTypeOK
<1>19. ASSUME NEW k \in Pair, Expire(k) PROVE TokensTypeOK'
  BY <1>19 DEF Expire, TokensTypeOK
<1>20. ASSUME Disable PROVE TokensTypeOK'
  BY <1>20 DEF Disable, TokensTypeOK
<1>21. QED
  BY <1>4, <1>5, <1>6, <1>7, <1>8, <1>9, <1>10, <1>11, <1>14, <1>15, <1>16, <1>17, <1>18, <1>19, <1>20 DEF TokensNext

\* Every step keeps the invariant.
LEMMA TokenStep == ASSUME TokenInv, TokensNext PROVE TokenInv'
<1>1. TokensTypeOK'
  BY TokenTypesKept
<1>2. ASSUME NEW c \in Call, Login(c) PROVE TokenInv'
  <2>1. CASE call'[c].pc = "renewed"
    BY <1>1, <1>2, <2>1, Issues
  <2>2. CASE call'[c].pc # "renewed"
    <3>1. issued < MaxPairs /\ call' = [call EXCEPT ![c].pc = "renewed", ![c].pair = issued + 1] => call'[c].pc = "renewed"
      BY Renews DEF TokenInv
    <3>2. ~active /\ Step(c, "refused") /\ UNCHANGED <<issued, row, access, active, guests, root, store, shown, cause>>
      BY <1>2, <2>2, <3>1 DEF Login
    <3>3. call[c].pc = "sent" /\ SignInCall(c) /\ cause # {} /\ "refused" \in PcType
      BY <1>2, <3>2 DEF Login, SignInCall, TokenInv, Undisturbed, PcType, Answered
    <3>4. QED BY <1>1, <3>2, <3>3, Moves
  <2>3. QED BY <2>1, <2>2
<1>3. ASSUME NEW c \in Call, RefreshRead(c) PROVE TokenInv'
  <2>1. UNCHANGED <<issued, row, access, active, guests, root, store, shown, cause>> /\ Refreshing(c)
    BY <1>3 DEF RefreshRead, serverVars, Refreshing
  <2>2. CASE row[call[c].rt] = "live"
    <3>1. call[c].pc = "refreshing" /\ Step(c, "checked") /\ "checked" \in PcType
      BY <1>3, <2>2 DEF RefreshRead, PcType, Waiting
    <3>2. QED BY <1>1, <2>1, <2>2, <3>1, Moves
  <2>3. CASE row[call[c].rt] # "live"
    <3>1. Step(c, "refused") /\ "refused" \in PcType /\ cause # {}
      BY <1>3, <2>1, <2>3 DEF RefreshRead, PcType, Answered, TokenInv, Undisturbed
    <3>2. QED BY <1>1, <2>1, <3>1, Moves
  <2>4. QED BY <2>2, <2>3
<1>4. ASSUME NEW c \in Call, RefreshDenied(c) PROVE TokenInv'
  <2>1. /\ UNCHANGED <<issued, row, access, active, guests, root, store, shown, cause>> /\ Refreshing(c)
        /\ Step(c, "refused") /\ "refused" \in PcType /\ cause # {}
    BY <1>4 DEF RefreshDenied, serverVars, Refreshing, PcType, Answered, TokenInv, Undisturbed
  <2>2. QED BY <1>1, <2>1, Moves
<1>5. ASSUME NEW c \in Call, GuestLogin(c) \/ RefreshCommit(c) PROVE TokenInv'
  BY <1>1, <1>5, Issues
<1>6. ASSUME NEW c \in Call, \/ Serve(c) \/ Receive(c) \/ ReceiveTokens(c) \/ ReceiveSignIn(c)
                             \/ ReceiveRefusal(c) \/ RefreshFails(c) \/ Break(c)
      PROVE  TokenInv'
  BY <1>1, <1>6, ServeKeeps, ReceiveKeeps, TokensArrive, ReceiveRefusalKeeps, RefreshFailsKeeps, BreakKeeps
<1>7. ASSUME NEW t \in Tab, Mount(t) PROVE TokenInv'
  BY <1>1, <1>7, MountKeeps
<1>8. ASSUME NEW c \in Call, NEW t \in Tab, Logout(c, t) PROVE TokenInv'
  BY <1>1, <1>8, LogoutKeeps
<1>9. ASSUME NEW c \in Call, NEW t \in Tab, NEW k \in Kinds, Use(c, t, k) \/ SignIn(c, t, k) PROVE TokenInv'
  BY <1>1, <1>9, UseKeeps, SignInKeeps
<1>10. ASSUME NEW k \in Pair, Expire(k) PROVE TokenInv'
  BY <1>1, <1>10, ExpireKeeps
<1>11. ASSUME Disable PROVE TokenInv'
  BY <1>1, <1>11, DisableKeeps
<1>12. QED BY <1>2, <1>3, <1>4, <1>5, <1>6, <1>7, <1>8, <1>9, <1>10, <1>11 DEF TokensNext

\* It holds before the first page is loaded, and when nothing happens.
LEMMA TokenStart == TokensInit => TokenInv
<1> SUFFICES ASSUME TokensInit PROVE TokenInv
  OBVIOUS
<1>1. \A c \in Call : /\ call[c] = NoCall /\ call[c].pc = "idle" /\ call[c].kind = "data" /\ call[c].pair = 0
                     /\ call[c].body = 0 /\ call[c].rt = 0 /\ ~call[c].again
  BY DEF TokensInit, NoCall
<1>2. TokensTypeOK
  <2>1. NoCall \in CallType
    BY PairsAssumption DEF NoCall, CallType
  <2>2. QED BY <2>1, PairsAssumption DEF TokensInit, TokensTypeOK, Pair
<1>3. IssuedInOrder
  BY <1>1, PairsAssumption DEF TokensInit, IssuedInOrder, Pair
<1>4. CallsFit /\ NewPairsAreFresh
  BY <1>1 DEF TokensInit, CallsFit, NewPairsAreFresh, SignInCall, Refreshing, Renewed
<1>5. \A j \in Pair : ~Claimed(j) /\ Using(j) = {}
  BY <1>1 DEF TokensInit, Claimed, Using, Pair
<1>6. OneUser /\ PageHasTheToken
  BY <1>1, <1>5 DEF TokensInit, OneUser, PageHasTheToken, SignInCall, Refreshing, Renewed
<1>7. Undisturbed /\ StoredTokenIsLive
  BY <1>1 DEF TokensInit, Undisturbed, StoredTokenIsLive, SignInCall, Refreshing, Renewed
<1>8. QED BY <1>2, <1>3, <1>4, <1>6, <1>7 DEF TokenInv

LEMMA TokenStutter == TokenInv /\ UNCHANGED tokens => TokenInv'
<1> SUFFICES ASSUME TokenInv, UNCHANGED tokens PROVE TokenInv'
  OBVIOUS
<1>1. /\ issued' = issued /\ row' = row /\ access' = access /\ active' = active /\ store' = store /\ guests' = guests
      /\ shown' = shown /\ call' = call /\ root' = root /\ cause' = cause
  BY DEF tokens
<1>2. QED BY <1>1 DEF TokenInv, TokensTypeOK, IssuedInOrder, CallsFit, NewPairsAreFresh, OneUser, PageHasTheToken,
                      Undisturbed, StoredTokenIsLive, SignInCall, Refreshing, Renewed, Claimed, Using

-----------------------------------------------------------------------------
(* Theorems *)

\* The inductive invariant: whatever calls, tabs, reloads, lost answers and expiries
\* meet, pairs, rows, calls and the storage stay consistent (auth/routes.py, client.ts).
THEOREM TokensAreConsistent == TokensSpec => []TokenInv
BY TokenStart, TokenStep, TokenStutter, PTL DEF TokensSpec

\* Rotation (refresh in auth/routes.py revokes before it issues): unless one token is used twice at
\* once, a sign-in has at most one live refresh token, however many are lost.
THEOREM RotationLeavesOneToken == TokensSpec => []OneLiveTokenPerSignIn
<1>1. TokenInv => OneLiveTokenPerSignIn
  BY DEF TokenInv, OneUser, OneLiveTokenPerSignIn, Claimed
<1>2. QED BY <1>1, TokensAreConsistent, PTL

\* As long as nothing happened that can end a session, the refresh token in the
\* storage is the one the server accepts, or its successor is on the way.
THEOREM StoredTokenStaysLive == TokensSpec => []StoredTokenIsLive
<1>1. TokenInv => StoredTokenIsLive
  BY DEF TokenInv
<1>2. QED BY <1>1, TokensAreConsistent, PTL

\* A logout carried out at the first attempt leaves no live token of its sign-in,
\* unless a token was used twice at once or the answer of a refresh was lost.
THEOREM LogoutRevokesTheSignIn == TokensSpec => []LogoutEndsSignIn
<1>1. TokenInv => LogoutEndsSignIn
  BY DEF TokenInv, PageHasTheToken, LogoutEndsSignIn, Claimed
<1>2. QED BY <1>1, TokensAreConsistent, PTL

\* While nothing has happened no step empties the storage.
LEMMA StorageIsKept == ASSUME TokenInv, TokensNext, store # 0, store' = 0 PROVE cause' # {}
<1>1. SUFFICES ASSUME cause' = {} PROVE FALSE
  OBVIOUS
<1>2. CallsFit /\ Undisturbed
  BY DEF TokenInv
<1>3. ASSUME NEW t \in Tab, Mount(t) PROVE FALSE
  BY <1>3 DEF Mount
<1>4. ASSUME NEW c \in Call, NEW t \in Tab, NEW k \in Kinds, Use(c, t, k) \/ SignIn(c, t, k) PROVE FALSE
  BY <1>4 DEF Use, SignIn
<1>5. ASSUME NEW c \in Call, NEW t \in Tab, Logout(c, t) PROVE FALSE
  BY <1>1, <1>5 DEF Logout
<1>6. ASSUME NEW c \in Call, Login(c) \/ GuestLogin(c) \/ Serve(c) \/ RefreshRead(c) \/ RefreshCommit(c) \/ RefreshDenied(c)
      PROVE  FALSE
  BY <1>6 DEF Login, GuestLogin, Serve, RefreshRead, RefreshCommit, RefreshDenied
<1>7. ASSUME NEW c \in Call, Receive(c) PROVE FALSE
  <2>1. cause = {}
    BY <1>1, <1>7 DEF Receive
  <2>2. CASE End(c, TRUE) /\ call[c].pc = "ok"
    BY <1>2, <2>1, <2>2 DEF End, Undisturbed
  <2>3. CASE call[c].pc = "unauthorized" /\ call[c].again
    BY <1>2, <2>1, <2>3 DEF Undisturbed
  <2>4. CASE call[c].pc = "unauthorized" /\ ~call[c].again /\ (store = 0 \/ store \in guests)
    BY <1>2, <2>1, <2>4 DEF Undisturbed, CallsFit
  <2>5. CASE call[c].pc = "unauthorized" /\ ~call[c].again /\ ~(store = 0 \/ store \in guests)
    BY <1>7, <2>5 DEF Receive
  <2>6. QED BY <1>7, <2>2, <2>3, <2>4, <2>5 DEF Receive
<1>8. ASSUME NEW c \in Call, ReceiveTokens(c) \/ ReceiveSignIn(c) PROVE FALSE
  BY <1>2, <1>8 DEF ReceiveTokens, ReceiveSignIn, CallsFit
<1>9. ASSUME NEW c \in Call, ReceiveRefusal(c) PROVE FALSE
  <2>1. cause = {}
    BY <1>1, <1>9 DEF ReceiveRefusal
  <2>2. QED BY <1>2, <1>9, <2>1 DEF ReceiveRefusal, Undisturbed
<1>10. ASSUME NEW c \in Call, RefreshFails(c) \/ Break(c) PROVE FALSE
  <2>1. ~RefreshFails(c)
    BY <1>1 DEF RefreshFails
  <2>2. Break(c) => cause = {} /\ call[c].kind \in {"me", "logout"}
    BY <1>1 DEF Break
  <2>3. call[c].kind = "me" => ~Break(c)
    BY <1>1 DEF Break
  <2>4. QED BY <1>2, <1>10, <2>1, <2>2, <2>3 DEF Undisturbed
<1>11. ASSUME NEW k \in Pair, Expire(k) PROVE FALSE
  BY <1>11 DEF Expire
<1>12. ~Disable
  BY DEF Disable
<1>13. QED BY <1>3, <1>4, <1>5, <1>6, <1>7, <1>8, <1>9, <1>10, <1>11, <1>12 DEF TokensNext

\* The storage is emptied only after something that can end a session.
THEOREM NobodyIsSignedOutWithoutCause == TokensSpec => SignOutExplained
<1>1. TokenInv /\ [TokensNext]_tokens => [store # 0 /\ store' = 0 => cause' # {}]_tokens
  BY StorageIsKept
<1>2. QED BY <1>1, TokensAreConsistent, PTL DEF TokensSpec, SignOutExplained
===============================================================================
