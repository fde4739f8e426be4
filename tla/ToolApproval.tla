---------------------------- MODULE ToolApproval ----------------------------
(***************************************************************************)
(* What human-in-the-loop approval promises for a chat turn whose tool     *)
(* calls were proposed by the single-round ("legacy") tool path: either    *)
(* nobody is asked and the batch of calls runs, or the batch waits for the *)
(* user and is then run, refused or dropped -- one of them, once, for good.*)
(***************************************************************************)
CONSTANT Turn

VARIABLES phase,  \* where the turn's batch of tool calls stands
          ran     \* whether the batch has been executed

vars == <<phase, ran>>

Phase == {"open", "waiting", "approved", "refused", "dropped"}

TypeOK == /\ phase \in [Turn -> Phase]
          /\ ran \in [Turn -> BOOLEAN]

Init == /\ phase = [t \in Turn |-> "open"]
        /\ ran = [t \in Turn |-> FALSE]

Waiting == {t \in Turn : phase[t] = "waiting"}

\* Turns in D stop waiting without an answer.
WithDropped(D) == [t \in Turn |-> IF t \in D THEN "dropped" ELSE phase[t]]

\* No approval was requested: the batch runs with the turn.
RunUnasked(t) == /\ phase[t] = "open" /\ ~ran[t]
                 /\ ran' = [ran EXCEPT ![t] = TRUE]
                 /\ UNCHANGED phase

\* Approval is requested.  A thread holds one question, so asking may drop
\* a question that was still open.
Ask(t) == /\ phase[t] = "open" /\ ~ran[t]
          /\ \E D \in SUBSET Waiting :
                phase' = [WithDropped(D) EXCEPT ![t] = "waiting"]
          /\ UNCHANGED ran

Approve(t) == /\ phase[t] = "waiting" /\ ~ran[t]
              /\ phase' = [phase EXCEPT ![t] = "approved"]
              /\ ran' = [ran EXCEPT ![t] = TRUE]

Refuse(t) == /\ phase[t] = "waiting"
             /\ phase' = [phase EXCEPT ![t] = "refused"]
             /\ UNCHANGED ran

\* Expiry, restart, a lost connection or a newer question.
Drop == /\ \E D \in (SUBSET Waiting) \ {{}} : phase' = WithDropped(D)
        /\ UNCHANGED ran

Next == \/ \E t \in Turn : RunUnasked(t) \/ Ask(t) \/ Approve(t) \/ Refuse(t)
        \/ Drop

Spec == Init /\ [][Next]_vars
=============================================================================
