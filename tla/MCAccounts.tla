----------------------------- MODULE MCAccounts -----------------------------
(***************************************************************************)
(* Who may use the server: the quota of a tenant, and the tokens of the    *)
(* browsers, once with refreshes and once with guests.  The parts share no *)
(* state, so in a behaviour one of them runs and the others rest.          *)
(***************************************************************************)
EXTENDS Quota, TokenRefresh, TLC

VARIABLE part

\* The same pages without logouts, where guests may sign in.
Guests == INSTANCE TokenRefresh WITH Kinds <- {"chat", "login", "guest"}

AccountsInit ==
  /\ Init /\ TokensInit
  /\ part \in {"quota", "rotate", "guests"}
  /\ part # "quota" => action = [r \in Req |-> "chat"] /\ limit = [a \in Action |-> 1]

AccountsNext ==
  \/ part = "quota" /\ Next /\ UNCHANGED <<part, tokens>>
  \/ part = "rotate" /\ TokensNext /\ UNCHANGED <<part, vars>>
  \/ part = "guests" /\ Guests!TokensNext /\ issued' < MaxPairs /\ UNCHANGED <<part, vars>>   \* bound: one pair less

AccountsSpec == AccountsInit /\ [][AccountsNext]_<<part, vars, tokens>>

\* The requests and the calls have the same names.
Symmetry == Permutations(Req) \cup Permutations(Tab)
=============================================================================
