---------------------------- MODULE TokenRefresh ----------------------------
(***************************************************************************)
(* Access and refresh tokens of one browser.  Its tabs share the storage;  *)
(* each call of the API sends the stored access token and on a 401 trades  *)
(* the stored refresh token for a new pair, then is sent once more.  The   *)
(* server keeps one row per refresh token and revokes it when it is used.  *)
(* The two tokens of an answer are stored and removed together, so a pair  *)
(* is one number: access token k, refresh token k.                         *)
(***************************************************************************)
EXTENDS Naturals, FiniteSets

CONSTANTS
  Call,      \* calls of the API, each used once
  Tab,       \* tabs of the browser
  None,      \* no tab: the page that made the call was reloaded
  Kinds,     \* bound: the calls the pages make
  MaxPairs   \* bound: token pairs the server issues

ASSUME NoneAssumption == None \notin Tab
ASSUME PairsAssumption == Kinds \subseteq {"data", "chat", "logout", "login", "guest"} /\ MaxPairs \in Nat

VARIABLES
  \* server
  issued,  \* pairs handed out so far
  row,     \* Pair -> its refresh token's row
  access,  \* Pair -> its access token has not expired
  active,  \* users.status of the account
  \* browser
  store,   \* the pair in localStorage, 0 for none
  guests,  \* the pairs of guests; they have no refresh token
  shown,   \* Tab -> what the page shows
  call,    \* Call -> the call's progress
  \* observers
  root,    \* Pair -> the pair of the sign-in it descends from
  cause    \* what happened that can end a session

tokens == <<issued, row, access, active, store, guests, shown, call, root, cause>>

Pair == 1..MaxPairs
Waiting == {"sent", "refreshing", "checked"}       \* the server has the request
Answered == {"ok", "unauthorized", "renewed", "refused"}
NoCall == [pc |-> "idle", kind |-> "data", tab |-> None, pair |-> 0,
           body |-> 0, rt |-> 0, again |-> FALSE]

CallType == [pc : {"idle", "done", "failed"} \cup Waiting \cup Answered,
             kind : {"me", "data", "chat", "logout", "login", "guest"},
             tab : Tab \cup {None}, pair : 0..MaxPairs,
             body : 0..MaxPairs, rt : 0..MaxPairs, again : BOOLEAN]

TokensTypeOK ==
  /\ issued \in 0..MaxPairs /\ store \in 0..issued
  /\ row \in [Pair -> {"none", "live", "revoked", "expired"}]
  /\ access \in [Pair -> BOOLEAN] /\ active \in BOOLEAN
  /\ guests \subseteq Pair
  /\ shown \in [Tab -> {"blank", "loading", "in", "out"}]
  /\ call \in [Call -> CallType]
  /\ root \in [Pair -> 0..MaxPairs]
  /\ cause \subseteq {"logout", "disabled", "expired", "lost", "outage", "race", "switch"}

TokensInit ==
  /\ issued = 0 /\ store = 0 /\ guests = {} /\ active = TRUE /\ cause = {}
  /\ row = [k \in Pair |-> "none"] /\ access = [k \in Pair |-> FALSE]
  /\ root = [k \in Pair |-> 0]
  /\ shown = [t \in Tab |-> "blank"]
  /\ call = [c \in Call |-> NoCall]

SignInCall(c) == call[c].kind \in {"login", "guest"}
Refreshing(c) == call[c].pc \in {"refreshing", "checked"}
Renewed(c) == call[c].pc = "renewed" /\ ~SignInCall(c)   \* by a refresh

Step(c, pc) == call' = [call EXCEPT ![c].pc = pc]
serverVars == <<issued, row, access, active, guests, root>>

\* Calls that use refresh token k and whose answer has not been handled.
Using(k) == {c \in Call : /\ \/ call[c].rt = k /\ call[c].pc \in {"refreshing", "checked", "renewed", "refused"}
                             \/ call[c].kind = "logout" /\ call[c].body = k
                          /\ call[c].pc \in Waiting \/ (call[c].tab # None /\ call[c].pc \in Answered)}
Race(k) == IF k # 0 /\ Using(k) # {} THEN {"race"} ELSE {}

-----------------------------------------------------------------------------
(* The page sends a call *)

Send(c, t, kind) ==
  call' = [call EXCEPT ![c] = [NoCall EXCEPT !.pc = "sent", !.kind = kind, !.tab = t, !.pair = store,
             !.body = IF kind = "logout" THEN store ELSE 0]]

\* The page is loaded: with a stored token the user is fetched.
Mount(t) ==
  /\ shown[t] = "blank"
  /\ \/ store = 0 /\ shown' = [shown EXCEPT ![t] = "out"] /\ UNCHANGED call
     \/ /\ store # 0 /\ shown' = [shown EXCEPT ![t] = "loading"]
        /\ \E c \in Call : call[c].pc = "idle" /\ Send(c, t, "me")
  /\ UNCHANGED <<serverVars, store, cause>>

\* Any call of a signed-in page.  A logout sends the refresh token it finds now.
Use(c, t, kind) ==
  /\ call[c].pc = "idle" /\ shown[t] = "in" /\ kind \in {"data", "chat"} \cap Kinds
  /\ Send(c, t, kind)
  /\ UNCHANGED <<serverVars, store, shown, cause>>

Logout(c, t) ==
  /\ call[c].pc = "idle" /\ shown[t] = "in" /\ "logout" \in Kinds
  /\ cause' = cause \cup {"logout"} \cup (IF store \in guests THEN {} ELSE Race(store))
  /\ IF store = 0 \/ store \in guests     \* no refresh token: nothing is sent
     THEN /\ store' = 0 /\ shown' = [shown EXCEPT ![t] = "out"] /\ UNCHANGED call
     ELSE Send(c, t, "logout") /\ UNCHANGED <<store, shown>>
  /\ UNCHANGED serverVars

SignIn(c, t, kind) ==
  /\ call[c].pc = "idle" /\ shown[t] = "out" /\ kind \in {"login", "guest"} \cap Kinds
  /\ \A d \in Call : call[d].tab = t => call[d].pc \in {"done", "failed"}   \* the form is disabled
  /\ Send(c, t, kind)
  /\ UNCHANGED <<serverVars, store, shown, cause>>

-----------------------------------------------------------------------------
(* The server *)

\* Mutant: tokens carry no fresh id.
NewPair_Mutation(isGuest, from) ==
  /\ issued' = issued
  /\ access' = [access EXCEPT ![issued + 1] = TRUE]
  /\ guests' = IF isGuest THEN guests \cup {issued + 1} ELSE guests
  /\ root' = [root EXCEPT ![issued + 1] = from]
NewPair(isGuest, from) ==
  LET k == issued + 1 IN
  /\ issued' = k
  /\ access' = [access EXCEPT ![k] = TRUE]
  /\ guests' = IF isGuest THEN guests \cup {k} ELSE guests
  /\ root' = [root EXCEPT ![k] = IF from = 0 THEN k ELSE root[from]]

\* register and login issue a pair; a disabled account is refused.
Login(c) ==
  /\ call[c].pc = "sent" /\ call[c].kind = "login"
  /\ \/ /\ ~active /\ Step(c, "refused")
        /\ UNCHANGED <<issued, row, access, guests, root>>
     \/ /\ active /\ issued < MaxPairs /\ NewPair(FALSE, 0)
        /\ row' = [row EXCEPT ![issued + 1] = "live"]
        /\ call' = [call EXCEPT ![c].pc = "renewed", ![c].pair = issued + 1]
  /\ UNCHANGED <<active, store, shown, cause>>

\* A guest gets an access token and no refresh token.
GuestLogin(c) ==
  /\ call[c].pc = "sent" /\ call[c].kind = "guest"
  /\ issued < MaxPairs /\ NewPair(TRUE, 0)
  /\ call' = [call EXCEPT ![c].pc = "renewed", ![c].pair = issued + 1]
  /\ UNCHANGED <<row, active, store, shown, cause>>

\* get_current_user: a valid access token of an active user.
Authorized(c) == LET k == call[c].pair IN k # 0 /\ access[k] /\ (k \in guests \/ active)

\* Mutant: logout reads the row and forgets to revoke it.
Serve_Mutation(c) ==
  /\ call[c].pc = "sent" /\ call[c].kind \notin {"login", "guest"}
  /\ Step(c, IF Authorized(c) THEN "ok" ELSE "unauthorized")
  /\ UNCHANGED <<serverVars, store, shown, cause>>
Serve(c) ==
  /\ call[c].pc = "sent" /\ call[c].kind \notin {"login", "guest"}
  /\ Step(c, IF Authorized(c) THEN "ok" ELSE "unauthorized")
  /\ row' = IF call[c].kind = "logout" /\ Authorized(c) /\ row[call[c].body] = "live"
            THEN [row EXCEPT ![call[c].body] = "revoked"] ELSE row
  /\ UNCHANGED <<issued, access, active, guests, root, store, shown, cause>>

\* The first query of refresh: an unrevoked row of a token that has not expired.
\* Mutant: the query drops RefreshToken.revoked.is_(False).
RefreshRead_Mutation(c) ==
  /\ call[c].pc = "refreshing"
  /\ Step(c, IF row[call[c].rt] \in {"live", "revoked"} THEN "checked" ELSE "refused")
  /\ UNCHANGED <<serverVars, store, shown, cause>>
RefreshRead(c) ==
  /\ call[c].pc = "refreshing"
  /\ Step(c, IF row[call[c].rt] = "live" THEN "checked" ELSE "refused")
  /\ UNCHANGED <<serverVars, store, shown, cause>>

\* The rest of refresh: revoke, check the user, issue; a 401 rolls all back.
\* Mutant: the new token's row is not added.
RefreshCommit_Mutation(c) ==
  /\ call[c].pc = "checked" /\ active
  /\ issued < MaxPairs /\ NewPair(FALSE, call[c].rt)
  /\ row' = [row EXCEPT ![call[c].rt] = "revoked"]
  /\ call' = [call EXCEPT ![c].pc = "renewed", ![c].pair = issued + 1]
  /\ UNCHANGED <<active, store, shown, cause>>
RefreshCommit(c) ==
  /\ call[c].pc = "checked" /\ active
  /\ issued < MaxPairs /\ NewPair(FALSE, call[c].rt)
  /\ row' = [row EXCEPT ![call[c].rt] = "revoked", ![issued + 1] = "live"]
  /\ call' = [call EXCEPT ![c].pc = "renewed", ![c].pair = issued + 1]
  /\ UNCHANGED <<active, store, shown, cause>>

RefreshDenied(c) ==
  /\ call[c].pc = "checked" /\ ~active
  /\ Step(c, "refused")
  /\ UNCHANGED <<serverVars, store, shown, cause>>

-----------------------------------------------------------------------------
(* The page receives the answer *)

\* Where the call ends: a failed "me" and any logout forget the tokens.
End(c, ok) ==
  LET t == call[c].tab  k == call[c].kind IN
  /\ Step(c, IF ok THEN "done" ELSE "failed")
  /\ store' = IF k = "logout" \/ (k = "me" /\ ~ok) THEN 0 ELSE store
  /\ shown' = IF k = "me" THEN [shown EXCEPT ![t] = IF ok THEN "in" ELSE "out"]
              ELSE IF k = "logout" THEN [shown EXCEPT ![t] = "out"] ELSE shown

\* The tokens go and the page is reloaded: nothing waits for its calls any more.
SignOutAndReload(c) ==
  /\ store' = 0
  /\ shown' = [shown EXCEPT ![call[c].tab] = "blank"]
  /\ call' = [d \in Call |-> IF call[d].tab = call[c].tab /\ call[d].pc \in Waiting \cup Answered
                             THEN [call[d] EXCEPT !.tab = None] ELSE call[d]]

\* The streaming calls end with an error message instead.
SignOut(c) ==
  IF call[c].kind = "chat"
  THEN store' = 0 /\ Step(c, "failed") /\ UNCHANGED shown
  ELSE SignOutAndReload(c)

Abandons(c) == IF \E d \in Call \ {c} : call[d].tab = call[c].tab /\ call[d].pc \in Waiting \cup Answered
               THEN {"lost"} ELSE {}

Receive(c) ==
  /\ call[c].tab # None /\ call[c].pc \in {"ok", "unauthorized"}
  /\ \/ call[c].pc = "ok" /\ End(c, TRUE) /\ UNCHANGED cause
     \/ /\ call[c].pc = "unauthorized" /\ call[c].again       \* one retry only
        /\ End(c, FALSE) /\ UNCHANGED cause
     \/ /\ call[c].pc = "unauthorized" /\ ~call[c].again
        /\ IF store = 0 \/ store \in guests
           THEN SignOut(c) /\ cause' = cause \cup Abandons(c)
           ELSE /\ call' = [call EXCEPT ![c].pc = "refreshing", ![c].rt = store]
                /\ cause' = cause \cup Race(IF call[c].kind = "logout" /\ call[c].body = store THEN 0 ELSE store)
                /\ UNCHANGED <<store, shown>>
  /\ UNCHANGED serverVars

\* The new tokens are stored and the call goes out again, once.
ReceiveTokens(c) ==
  /\ call[c].tab # None /\ call[c].pc = "renewed" /\ call[c].kind \notin {"login", "guest"}
  /\ store' = call[c].pair
  /\ call' = [call EXCEPT ![c].pc = "sent", ![c].again = TRUE]
  /\ UNCHANGED <<serverVars, shown, cause>>

\* A sign-in stores its tokens and fetches the user.
ReceiveSignIn(c) ==
  /\ call[c].tab # None /\ call[c].pc = "renewed" /\ call[c].kind \in {"login", "guest"}
  /\ store' = call[c].pair
  /\ call' = [call EXCEPT ![c].pc = "sent", ![c].kind = "me"]
  /\ cause' = IF store # 0 THEN cause \cup {"switch"} ELSE cause
  /\ UNCHANGED <<serverVars, shown>>

ReceiveRefusal(c) ==
  /\ call[c].tab # None /\ call[c].pc = "refused"
  /\ IF call[c].kind \in {"login", "guest"}
     THEN Step(c, "failed") /\ UNCHANGED <<store, shown, cause>>
     ELSE SignOut(c) /\ cause' = cause \cup Abandons(c)
  /\ UNCHANGED serverVars

\* The refresh is answered 5xx or 429, by the server or by a gateway before it: any
\* status but 2xx signs the page out.  The server may still go on with the request.
RefreshFails(c) ==
  /\ call[c].tab # None /\ (Refreshing(c) \/ Renewed(c))
  /\ IF call[c].kind = "chat"
     THEN store' = 0 /\ call' = [call EXCEPT ![c].tab = None] /\ UNCHANGED shown
     ELSE SignOutAndReload(c)
  /\ cause' = cause \cup {"outage", "lost"}
  /\ UNCHANGED serverVars

\* The connection breaks, or a request other than a refresh is answered 5xx or 429:
\* the call throws.  The server may still work on the request.
Break(c) ==
  LET t == call[c].tab  k == call[c].kind IN
  /\ t # None /\ call[c].pc \in Waiting \cup Answered
  /\ call' = [call EXCEPT ![c].tab = None]
  /\ store' = IF k \in {"logout", "me"} THEN 0 ELSE store
  /\ shown' = IF k \in {"logout", "me"} THEN [shown EXCEPT ![t] = "out"] ELSE shown
  /\ cause' = cause \cup (IF Refreshing(c) \/ Renewed(c) THEN {"lost"} ELSE {})
                    \cup (IF k = "me" THEN {"outage"} ELSE {})
  /\ UNCHANGED serverVars

\* An access token outlives the retry it was issued for.
Expire(k) ==
  /\ \/ /\ access[k] /\ \A c \in Call : call[c].pair = k =>
             call[c].pc # "renewed" /\ ~(call[c].again /\ call[c].pc = "sent")
        /\ access' = [access EXCEPT ![k] = FALSE]
        /\ cause' = IF k \in guests THEN cause \cup {"expired"} ELSE cause
        /\ UNCHANGED row
     \/ /\ row[k] = "live" /\ row' = [row EXCEPT ![k] = "expired"]
        /\ cause' = cause \cup {"expired"} /\ UNCHANGED access
  /\ UNCHANGED <<issued, active, guests, root, store, shown, call>>

\* An administrator disables the account.
Disable ==
  /\ active /\ active' = FALSE /\ cause' = cause \cup {"disabled"}
  /\ UNCHANGED <<issued, row, access, guests, root, store, shown, call>>

TokensNext ==
  \/ \E t \in Tab : Mount(t)
  \/ \E c \in Call, t \in Tab : \/ \E k \in Kinds : Use(c, t, k) \/ SignIn(c, t, k)
                                \/ Logout(c, t)
  \/ \E c \in Call : \/ Login(c) \/ GuestLogin(c) \/ Serve(c) \/ RefreshRead(c) \/ RefreshCommit(c) \/ RefreshDenied(c)
                     \/ Receive(c) \/ ReceiveTokens(c) \/ ReceiveSignIn(c) \/ ReceiveRefusal(c)
                     \/ RefreshFails(c) \/ Break(c)
  \/ \E k \in Pair : Expire(k)
  \/ Disable

TokensSpec == TokensInit /\ [][TokensNext]_tokens

-----------------------------------------------------------------------------
(* Properties *)

\* Nobody is signed out without a cause: the storage is emptied only after a
\* logout, a disabled account, an expired token, a lost answer of a refresh, an
\* outage while the page was loading or a token was refreshed, a second sign-in
\* from another tab, or two uses of one refresh token at the same time.  (Any other
\* call may break, or fail with an error, at any point: that is no cause.)
SignOutExplained == [][store # 0 /\ store' = 0 => cause' # {}]_tokens

\* As long as none of these happened the stored refresh token is the one the
\* server will accept, unless its successor is on the way to the page.
StoredTokenIsLive ==
  cause = {} /\ store # 0 /\ store \notin guests
    => \/ row[store] = "live"
       \/ \E c \in Call : call[c].pc = "renewed" /\ call[c].rt = store

\* Rotation: of the tokens that descend from one sign-in at most one is live,
\* whatever is lost or retried, unless one token was used twice at once.
OneLiveTokenPerSignIn ==
  "race" \notin cause =>
    \A j, k \in Pair : row[j] = "live" /\ row[k] = "live" /\ root[j] = root[k] => j = k

\* A logout the server carried out at the first attempt leaves no live token of
\* that sign-in.  (One whose access token had expired is refreshed and repeated
\* with the token it was called with, and leaves the successor live; and so does
\* a refresh whose answer was lost and that the server commits after the logout
\* was sent.)
LogoutEndsSignIn ==
  {"race", "lost"} \cap cause = {} =>
    \A c \in Call : call[c].kind = "logout" /\ call[c].pc = "done" /\ ~call[c].again
      => \A k \in Pair : root[k] = root[call[c].body] => row[k] # "live"

\* A page says "登录已过期，请重新登录" and forgets the tokens only if the refresh
\* token it forgets is no longer live on the server.  Does not hold (README, section 4).
SignedOutOnlyIfExpired ==
  [][\A c \in Call : active /\ (ReceiveRefusal(c) \/ RefreshFails(c)) /\ store' # store
       => row[store] # "live"]_tokens

-----------------------------------------------------------------------------
(* The inductive invariant *)

\* A refresh token that is accepted, or was when its refresh began.
Claimed(j) == row[j] = "live" \/ \E c \in Call : call[c].pc = "checked" /\ call[c].rt = j

\* Pairs are numbered in the order of their issue.
IssuedInOrder ==
  /\ \A k \in Pair : IF k > issued
                     THEN row[k] = "none" /\ root[k] = 0 /\ ~access[k] /\ k \notin guests
                     ELSE root[k] \in 1..k /\ (k \in guests => row[k] = "none")
  /\ \A c \in Call : call[c].pair <= issued /\ call[c].body <= issued /\ call[c].rt <= issued

\* What a call knows at each point of its way.
CallsFit ==
  \A c \in Call :
    /\ call[c].pc = "idle" => call[c] = NoCall
    /\ call[c].body # 0 <=> call[c].kind = "logout"
    /\ call[c].body \notin guests /\ call[c].rt \notin guests
    /\ SignInCall(c) => /\ call[c].pc \in {"sent", "renewed", "refused", "failed"}
                        /\ call[c].rt = 0 /\ ~call[c].again
    /\ Refreshing(c) \/ Renewed(c) => call[c].rt # 0 /\ ~call[c].again
    /\ call[c].pc = "refused" => ~call[c].again
    /\ call[c].pc \in {"sent", "ok", "unauthorized"} /\ ~call[c].again => call[c].rt = 0
    /\ call[c].pc = "renewed" \/ (call[c].again /\ call[c].pc = "sent")
         => call[c].pair # 0 /\ access[call[c].pair]
    /\ call[c].pc = "renewed" /\ call[c].kind = "guest" => call[c].pair \in guests

\* A new pair is known to the call that brings it and to nobody else.
NewPairsAreFresh ==
  \A c \in Call : call[c].pc = "renewed" =>
    /\ store # call[c].pair
    /\ \A d \in Call : /\ call[d].rt # call[c].pair /\ call[d].body # call[c].pair
                       /\ d # c => call[d].pair # call[c].pair
    /\ Renewed(c) => root[call[c].pair] = root[call[c].rt] /\ row[call[c].rt] # "live"

\* Without a race a refresh token has one user and a sign-in one claimed token,
\* the one on its way to the page if there is one.
OneUser ==
  "race" \notin cause =>
    /\ \A k \in Pair : \A c, d \in Using(k) : c = d
    /\ \A j, k \in Pair : Claimed(j) /\ Claimed(k) /\ root[j] = root[k] => j = k
    /\ \A c \in Call : call[c].pc = "renewed" =>
         \A j \in Pair : Claimed(j) /\ root[j] = root[call[c].pair] => j = call[c].pair

\* If no answer was lost either, the claimed token is the stored one or comes
\* from it, and a logout leaves none.
PageHasTheToken ==
  {"race", "lost"} \cap cause = {} =>
    /\ \A c \in Call : Refreshing(c) \/ Renewed(c) => call[c].tab # None
    /\ store # 0 => \A j \in Pair : Claimed(j) /\ root[j] = root[store] =>
         j = store \/ \E d \in Call : Renewed(d) /\ call[d].rt = store /\ call[d].pair = j
    /\ \A c \in Call : call[c].kind = "logout" /\ ~call[c].again =>
         \A j \in Pair : Claimed(j) /\ root[j] = root[call[c].body] =>
           /\ call[c].pc = "sent" => j = call[c].body
           /\ call[c].pc \notin {"ok", "done"}

\* While nothing has happened that can end a session, a refresh is made with the
\* stored token and nothing is refused.
Undisturbed ==
  cause = {} =>
    /\ active
    /\ \A c \in Call :
         /\ call[c].kind # "logout" /\ call[c].pc # "refused"
         /\ Refreshing(c) => call[c].rt = store /\ row[store] = "live"
         /\ Renewed(c) => call[c].rt = store
         /\ call[c].pc = "renewed" /\ call[c].kind # "guest" => row[call[c].pair] = "live"
         /\ call[c].pc = "unauthorized" => ~call[c].again
    /\ store = 0 => /\ \A t \in Tab : shown[t] \in {"blank", "out"}
                    /\ \A c \in Call : call[c].pc # "idle" => SignInCall(c)
    /\ store \in guests =>
         /\ access[store]
         /\ \A c \in Call : call[c].pc # "idle" /\ ~SignInCall(c) =>
              call[c].pair = store /\ call[c].pc \in {"sent", "ok", "done"}

\* The whole of it.
TokenInv == /\ TokensTypeOK /\ IssuedInOrder /\ CallsFit /\ NewPairsAreFresh
            /\ OneUser /\ PageHasTheToken /\ Undisturbed /\ StoredTokenIsLive
=============================================================================
