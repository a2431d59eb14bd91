------------------------------ MODULE Sessions ------------------------------
(***************************************************************************)
(* One user's browser tabs and their tokens: the API client of             *)
(* packages/api with its 401 interceptor, the auth store of the web        *)
(* application, and the refresh tokens of the server.                      *)
(*                                                                         *)
(* A pair of tokens is named by the number of its refresh token, 0 is      *)
(* null.  A tab has the pair in three places that do not change together:  *)
(* localStorage (shared by the tabs), the zustand store, and the refs that *)
(* the API client reads, which a React effect copies from the store.       *)
(***************************************************************************)
EXTENDS FiniteSets, Naturals

CONSTANTS
    Tabs,
    Requests,       \* API requests a tab can have in flight
    Calls,          \* refresh calls the server can be working on
    NoPromise,      \* refreshPromise = null
    PromptEffects,  \* are the refs up to date as soon as the store is
    Abandon,        \* may a page be reloaded while it waits for a refresh
    MaxTokens,      \* bound: tokens issued
    MaxDrops        \* bound: refreshes broken off

ASSUME SessionsAssumption ==
    /\ PromptEffects \in BOOLEAN /\ Abandon \in BOOLEAN
    /\ NoPromise \notin Calls
    /\ MaxTokens \in Nat /\ MaxDrops \in Nat

VARIABLES
    issued, session, rows, expired, calls, drops,   \* as in RefreshTokens
    stale,      \* pairs whose access token is more than fifteen minutes old
    storage,    \* localStorage
    memory,     \* the store of each tab
    ref,        \* tokenRef and refreshTokenRef of each tab
    promise,    \* refreshPromise of each tab
    reqs        \* the requests of each tab

server == <<issued, session, rows, expired, calls, drops>>
client == <<stale, storage, memory, ref, promise, reqs>>
vars == <<server, client>>

Server == INSTANCE RefreshTokens

NoRequest == [pc |-> "idle", token |-> 0, retry |-> FALSE]
Quiet == [r \in Requests |-> NoRequest]

Pair == 0 .. MaxTokens

TypeOK ==
    /\ Server!TypeOK
    /\ stale \in SUBSET (1 .. issued)
    /\ storage \in Pair
    /\ memory \in [Tabs -> Pair]
    /\ ref \in [Tabs -> Pair]
    /\ promise \in [Tabs -> Calls \cup {NoPromise}]
    /\ reqs \in [Tabs -> [Requests -> [pc : {"idle", "sent", "waiting"},
                                       token : Pair, retry : BOOLEAN]]]

Init ==
    /\ Server!Init
    /\ stale = {}
    /\ storage = 0
    /\ memory = [t \in Tabs |-> 0]
    /\ ref = [t \in Tabs |-> 0]
    /\ promise = [t \in Tabs |-> NoPromise]
    /\ reqs = [t \in Tabs |-> Quiet]

-----------------------------------------------------------------------------

\* Bound: each request in flight may need one more token, as may each call.
TokensLeft ==
    LET active == {p \in Tabs \X Requests : reqs[p[1]][p[2]].pc # "idle"}
        open == {c \in Calls : calls[c].pc \in {"find", "delete", "create"}}
    IN issued + Cardinality(active) + Cardinality(open) < MaxTokens

\* The auth store's setAuth and setTokens, and its logout with g = 0.
SetTokens(t, g) ==
    /\ storage' = g
    /\ memory' = [memory EXCEPT ![t] = g]
    /\ ref' = [ref EXCEPT ![t] = IF PromptEffects THEN g ELSE @]

\* The effects of ApiProvider.
Effect(t) ==
    /\ ref[t] # memory[t]
    /\ ref' = [ref EXCEPT ![t] = memory[t]]
    /\ UNCHANGED <<server, stale, storage, memory, promise, reqs>>

\* The login and register forms and the Google callback page.
Login(t) ==
    /\ memory[t] = 0
    /\ TokensLeft
    /\ Server!Login
    /\ SetTokens(t, issued + 1)
    /\ UNCHANGED <<stale, promise, reqs>>

\* The logout button calls the store and not the server.
Logout(t) ==
    /\ memory[t] # 0
    /\ SetTokens(t, 0)
    /\ UNCHANGED <<server, stale, promise, reqs>>

\* The page is loaded (again) and hydrates the store; what the old page waited
\* for goes on at the server and reaches nobody.
Reload(t) ==
    /\ Abandon \/ promise[t] = NoPromise
    /\ memory' = [memory EXCEPT ![t] = storage]
    /\ ref' = [ref EXCEPT ![t] = storage]
    /\ promise' = [promise EXCEPT ![t] = NoPromise]
    /\ reqs' = [reqs EXCEPT ![t] = Quiet]
    /\ UNCHANGED <<server, stale, storage>>

\* The request interceptor takes the access token from the ref.
Send(t, r) ==
    /\ memory[t] # 0
    /\ reqs[t][r].pc = "idle"
    /\ TokensLeft
    /\ reqs' = [reqs EXCEPT ![t][r] = [NoRequest EXCEPT !.pc = "sent", !.token = ref[t]]]
    /\ UNCHANGED <<server, stale, storage, memory, ref, promise>>

Unauthorized(t, r) ==
    /\ reqs[t][r].pc = "sent"
    /\ reqs[t][r].token \in stale \cup {0}

\* Any answer but a 401, and a 401 of a request that was retried already.
Answer(t, r) ==
    /\ reqs[t][r].pc = "sent"
    /\ Unauthorized(t, r) => reqs[t][r].retry
    /\ reqs' = [reqs EXCEPT ![t][r] = NoRequest]
    /\ UNCHANGED <<server, stale, storage, memory, ref, promise>>

\* onUnauthorized: the store is cleared and the page loaded anew.
SignOut(t) ==
    /\ storage' = 0
    /\ memory' = [memory EXCEPT ![t] = 0]
    /\ ref' = [ref EXCEPT ![t] = 0]
    /\ promise' = [promise EXCEPT ![t] = NoPromise]
    /\ reqs' = [reqs EXCEPT ![t] = Quiet]
    /\ UNCHANGED stale

\* A 401, and the tab has no refresh token.
GiveUp(t, r) ==
    /\ Unauthorized(t, r)
    /\ ~reqs[t][r].retry
    /\ ref[t] = 0
    /\ SignOut(t)
    /\ UNCHANGED server

\* Fault: every 401 starts a refresh of its own.
AskForTokensEach(t, r) ==
    /\ Unauthorized(t, r)
    /\ ~reqs[t][r].retry
    /\ ref[t] # 0
    /\ reqs' = [reqs EXCEPT ![t][r].pc = "waiting"]
    /\ \E c \in Calls :
        /\ Server!Present(c, ref[t])
        /\ promise' = [promise EXCEPT ![t] = c]
    /\ UNCHANGED <<stale, storage, memory, ref>>

\* A 401: the request waits for the refresh in flight, or starts one.
AskForTokens(t, r) ==
    /\ Unauthorized(t, r)
    /\ ~reqs[t][r].retry
    /\ ref[t] # 0
    /\ reqs' = [reqs EXCEPT ![t][r].pc = "waiting"]
    /\ \/ /\ promise[t] # NoPromise
          /\ UNCHANGED <<server, promise>>
       \/ /\ promise[t] = NoPromise
          /\ \E c \in Calls :
              /\ Server!Present(c, ref[t])
              /\ promise' = [promise EXCEPT ![t] = c]
    /\ UNCHANGED <<stale, storage, memory, ref>>

\* Fault: only one of the waiting requests goes on.
RefreshedOne(t) ==
    LET c == promise[t]
        g == calls[c].fresh
    IN
    /\ c # NoPromise
    /\ calls[c].pc = "answered"
    /\ SetTokens(t, g)
    /\ promise' = [promise EXCEPT ![t] = NoPromise]
    /\ \E r \in Requests :
        /\ reqs[t][r].pc = "waiting"
        /\ reqs' = [reqs EXCEPT ![t][r] = [pc |-> "sent", token |-> g, retry |-> TRUE]]
    /\ Server!Return(c)
    /\ UNCHANGED stale

\* Fault: the answer is kept where the promise was.
RefreshedKeepsAnswer(t) ==
    LET c == promise[t]
        g == calls[c].fresh
    IN
    /\ c \in Calls
    /\ calls[c].pc = "answered"
    /\ SetTokens(t, g)
    /\ promise' = [promise EXCEPT ![t] = g]
    /\ reqs' = [reqs EXCEPT ![t] = [r \in Requests |->
                  IF @[r].pc = "waiting"
                  THEN [pc |-> "sent", retry |-> TRUE, token |-> g]
                  ELSE @[r]]]
    /\ Server!Return(c)
    /\ UNCHANGED stale

\* The promise is fulfilled.  Every request that waits for it stores the new
\* pair and is sent again; the interceptor then overwrites the header with the
\* token of the ref, unless that is null.
Refreshed(t) ==
    LET c == promise[t]
        g == calls[c].fresh
    IN
    /\ c # NoPromise
    /\ calls[c].pc = "answered"
    /\ SetTokens(t, g)
    /\ promise' = [promise EXCEPT ![t] = NoPromise]
    /\ reqs' = [reqs EXCEPT ![t] = [r \in Requests |->
                  IF @[r].pc = "waiting"
                  THEN [pc |-> "sent", retry |-> TRUE,
                        token |-> IF ref'[t] = 0 THEN g ELSE ref'[t]]
                  ELSE @[r]]]
    /\ Server!Return(c)
    /\ UNCHANGED stale

\* The promise is rejected, whatever the reason.
NotRefreshed(t) ==
    /\ promise[t] # NoPromise
    /\ calls[promise[t]].pc = "refused"
    /\ SignOut(t)
    /\ Server!Return(promise[t])

\* The server's steps; the answer to an abandoned call is lost.
ServerStep(c) ==
    /\ \/ Server!ServerStep(c)
       \/ (\A t \in Tabs : promise[t] # c) /\ Server!Return(c)
    /\ UNCHANGED client

Expire(g) ==
    /\ Server!Expire(g)
    /\ UNCHANGED client

CleanUp ==
    /\ Server!CleanUp
    /\ UNCHANGED client

\* The access token of the pair g expires, long before the refresh token does.
AccessExpires(g) ==
    /\ g \in 1 .. issued
    /\ stale' = stale \cup {g}
    /\ UNCHANGED <<server, storage, memory, ref, promise, reqs>>

TabStep(t) ==
    \/ Effect(t)
    \/ Login(t)
    \/ Logout(t)
    \/ Reload(t)
    \/ \E r \in Requests :
        \/ Send(t, r)
        \/ Answer(t, r)
        \/ GiveUp(t, r)
        \/ AskForTokens(t, r)
    \/ Refreshed(t)
    \/ NotRefreshed(t)

Next ==
    \/ \E t \in Tabs : TabStep(t)
    \/ \E c \in Calls : ServerStep(c)
    \/ \E g \in 1 .. issued : Expire(g) \/ AccessExpires(g)
    \/ CleanUp

\* Requests are answered and refreshes get on; the user need not do anything,
\* and nothing has to break or to expire.
Fairness ==
    /\ \A t \in Tabs :
        /\ \A r \in Requests : WF_vars(Answer(t, r) \/ GiveUp(t, r) \/ AskForTokens(t, r))
        /\ WF_vars(Refreshed(t))
        /\ WF_vars(NotRefreshed(t))
    /\ \A c \in Calls : WF_vars(ServerStep(c))

Spec == Init /\ [][Next]_vars

FairSpec == Spec /\ Fairness

-----------------------------------------------------------------------------
(* Properties *)

\* Every request ends: none waits for a refresh that is not coming, and none
\* goes round between 401 and refresh.
RequestsEnd ==
    \A t \in Tabs, r \in Requests : reqs[t][r].pc # "idle" ~> reqs[t][r].pc = "idle"

\* A tab that has a pair and did not ask to lose it keeps it until a refresh
\* token expires: requests that meet the expiry of the access token at the same
\* time or one after another never present a token that is spent.
StaysSignedIn ==
    [][\A t \in Tabs :
        memory[t] # 0 /\ memory'[t] = 0 /\ reqs'[t] # reqs[t]
            => calls[promise[t]].token \in expired]_vars

\* localStorage, from which a page starts, never falls behind the store of a tab
\* in the same session, in whatever order the tabs refresh and store.
StorageNewest ==
    \A t \in Tabs :
        storage # 0 /\ memory[t] # 0 /\ session[memory[t]] = session[storage]
            => memory[t] <= storage

=============================================================================
