--------------------------- MODULE SessionsProofs ---------------------------
(***************************************************************************)
(* Theorems about Sessions, for any number of tabs, requests and calls.    *)
(*                                                                         *)
(* To the server, whatever the tabs do is a sequence of logins, refreshes  *)
(* and returns, so what RefreshTokensProofs shows of the tokens carries    *)
(* over.  The tabs add the other half of the argument: a token a refresh   *)
(* was answered with is held by nobody and presented by nobody until the   *)
(* answer arrives, so it is still the newest of its session when it does.  *)
(***************************************************************************)
EXTENDS Sessions, TLAPS

Rotation == INSTANCE RefreshTokensProofs

-----------------------------------------------------------------------------
(* The server *)

ServerInv ==
    /\ Server!TypeOK
    /\ \A g \in Server!Issued : session[g] \in Server!Issued
    /\ Server!OnlyNewestUsable
    /\ Server!RotationsApart

\* The server of Sessions is the one RefreshTokensProofs is about.
LEMMA SameServer ==
  /\ Server!Init <=> Rotation!Init
  /\ ServerInv <=> Rotation!RotationInv
  /\ [Server!Next]_server <=> [Rotation!Next]_(Rotation!vars)
<1>1. Server!Init <=> Rotation!Init
  BY DEF Server!Init, Rotation!Init, Server!Tokens, Rotation!Tokens, Server!NoCall, Rotation!NoCall
<1>2. Server!TypeOK <=> Rotation!TypeOK
  BY DEF Server!TypeOK, Rotation!TypeOK, Server!Call, Rotation!Call,
         Server!Issued, Rotation!Issued, Server!Tokens, Rotation!Tokens
<1>3. ServerInv <=> Rotation!RotationInv
  BY <1>2 DEF ServerInv, Rotation!RotationInv, Rotation!SessionsIssued,
         Server!OnlyNewestUsable, Rotation!OnlyNewestUsable,
         Server!RotationsApart, Rotation!RotationsApart,
         Server!Rotating, Rotation!Rotating, Server!Issued, Rotation!Issued
<1>4. [Server!Next]_server <=> [Rotation!Next]_(Rotation!vars)
  BY DEF Server!Next, Rotation!Next, Server!Login, Rotation!Login, Server!Issue, Rotation!Issue,
         Server!Present, Rotation!Present, Server!ServerStep, Rotation!ServerStep,
         Server!FindToken, Rotation!FindToken, Server!DeleteToken, Rotation!DeleteToken,
         Server!CreateToken, Rotation!CreateToken, Server!Break, Rotation!Break,
         Server!Return, Rotation!Return, Server!Logout, Rotation!Logout,
         Server!Expire, Rotation!Expire, Server!CleanUp, Rotation!CleanUp,
         Server!NoCall, Rotation!NoCall, Server!Issued, Rotation!Issued, server, Rotation!vars
<1> QED
  BY <1>1, <1>3, <1>4

LEMMA InitServer == Server!Init => ServerInv
<1>1. Rotation!Init => Rotation!RotationInv
  BY Rotation!InitRotationInv, SessionsAssumption DEF Rotation!TokensAssumption
<1> QED
  BY <1>1, SameServer

LEMMA StepServer == ServerInv /\ [Server!Next]_server => ServerInv'
<1>1. Rotation!RotationInv /\ [Rotation!Next]_(Rotation!vars) => Rotation!RotationInv'
  BY Rotation!StepRotationInv, SessionsAssumption DEF Rotation!TokensAssumption
<1>2. Server!TypeOK' <=> Rotation!TypeOK'
  BY DEF Server!TypeOK, Rotation!TypeOK, Server!Call, Rotation!Call,
         Server!Issued, Rotation!Issued, Server!Tokens, Rotation!Tokens
<1>3. ServerInv' <=> Rotation!RotationInv'
  BY <1>2 DEF ServerInv, Rotation!RotationInv, Rotation!SessionsIssued,
         Server!OnlyNewestUsable, Rotation!OnlyNewestUsable,
         Server!RotationsApart, Rotation!RotationsApart,
         Server!Rotating, Rotation!Rotating, Server!Issued, Rotation!Issued
<1> QED
  BY <1>1, <1>3, SameServer

\* Every step of a tab is a step of the server or leaves it alone.
LEMMA StepImplements == TypeOK /\ [Next]_vars => [Server!Next]_server
<1> SUFFICES ASSUME TypeOK, [Next]_vars PROVE [Server!Next]_server
  OBVIOUS
<1>1. ASSUME NEW t \in Tabs, TabStep(t) PROVE Server!Next \/ UNCHANGED server
  <2>1. CASE Effect(t) \/ Logout(t) \/ Reload(t)
    BY <2>1 DEF Effect, Logout, Reload
  <2>2. CASE Login(t)
    BY <2>2 DEF Login, Server!Next
  <2>3. ASSUME NEW r \in Requests, Send(t, r) \/ Answer(t, r) \/ GiveUp(t, r)
        PROVE  UNCHANGED server
    BY <2>3 DEF Send, Answer, GiveUp
  <2>4. ASSUME NEW r \in Requests, AskForTokens(t, r)
        PROVE  Server!Next \/ UNCHANGED server
    <3>1. ASSUME NEW c \in Calls, Server!Present(c, ref[t]) PROVE Server!Next
      BY <3>1 DEF Server!Present, Server!Next
    <3> QED
      BY <2>4, <3>1 DEF AskForTokens
  <2>5. CASE Refreshed(t) \/ NotRefreshed(t)
    <3>1. promise[t] \in Calls /\ Server!Return(promise[t])
      BY <2>5 DEF Refreshed, NotRefreshed, TypeOK
    <3> QED
      BY <3>1 DEF Server!Next
  <2> QED
    BY <1>1, <2>1, <2>2, <2>3, <2>4, <2>5 DEF TabStep
<1>2. ASSUME NEW c \in Calls, ServerStep(c) PROVE Server!Next
  BY <1>2 DEF ServerStep, Server!Next
<1>3. ASSUME NEW g \in 1 .. issued, Expire(g) \/ AccessExpires(g)
      PROVE  Server!Next \/ UNCHANGED server
  BY <1>3 DEF Expire, AccessExpires, Server!Next, Server!Issued
<1>4. CASE CleanUp
  BY <1>4 DEF CleanUp, Server!Next
<1>5. CASE UNCHANGED vars
  BY <1>5 DEF vars
<1> QED
  BY <1>1, <1>2, <1>3, <1>4, <1>5 DEF Next

-----------------------------------------------------------------------------
(* Type correctness *)

LEMMA InitTypes == Init => TypeOK /\ ServerInv
<1> SUFFICES ASSUME Init PROVE TypeOK /\ ServerInv
  OBVIOUS
<1>1. ServerInv
  BY InitServer DEF Init
<1>2. 0 \in Pair
  BY SessionsAssumption DEF Pair
<1>3. Quiet \in [Requests -> [pc : {"idle", "sent", "waiting"}, token : Pair, retry : BOOLEAN]]
  BY <1>2 DEF Quiet, NoRequest
<1> QED
  BY <1>1, <1>2, <1>3 DEF Init, TypeOK, ServerInv

LEMMA StepTypes == TypeOK /\ ServerInv /\ [Next]_vars => TypeOK' /\ ServerInv'
<1> SUFFICES ASSUME TypeOK, ServerInv, [Next]_vars PROVE TypeOK' /\ ServerInv'
  OBVIOUS
<1> DEFINE Request == [pc : {"idle", "sent", "waiting"}, token : Pair, retry : BOOLEAN]
<1>s. ServerInv'
  BY StepImplements, StepServer
<1>0. /\ 0 \in Pair
      /\ NoRequest \in Request
      /\ Quiet \in [Requests -> Request]
  <2>1. 0 \in Pair
    BY SessionsAssumption DEF Pair
  <2> QED
    BY <2>1 DEF NoRequest, Quiet
<1>g. ASSUME issued' = issued \/ issued' = issued + 1,
             stale' \subseteq stale \cup 1 .. issued,
             storage' \in Pair,
             memory' \in [Tabs -> Pair],
             ref' \in [Tabs -> Pair],
             promise' \in [Tabs -> Calls \cup {NoPromise}],
             reqs' \in [Tabs -> [Requests -> Request]]
      PROVE  TypeOK'
  <2>1. 1 .. issued \subseteq 1 .. issued'
    BY <1>g, SessionsAssumption DEF TypeOK, Server!TypeOK
  <2>2. stale' \in SUBSET (1 .. issued')
    BY <2>1, <1>g DEF TypeOK
  <2>3. Server!TypeOK'
    BY <1>s DEF ServerInv
  <2> QED
    BY <2>2, <2>3, <1>g DEF TypeOK
<1>1. ASSUME NEW t \in Tabs, Effect(t) \/ Logout(t) \/ Reload(t) PROVE TypeOK'
  <2>1. CASE Effect(t)
    <3>1. UNCHANGED <<issued, stale, storage, memory, promise, reqs>>
      BY <2>1 DEF Effect, server
    <3>2. ref' \in [Tabs -> Pair]
      BY <2>1 DEF Effect, TypeOK
    <3> QED
      BY <3>1, <3>2, <1>g DEF TypeOK
  <2>2. CASE Logout(t)
    <3>1. UNCHANGED <<issued, stale, promise, reqs>>
      BY <2>2 DEF Logout, server
    <3>2. storage' \in Pair /\ memory' \in [Tabs -> Pair] /\ ref' \in [Tabs -> Pair]
      BY <2>2, <1>0 DEF Logout, SetTokens, TypeOK
    <3> QED
      BY <3>1, <3>2, <1>g DEF TypeOK
  <2>3. CASE Reload(t)
    <3>1. UNCHANGED <<issued, stale, storage>>
      BY <2>3 DEF Reload, server
    <3>2. memory' \in [Tabs -> Pair] /\ ref' \in [Tabs -> Pair]
      BY <2>3 DEF Reload, TypeOK
    <3>3. /\ promise' \in [Tabs -> Calls \cup {NoPromise}]
          /\ reqs' \in [Tabs -> [Requests -> Request]]
      BY <2>3, <1>0 DEF Reload, TypeOK
    <3> QED
      BY <3>1, <3>2, <3>3, <1>g DEF TypeOK
  <2> QED
    BY <1>1, <2>1, <2>2, <2>3
<1>2. ASSUME NEW t \in Tabs, Login(t) PROVE TypeOK'
  <2>1. issued' = issued + 1 /\ issued + 1 \in Pair
    BY <1>2, SessionsAssumption DEF Login, Server!Login, Server!Issue, TypeOK, Server!TypeOK, Pair
  <2>2. /\ stale' = stale /\ storage' \in Pair /\ memory' \in [Tabs -> Pair]
        /\ ref' \in [Tabs -> Pair] /\ UNCHANGED <<promise, reqs>>
    BY <1>2, <2>1 DEF Login, SetTokens, TypeOK
  <2> QED
    BY <2>1, <2>2, <1>g DEF TypeOK
<1>3. ASSUME NEW t \in Tabs, NEW r \in Requests, Send(t, r) \/ Answer(t, r)
      PROVE  TypeOK'
  <2>1. UNCHANGED <<issued, stale, storage, memory, ref, promise>>
    BY <1>3 DEF Send, Answer, server
  <2>2. PICK q \in Request : reqs' = [reqs EXCEPT ![t][r] = q]
    <3>1. CASE Answer(t, r)
      BY <3>1, <1>0 DEF Answer
    <3>2. CASE Send(t, r)
      <4>1. [NoRequest EXCEPT !.pc = "sent", !.token = ref[t]] \in Request
        BY <1>0 DEF TypeOK, NoRequest
      <4> QED
        BY <3>2, <4>1 DEF Send
    <3> QED
      BY <1>3, <3>1, <3>2
  <2>3. reqs' \in [Tabs -> [Requests -> Request]]
    BY <2>2 DEF TypeOK
  <2> QED
    BY <2>1, <2>3, <1>g DEF TypeOK
<1>4. ASSUME NEW t \in Tabs, SignOut(t), UNCHANGED issued PROVE TypeOK'
  BY <1>4, <1>0, <1>g DEF SignOut, TypeOK
<1>5. ASSUME NEW t \in Tabs, NEW r \in Requests, AskForTokens(t, r) PROVE TypeOK'
  <2>1. UNCHANGED <<issued, stale, storage, memory, ref>>
    BY <1>5 DEF AskForTokens, Server!Present, server
  <2>2. promise' \in [Tabs -> Calls \cup {NoPromise}]
    BY <1>5 DEF AskForTokens, TypeOK
  <2>3. reqs' = [reqs EXCEPT ![t] = [reqs[t] EXCEPT ![r] = [reqs[t][r] EXCEPT !.pc = "waiting"]]]
    BY <1>5 DEF AskForTokens, TypeOK
  <2>4. [reqs[t][r] EXCEPT !.pc = "waiting"] \in Request
    <3>1. reqs[t][r] \in Request
      BY DEF TypeOK
    <3> QED
      BY <3>1
  <2>5. reqs' \in [Tabs -> [Requests -> Request]]
    BY <2>3, <2>4 DEF TypeOK
  <2> QED
    BY <2>1, <2>2, <2>5, <1>g DEF TypeOK
<1>6. ASSUME NEW t \in Tabs, Refreshed(t) PROVE TypeOK'
  <2> DEFINE g == calls[promise[t]].fresh
  <2>1. promise[t] \in Calls /\ g \in Pair
    BY <1>6 DEF Refreshed, TypeOK, Server!TypeOK, Server!Call, Pair
  <2>2. UNCHANGED <<issued, stale>>
    BY <1>6 DEF Refreshed, Server!Return
  <2>3. /\ storage' \in Pair /\ memory' \in [Tabs -> Pair] /\ ref' \in [Tabs -> Pair]
        /\ promise' \in [Tabs -> Calls \cup {NoPromise}]
    BY <1>6, <2>1 DEF Refreshed, SetTokens, TypeOK
  <2>4. PICK q \in Request : reqs' = [reqs EXCEPT ![t] = [r \in Requests |->
                                       IF reqs[t][r].pc = "waiting" THEN q ELSE reqs[t][r]]]
    <3> DEFINE q == [pc |-> "sent", retry |-> TRUE, token |-> IF ref'[t] = 0 THEN g ELSE ref'[t]]
    <3>1. q \in Request
      BY <2>1, <2>3
    <3> QED
      BY <3>1, <1>6 DEF Refreshed, TypeOK
  <2>5. reqs' \in [Tabs -> [Requests -> Request]]
    BY <2>4 DEF TypeOK
  <2> QED
    BY <2>2, <2>3, <2>5, <1>g DEF TypeOK
<1>7. ASSUME NEW t \in Tabs, NotRefreshed(t) PROVE TypeOK'
  BY <1>4, <1>7 DEF NotRefreshed, Server!Return
<1>8. ASSUME NEW c \in Calls, ServerStep(c) PROVE TypeOK'
  <2>1. issued' = issued \/ issued' = issued + 1
    BY <1>8 DEF ServerStep, Server!ServerStep, Server!FindToken, Server!DeleteToken,
                Server!CreateToken, Server!Issue, Server!Break, Server!Return
  <2>2. UNCHANGED client
    BY <1>8 DEF ServerStep
  <2> QED
    BY <2>1, <2>2, <1>g DEF TypeOK, client
<1>9. ASSUME NEW g \in 1 .. issued, Expire(g) \/ AccessExpires(g) PROVE TypeOK'
  <2>1. UNCHANGED <<issued, storage, memory, ref, promise, reqs>>
    BY <1>9 DEF Expire, Server!Expire, AccessExpires, client, server
  <2>2. stale' \subseteq stale \cup 1 .. issued
    BY <1>9 DEF Expire, AccessExpires, client
  <2> QED
    BY <2>1, <2>2, <1>g DEF TypeOK
<1>10. CASE CleanUp \/ UNCHANGED vars
  <2>1. UNCHANGED <<issued, stale, storage, memory, ref, promise, reqs>>
    <3>1. CASE CleanUp
      BY <3>1 DEF CleanUp, Server!CleanUp, client
    <3>2. CASE UNCHANGED vars
      BY <3>2 DEF vars, server, client
    <3> QED
      BY <1>10, <3>1, <3>2
  <2> QED
    BY <2>1, <1>g, <1>s DEF TypeOK
<1>11. ASSUME NEW t \in Tabs, NEW r \in Requests, GiveUp(t, r) PROVE TypeOK'
  BY <1>4, <1>11 DEF GiveUp, server
<1> QED
  BY <1>s, <1>1, <1>2, <1>3, <1>5, <1>6, <1>7, <1>8, <1>9, <1>10, <1>11 DEF Next, TabStep

LEMMA TypesAlways == Spec => [](TypeOK /\ ServerInv)
  BY InitTypes, StepTypes, PTL DEF Spec

-----------------------------------------------------------------------------
(* Answers under way *)

Known == 0 .. issued

\* The pairs that the user's tabs could present.
Held == {storage} \cup {memory[t] : t \in Tabs} \cup {ref[t] : t \in Tabs}

\* The token call c was answered with has not arrived: nobody else has it, it is
\* the newest of its session and nobody is about to replace it.
Undelivered(c) ==
    LET g == calls[c].fresh IN
    /\ g \in Server!Issued \ Held
    /\ \A d \in Calls : calls[d].token # g /\ (d # c => calls[d].fresh # g)
    /\ \A h \in Server!Issued : session[h] = session[g] => h <= g
    /\ \A d \in Server!Rotating : session[calls[d].token] # session[g]

AnswersInv ==
    /\ Held \subseteq Known
    /\ \A c \in Calls : calls[c].token \in Known /\ calls[c].fresh \in Known
    /\ \A c \in Calls : calls[c].pc = "answered" => Undelivered(c)

PairsInv == TypeOK /\ ServerInv /\ AnswersInv /\ StorageNewest

\* A step that issues no token keeps what is known of the answers, if it gives
\* away none that is still under way and starts to replace none.
LEMMA NothingNew ==
  ASSUME TypeOK, AnswersInv, UNCHANGED <<issued, session>>,
         Held' \subseteq Known,
         \A c \in Calls : /\ calls'[c].token \in {calls[c].token, 0} \cup Held
                          /\ calls'[c].fresh \in {calls[c].fresh, 0},
         \A c \in Calls : calls'[c].pc = "answered" =>
            /\ calls[c].pc = "answered" /\ calls'[c].fresh = calls[c].fresh
            /\ calls[c].fresh \notin Held'
            /\ \A d \in Server!Rotating' : session[calls'[d].token] # session[calls[c].fresh]
  PROVE  AnswersInv'
<1>1. Known' = Known /\ Server!Issued' = Server!Issued /\ Held \subseteq Known /\ 0 \in Known
  BY SessionsAssumption DEF Known, Server!Issued, AnswersInv, TypeOK, Server!TypeOK
<1>2. \A c \in Calls : calls'[c].token \in Known /\ calls'[c].fresh \in Known
  BY <1>1 DEF AnswersInv
<1>3. ASSUME NEW c \in Calls, calls'[c].pc = "answered" PROVE Undelivered(c)'
  <2> DEFINE g == calls[c].fresh
  <2>1. Undelivered(c) /\ calls'[c].fresh = g
    BY <1>3 DEF AnswersInv
  <2>2. g \in Server!Issued' \ Held' /\ g # 0 /\ g \notin Held
    BY <1>1, <1>3, <2>1 DEF Undelivered, Server!Issued
  <2>3. \A d \in Calls : calls'[d].token # g /\ (d # c => calls'[d].fresh # g)
    BY <2>1, <2>2 DEF Undelivered
  <2>4. \A h \in Server!Issued' : session'[h] = session'[g] => h <= g
    BY <1>1, <2>1 DEF Undelivered
  <2>5. \A d \in Server!Rotating' : session'[calls'[d].token] # session'[g]
    BY <1>3
  <2> HIDE DEF g
  <2> QED
    BY <2>1, <2>2, <2>3, <2>4, <2>5 DEF Undelivered
<1> QED
  BY <1>1, <1>2, <1>3 DEF AnswersInv

\* A step that issues a token leaves the answers under way alone, if the token
\* belongs to the session of none of them.
LEMMA NewToken ==
  ASSUME TypeOK, ServerInv, AnswersInv, NEW s \in 0 .. MaxTokens, Server!Issue(s),
         Held' \subseteq Held \cup {issued + 1},
         Server!Rotating' \subseteq Server!Rotating,
         NEW c \in Calls, calls[c].pc = "answered", session[calls[c].fresh] # s,
         \A d \in Calls : /\ calls'[d].token = calls[d].token
                          /\ calls'[d].fresh \in {calls[d].fresh, issued + 1},
         calls'[c].fresh = calls[c].fresh
  PROVE  Undelivered(c)'
<1> DEFINE g == calls[c].fresh
<1>1. /\ issued \in Nat /\ Server!Issued' = Server!Issued \cup {issued + 1}
      /\ issued + 1 \notin Server!Issued
      /\ session'[issued + 1] = s
      /\ \A h \in Server!Issued : session'[h] = session[h]
  BY SessionsAssumption
  DEF Server!Issue, TypeOK, Server!TypeOK, Server!Issued, Server!Tokens
<1>2. Undelivered(c) /\ g \in Server!Issued /\ g \in Nat
  BY <1>1 DEF AnswersInv, Undelivered, Server!Issued
<1>3. g \in Server!Issued' \ Held'
  BY <1>1, <1>2 DEF Undelivered
<1>4. \A d \in Calls : calls'[d].token # g /\ (d # c => calls'[d].fresh # g)
  BY <1>1, <1>2 DEF Undelivered
<1>5. \A h \in Server!Issued' : session'[h] = session'[g] => h <= g
  BY <1>1, <1>2 DEF Undelivered
<1>6. \A d \in Server!Rotating' : session'[calls'[d].token] # session'[g]
  <2> SUFFICES ASSUME NEW d \in Server!Rotating'
               PROVE  session'[calls'[d].token] # session'[g]
    OBVIOUS
  <2>1. d \in Server!Rotating /\ d \in Calls /\ calls[d].token \in Server!Issued
    BY DEF Server!Rotating, TypeOK, Server!TypeOK
  <2> QED
    BY <1>1, <1>2, <2>1 DEF Undelivered
<1> HIDE DEF g
<1>7. calls'[c].fresh = g
  BY DEF g
<1> QED
  BY <1>3, <1>4, <1>5, <1>6, <1>7 DEF Undelivered

\* What the tabs do to their own pairs only.
LEMMA TabsKeepAnswers ==
  ASSUME TypeOK, AnswersInv, UNCHANGED <<issued, session, calls>>, Held' \subseteq Held \cup {0}
  PROVE  AnswersInv'
<1>1. 0 \in Known /\ Held' \subseteq Known
  BY SessionsAssumption DEF Known, AnswersInv, TypeOK, Server!TypeOK
<1>2. ASSUME NEW c \in Calls, calls'[c].pc = "answered"
      PROVE  /\ calls[c].pc = "answered" /\ calls[c].fresh \notin Held'
             /\ \A d \in Server!Rotating' : session[calls'[d].token] # session[calls[c].fresh]
  <2>1. Undelivered(c)
    BY <1>2 DEF AnswersInv
  <2>2. calls[c].fresh # 0
    BY <2>1 DEF Undelivered, Server!Issued
  <2>3. Server!Rotating' = Server!Rotating
    BY DEF Server!Rotating
  <2> QED
    BY <1>2, <2>1, <2>2, <2>3 DEF Undelivered
<1> QED
  BY <1>1, <1>2, NothingNew

\* A call that starts, fails or is over.
LEMMA CallKeepsAnswers ==
  ASSUME TypeOK, AnswersInv, UNCHANGED <<issued, session>>, Held' \subseteq Known,
         NEW c \in Calls, NEW x \in Server!Call, calls' = [calls EXCEPT ![c] = x],
         x.token \in {calls[c].token, 0} \cup Held, x.fresh \in {calls[c].fresh, 0},
         x.pc # "answered", x.pc # "create",
         \A d \in Calls \ {c} : calls[d].pc = "answered" => calls[d].fresh \notin Held'
  PROVE  AnswersInv'
<1>1. calls'[c] = x /\ \A d \in Calls \ {c} : calls'[d] = calls[d]
  BY DEF TypeOK, Server!TypeOK
<1>2. \A d \in Calls : /\ calls'[d].token \in {calls[d].token, 0} \cup Held
                       /\ calls'[d].fresh \in {calls[d].fresh, 0}
  BY <1>1
<1>3. Server!Rotating' \subseteq Server!Rotating \ {c}
  BY <1>1 DEF Server!Rotating
<1>4. ASSUME NEW d \in Calls, calls'[d].pc = "answered"
      PROVE  /\ calls[d].pc = "answered" /\ calls'[d].fresh = calls[d].fresh
             /\ calls[d].fresh \notin Held'
             /\ \A e \in Server!Rotating' : session[calls'[e].token] # session[calls[d].fresh]
  <2>1. d # c /\ calls'[d] = calls[d]
    BY <1>1, <1>4
  <2>2. Undelivered(d)
    BY <1>4, <2>1 DEF AnswersInv
  <2>3. \A e \in Server!Rotating' : e \in Server!Rotating /\ calls'[e] = calls[e]
    BY <1>1, <1>3 DEF Server!Rotating
  <2> QED
    BY <1>4, <2>1, <2>2, <2>3 DEF Undelivered
<1> QED
  BY <1>2, <1>4, NothingNew

\* A call that deletes the row of its token deletes the newest of a session, and
\* that is the token of no answer under way, which no call has presented.
LEMMA DeleteKeepsAnswers ==
  ASSUME TypeOK, ServerInv, AnswersInv, UNCHANGED client, NEW c \in Calls, Server!DeleteToken(c)
  PROVE  AnswersInv'
<1>1. /\ calls' = [calls EXCEPT ![c].pc = IF calls[c].token \in rows THEN "create" ELSE "refused"]
      /\ calls[c].pc = "delete" /\ UNCHANGED <<issued, session>>
  BY DEF Server!DeleteToken
<1>2. /\ calls \in [Calls -> Server!Call]
      /\ calls[c].token \in Server!Issued
  BY <1>1 DEF TypeOK, Server!TypeOK
<1>3. /\ \A d \in Calls : calls'[d].token = calls[d].token /\ calls'[d].fresh = calls[d].fresh
      /\ \A d \in Calls \ {c} : calls'[d].pc = calls[d].pc
      /\ calls'[c].pc # "answered"
      /\ calls'[c].pc = "create" => calls[c].token \in rows
  BY <1>1, <1>2 DEF Server!Call
<1>4. Held' = Held /\ Held \subseteq Known
  BY DEF Held, client, AnswersInv
<1>5. ASSUME NEW d \in Calls, calls'[d].pc = "answered"
      PROVE  /\ calls[d].pc = "answered" /\ calls[d].fresh \notin Held'
             /\ \A e \in Server!Rotating' : session[calls'[e].token] # session[calls[d].fresh]
  <2> DEFINE g == calls[d].fresh
  <2>1. d # c /\ calls[d].pc = "answered"
    BY <1>3, <1>5
  <2>2. Undelivered(d)
    BY <2>1 DEF AnswersInv
  <2>3. ASSUME calls[c].token \in rows PROVE session[calls[c].token] # session[g]
    <3>1. SUFFICES ASSUME session[calls[c].token] = session[g] PROVE FALSE
      OBVIOUS
    <3>2. g <= calls[c].token
      BY <2>2, <2>3, <3>1 DEF ServerInv, Server!OnlyNewestUsable, Undelivered
    <3>3. calls[c].token <= g
      BY <1>2, <2>2, <3>1 DEF Undelivered
    <3>4. calls[c].token # g
      BY <2>2 DEF Undelivered
    <3>5. g \in Nat /\ calls[c].token \in Nat
      BY <1>2, <2>2 DEF Undelivered, Server!Issued
    <3> HIDE DEF g
    <3> QED
      BY <3>2, <3>3, <3>4, <3>5
  <2>4. \A e \in Server!Rotating' : session[calls'[e].token] # session[g]
    BY <1>3, <2>2, <2>3 DEF Undelivered, Server!Rotating
  <2> QED
    BY <1>4, <2>1, <2>2, <2>4 DEF Undelivered
<1> QED
  BY <1>1, <1>3, <1>4, <1>5, NothingNew

LEMMA LoginKeepsAnswers ==
  ASSUME TypeOK, ServerInv, AnswersInv, NEW t \in Tabs, Login(t)
  PROVE  AnswersInv'
<1>1. /\ Server!Issue(issued + 1) /\ UNCHANGED calls /\ issued + 1 \in 0 .. MaxTokens
      /\ issued \in Nat /\ issued' = issued + 1
  BY SessionsAssumption
  DEF Login, Server!Login, Server!Issue, TypeOK, Server!TypeOK
<1>2. Held' \subseteq Held \cup {issued + 1}
  <2>1. storage' = issued + 1
    BY DEF Login, SetTokens
  <2>2. \A u \in Tabs : memory'[u] \in {memory[u], issued + 1}
    BY DEF Login, SetTokens, TypeOK
  <2>3. \A u \in Tabs : ref'[u] \in {ref[u], issued + 1}
    BY DEF Login, SetTokens, TypeOK
  <2> QED
    BY <2>1, <2>2, <2>3 DEF Held
<1>3. /\ Held' \subseteq Known'
      /\ \A c \in Calls : calls'[c].token \in Known' /\ calls'[c].fresh \in Known'
  BY <1>1, <1>2 DEF AnswersInv, Known
<1>4. ASSUME NEW c \in Calls, calls'[c].pc = "answered" PROVE Undelivered(c)'
  <2>1. calls[c].pc = "answered" /\ calls[c].fresh \in Server!Issued
    BY <1>1, <1>4 DEF AnswersInv, Undelivered
  <2>2. session[calls[c].fresh] # issued + 1
    BY <1>1, <2>1 DEF ServerInv, Server!Issued
  <2>3. Server!Rotating' \subseteq Server!Rotating
    BY <1>1 DEF Server!Rotating
  <2> QED
    BY <1>1, <1>2, <2>1, <2>2, <2>3, NewToken
<1> QED
  BY <1>3, <1>4 DEF AnswersInv

\* The token a call creates is new to everybody, and rotations being apart no
\* other call is about to replace it.
LEMMA CreateKeepsAnswers ==
  ASSUME TypeOK, ServerInv, AnswersInv, UNCHANGED client, NEW c \in Calls, Server!CreateToken(c)
  PROVE  AnswersInv'
<1> DEFINE s == session[calls[c].token]
<1>1. /\ c \in Server!Rotating /\ calls[c].token \in Server!Issued
      /\ Server!Issue(s) /\ s \in 0 .. MaxTokens /\ s \in Server!Issued
      /\ issued \in Nat /\ issued' = issued + 1
  <2>1. calls[c].pc = "create" /\ Server!Issue(s)
    BY DEF Server!CreateToken
  <2>2. calls[c].token \in Server!Issued /\ issued \in Nat /\ issued <= MaxTokens
    BY <2>1, SessionsAssumption DEF TypeOK, Server!TypeOK
  <2>3. s \in Server!Issued
    BY <2>2 DEF ServerInv
  <2>4. s \in 0 .. MaxTokens
    BY <2>2, <2>3, SessionsAssumption DEF Server!Issued
  <2> QED
    BY <2>1, <2>2, <2>3, <2>4 DEF Server!Rotating, Server!Issue
<1>2. calls' = [calls EXCEPT ![c] = [calls[c] EXCEPT !.pc = "answered", !.fresh = issued + 1]]
  BY DEF Server!CreateToken, TypeOK, Server!TypeOK, Server!Call
<1>3. /\ calls \in [Calls -> Server!Call] /\ calls[c] \in Server!Call
      /\ \A d \in Calls \ {c} : calls'[d] = calls[d]
  BY <1>2 DEF TypeOK, Server!TypeOK
<1>4. calls'[c].pc = "answered" /\ calls'[c].fresh = issued + 1 /\ calls'[c].token = calls[c].token
  BY <1>2, <1>3 DEF Server!Call
<1>5. /\ \A d \in Calls : calls'[d].token = calls[d].token
      /\ \A d \in Calls : calls'[d].fresh \in {calls[d].fresh, issued + 1}
      /\ Server!Rotating' = Server!Rotating \ {c}
  BY <1>3, <1>4 DEF Server!Rotating
<1>k. Known \subseteq Known' /\ issued + 1 \in Known'
  BY <1>1 DEF Known
<1>6. Held' = Held /\ Held' \subseteq Known' /\ Held \subseteq 0 .. issued
  BY <1>k DEF Held, client, AnswersInv, Known
<1>7. \A d \in Calls : calls'[d].token \in Known' /\ calls'[d].fresh \in Known'
  <2>1. \A d \in Calls : calls[d].token \in Known /\ calls[d].fresh \in Known
    BY DEF AnswersInv
  <2> HIDE DEF Known
  <2> QED
    BY <1>k, <1>5, <2>1
<1>8. ASSUME NEW d \in Calls \ {c}, calls'[d].pc = "answered" PROVE Undelivered(d)'
  <2>1. calls[d].pc = "answered" /\ calls'[d].fresh = calls[d].fresh
    BY <1>3, <1>8
  <2>2. session[calls[d].fresh] # s
    BY <1>1, <2>1 DEF AnswersInv, Undelivered
  <2> HIDE DEF s
  <2> QED
    BY <1>1, <1>5, <1>6, <2>1, <2>2, NewToken
<1>9. Undelivered(c)'
  <2>1. /\ Server!Issued' = Server!Issued \cup {issued + 1}
        /\ session'[issued + 1] = s
        /\ \A h \in Server!Issued : session'[h] = session[h]
    BY <1>1, SessionsAssumption
    DEF Server!Issue, TypeOK, Server!TypeOK, Server!Issued, Server!Tokens
  <2>2. issued + 1 \in Server!Issued' \ Held'
    BY <1>1, <1>6, <2>1
  <2>3. \A d \in Calls : calls'[d].token # issued + 1 /\ (d # c => calls'[d].fresh # issued + 1)
    <3>1. \A d \in Calls : calls[d].token # issued + 1 /\ calls[d].fresh # issued + 1
      BY <1>1 DEF AnswersInv, Known
    <3> QED
      BY <1>3, <1>5, <3>1
  <2>4. \A h \in Server!Issued' : h <= issued + 1
    BY <1>1 DEF Server!Issued
  <2>5. \A d \in Server!Rotating' : session'[calls'[d].token] # session'[issued + 1]
    <3> SUFFICES ASSUME NEW d \in Server!Rotating'
                 PROVE  session'[calls'[d].token] # session'[issued + 1]
      OBVIOUS
    <3>1. /\ d \in Server!Rotating /\ d # c /\ d \in Calls
          /\ calls[d].token \in Server!Issued /\ calls'[d].token = calls[d].token
      BY <1>5 DEF Server!Rotating, TypeOK, Server!TypeOK
    <3>2. session[calls[d].token] # s
      BY <1>1, <3>1 DEF ServerInv, Server!RotationsApart
    <3> QED
      BY <2>1, <3>1, <3>2
  <2> QED
    BY <1>4, <2>2, <2>3, <2>4, <2>5 DEF Undelivered
<1> QED
  BY <1>6, <1>7, <1>8, <1>9 DEF AnswersInv

LEMMA InitAnswers == Init => AnswersInv
<1> SUFFICES ASSUME Init PROVE AnswersInv
  OBVIOUS
<1>1. issued = 0 /\ Held \subseteq {0}
  BY DEF Init, Server!Init, Held
<1>2. 0 \in Known
  BY <1>1 DEF Known
<1>3. \A c \in Calls : calls[c].token = 0 /\ calls[c].fresh = 0 /\ calls[c].pc = "idle"
  BY DEF Init, Server!Init, Server!NoCall
<1> QED
  BY <1>1, <1>2, <1>3 DEF AnswersInv

\* The answer that arrives may be given to the tabs: it is nobody else's.
LEMMA ReturnKeepsAnswers ==
  ASSUME TypeOK, AnswersInv, NEW c \in Calls, Server!Return(c),
         Held' \subseteq Held \cup {0, calls[c].fresh}
  PROVE  AnswersInv'
<1>1. /\ calls' = [calls EXCEPT ![c] = Server!NoCall]
      /\ UNCHANGED <<issued, session>> /\ calls[c].pc \in {"answered", "refused"}
  BY DEF Server!Return
<1>2. /\ Server!NoCall \in Server!Call /\ Server!NoCall.token = 0 /\ Server!NoCall.fresh = 0
      /\ Server!NoCall.pc = "idle"
  BY SessionsAssumption DEF Server!NoCall, Server!Call
<1>3. Held' \subseteq Known
  BY SessionsAssumption DEF AnswersInv, Known, TypeOK, Server!TypeOK
<1>4. ASSUME NEW d \in Calls \ {c}, calls[d].pc = "answered" PROVE calls[d].fresh \notin Held'
  <2>1. Undelivered(d)
    BY <1>4 DEF AnswersInv
  <2>2. calls[d].fresh # 0 /\ calls[d].fresh \notin Held /\ calls[d].fresh # calls[c].fresh
    BY <2>1 DEF Undelivered, Server!Issued
  <2> QED
    BY <2>2
<1> QED
  BY <1>1, <1>2, <1>3, <1>4, CallKeepsAnswers

LEMMA ServerKeepsAnswers ==
  ASSUME TypeOK, ServerInv, AnswersInv, UNCHANGED client, NEW c \in Calls, Server!ServerStep(c)
  PROVE  AnswersInv'
<1>1. Held' = Held /\ Held \subseteq Known
  BY DEF Held, client, AnswersInv
<1>2. \A d \in Calls : calls[d].pc = "answered" => calls[d].fresh \notin Held
  BY DEF AnswersInv, Undelivered
<1>3. calls[c] \in Server!Call /\ calls \in [Calls -> Server!Call]
  BY DEF TypeOK, Server!TypeOK
<1>4. CASE Server!FindToken(c)
  <2>1. PICK q \in {"delete", "refused"} : calls' = [calls EXCEPT ![c].pc = q]
    BY <1>4 DEF Server!FindToken
  <2> DEFINE x == [calls[c] EXCEPT !.pc = q]
  <2>2. calls' = [calls EXCEPT ![c] = x] /\ UNCHANGED <<issued, session>>
    BY <1>3, <1>4, <2>1 DEF Server!FindToken
  <2>3. x \in Server!Call /\ x.pc = q /\ x.token = calls[c].token /\ x.fresh = calls[c].fresh
    BY <1>3 DEF Server!Call
  <2> HIDE DEF x
  <2> QED
    BY <1>1, <1>2, <2>2, <2>3, CallKeepsAnswers
<1>5. CASE Server!Break(c)
  <2> DEFINE x == [calls[c] EXCEPT !.pc = "refused", !.fresh = 0]
  <2>1. calls' = [calls EXCEPT ![c] = x] /\ UNCHANGED <<issued, session>>
    BY <1>3, <1>5 DEF Server!Break
  <2>2. x \in Server!Call /\ x.pc = "refused" /\ x.token = calls[c].token /\ x.fresh = 0
    <3>1. 0 \in 0 .. MaxTokens
      BY SessionsAssumption
    <3> QED
      BY <1>3, <3>1 DEF Server!Call
  <2> HIDE DEF x
  <2> QED
    BY <1>1, <1>2, <2>1, <2>2, CallKeepsAnswers
<1> QED
  BY <1>4, <1>5, DeleteKeepsAnswers, CreateKeepsAnswers DEF Server!ServerStep

LEMMA StepAnswers == TypeOK /\ ServerInv /\ AnswersInv /\ [Next]_vars => AnswersInv'
<1> SUFFICES ASSUME TypeOK, ServerInv, AnswersInv, [Next]_vars PROVE AnswersInv'
  OBVIOUS
<1>1. ASSUME NEW t \in Tabs, Effect(t) \/ Logout(t) \/ Reload(t) PROVE AnswersInv'
  <2>1. UNCHANGED <<issued, session, calls>>
    BY <1>1 DEF Effect, Logout, Reload, server
  <2>2. storage' \in {storage, 0}
    BY <1>1 DEF Effect, Logout, Reload, SetTokens
  <2>3. \A u \in Tabs : memory'[u] \in {memory[u], storage, 0}
    BY <1>1 DEF Effect, Logout, Reload, SetTokens, TypeOK
  <2>4. \A u \in Tabs : ref'[u] \in {ref[u], memory[u], storage, 0}
    <3>1. CASE Effect(t)
      BY <3>1 DEF Effect, TypeOK
    <3>2. CASE Logout(t)
      BY <3>2 DEF Logout, SetTokens, TypeOK
    <3>3. CASE Reload(t)
      BY <3>3 DEF Reload, TypeOK
    <3> QED
      BY <1>1, <3>1, <3>2, <3>3
  <2>5. Held' \subseteq Held \cup {0}
    BY <2>2, <2>3, <2>4 DEF Held
  <2> QED
    BY <2>1, <2>5, TabsKeepAnswers
<1>2. ASSUME NEW t \in Tabs, SignOut(t) PROVE Held' \subseteq Held \cup {0}
  <2>1. /\ storage' = 0
        /\ \A u \in Tabs : memory'[u] \in {memory[u], 0} /\ ref'[u] \in {ref[u], 0}
    BY <1>2 DEF SignOut, TypeOK
  <2> QED
    BY <2>1 DEF Held
<1>3. ASSUME NEW t \in Tabs, NEW r \in Requests, Send(t, r) \/ Answer(t, r) \/ GiveUp(t, r)
      PROVE  AnswersInv'
  <2>1. UNCHANGED <<issued, session, calls>>
    BY <1>3 DEF Send, Answer, GiveUp, server
  <2>2. CASE Send(t, r) \/ Answer(t, r)
    BY <2>1, <2>2, TabsKeepAnswers DEF Send, Answer, Held
  <2>3. CASE GiveUp(t, r)
    BY <1>2, <2>1, <2>3, TabsKeepAnswers DEF GiveUp
  <2> QED
    BY <1>3, <2>2, <2>3
<1>4. ASSUME NEW t \in Tabs, NEW r \in Requests, AskForTokens(t, r) PROVE AnswersInv'
  <2>1. Held' = Held
    BY <1>4 DEF AskForTokens, Held
  <2>2. CASE UNCHANGED server
    BY <2>1, <2>2, TabsKeepAnswers DEF server
  <2>3. ASSUME NEW c \in Calls, Server!Present(c, ref[t]) PROVE AnswersInv'
    <3> DEFINE x == [pc |-> "find", token |-> ref[t], fresh |-> 0]
    <3>1. calls' = [calls EXCEPT ![c] = x] /\ UNCHANGED <<issued, session>>
      BY <2>3 DEF Server!Present
    <3>2. x \in Server!Call /\ x.pc = "find" /\ x.token \in Held /\ x.fresh = 0
      BY SessionsAssumption DEF Server!Call, TypeOK, Pair, Held
    <3>3. /\ Held' \subseteq Known
          /\ \A d \in Calls : calls[d].pc = "answered" => calls[d].fresh \notin Held'
      BY <2>1 DEF AnswersInv, Undelivered
    <3> HIDE DEF x
    <3> QED
      BY <3>1, <3>2, <3>3, CallKeepsAnswers
  <2> QED
    BY <1>4, <2>2, <2>3 DEF AskForTokens
<1>5. ASSUME NEW t \in Tabs, Refreshed(t) PROVE AnswersInv'
  <2> DEFINE c == promise[t]
  <2>1. c \in Calls /\ Server!Return(c)
    BY <1>5 DEF Refreshed, TypeOK
  <2>2. /\ storage' = calls[c].fresh
        /\ \A u \in Tabs : memory'[u] \in {memory[u], calls[c].fresh}
        /\ \A u \in Tabs : ref'[u] \in {ref[u], calls[c].fresh}
    BY <1>5 DEF Refreshed, SetTokens, TypeOK
  <2>3. Held' \subseteq Held \cup {0, calls[c].fresh}
    BY <2>2 DEF Held
  <2> QED
    BY <2>1, <2>3, ReturnKeepsAnswers
<1>6. ASSUME NEW t \in Tabs, NotRefreshed(t) PROVE AnswersInv'
  <2>1. promise[t] \in Calls /\ Server!Return(promise[t])
    BY <1>6 DEF NotRefreshed, TypeOK
  <2>2. Held' \subseteq Held \cup {0}
    BY <1>2, <1>6 DEF NotRefreshed
  <2> QED
    BY <2>1, <2>2, ReturnKeepsAnswers
<1>7. ASSUME NEW c \in Calls, ServerStep(c) PROVE AnswersInv'
  <2>1. UNCHANGED client /\ Held' = Held
    BY <1>7 DEF ServerStep, client, Held
  <2> QED
    BY <1>7, <2>1, ServerKeepsAnswers, ReturnKeepsAnswers DEF ServerStep
<1>8. CASE (\E g \in 1 .. issued : Expire(g) \/ AccessExpires(g)) \/ CleanUp \/ UNCHANGED vars
  <2>1. UNCHANGED <<issued, session, calls>> /\ UNCHANGED <<storage, memory, ref>>
    <3>1. ASSUME NEW g \in 1 .. issued, Expire(g) \/ AccessExpires(g)
          PROVE  UNCHANGED <<issued, session, calls>> /\ UNCHANGED <<storage, memory, ref>>
      BY <3>1 DEF Expire, Server!Expire, AccessExpires, client, server
    <3>2. CASE CleanUp
      BY <3>2 DEF CleanUp, Server!CleanUp, client
    <3>3. CASE UNCHANGED vars
      BY <3>3 DEF vars, server, client
    <3> QED
      BY <1>8, <3>1, <3>2, <3>3
  <2> QED
    BY <2>1, TabsKeepAnswers DEF Held
<1>9. ASSUME NEW t \in Tabs, Login(t) PROVE AnswersInv'
  BY <1>9, LoginKeepsAnswers
<1> QED
  BY <1>1, <1>3, <1>4, <1>5, <1>6, <1>7, <1>8, <1>9 DEF Next, TabStep

-----------------------------------------------------------------------------
(* What a page starts from *)

LEMMA HeldIssued ==
  ASSUME TypeOK, AnswersInv, NEW g \in Held, g # 0
  PROVE  g \in Server!Issued
<1>1. g \in Known /\ issued \in Nat
  BY SessionsAssumption DEF AnswersInv, TypeOK, Server!TypeOK
<1> QED
  BY <1>1 DEF Known, Server!Issued

\* New tokens do not change the sessions of old ones, so tabs that keep their
\* pairs stay as they are to each other.
LEMMA StoredStays ==
  ASSUME TypeOK, AnswersInv, StorageNewest, UNCHANGED <<storage, memory>>,
         \A h \in Server!Issued : session'[h] = session[h]
  PROVE  StorageNewest'
<1> SUFFICES ASSUME NEW t \in Tabs, storage # 0, memory[t] # 0,
                    session'[memory[t]] = session'[storage]
             PROVE  memory[t] <= storage
  BY DEF StorageNewest
<1>1. storage \in Server!Issued /\ memory[t] \in Server!Issued
  BY HeldIssued DEF Held
<1> QED
  BY <1>1 DEF StorageNewest

LEMMA StepStorage == PairsInv /\ [Next]_vars => StorageNewest'
<1> SUFFICES ASSUME PairsInv, [Next]_vars PROVE StorageNewest'
  OBVIOUS
<1>t. TypeOK /\ ServerInv /\ AnswersInv /\ StorageNewest
  BY DEF PairsInv
<1>0. ASSUME storage' = 0 PROVE StorageNewest'
  BY <1>0 DEF StorageNewest
<1>1. ASSUME NEW t \in Tabs, Effect(t) PROVE StorageNewest'
  BY <1>1, <1>t, StoredStays DEF Effect, server
<1>2. ASSUME NEW t \in Tabs, Login(t) PROVE StorageNewest'
  <2>1. /\ storage' = issued + 1 /\ issued \in Nat
        /\ \A u \in Tabs : memory'[u] = memory[u] \/ memory'[u] = issued + 1
    BY <1>2, <1>t DEF Login, SetTokens, TypeOK, Server!TypeOK
  <2>2. /\ session'[issued + 1] = issued + 1
        /\ \A h \in Server!Issued : session'[h] = session[h]
    BY <1>2, <1>t, SessionsAssumption
    DEF Login, Server!Login, Server!Issue, TypeOK, Server!TypeOK, Server!Issued, Server!Tokens
  <2>3. \A h \in Server!Issued : session'[h] # issued + 1
    BY <1>t, <2>1, <2>2 DEF ServerInv, Server!Issued
  <2>4. \A u \in Tabs : memory[u] # 0 => memory[u] \in Server!Issued
    BY <1>t, HeldIssued DEF Held
  <2> QED
    BY <2>1, <2>2, <2>3, <2>4 DEF StorageNewest
<1>3. ASSUME NEW t \in Tabs, Logout(t) PROVE StorageNewest'
  BY <1>0, <1>3 DEF Logout, SetTokens
<1>4. ASSUME NEW t \in Tabs, Reload(t) PROVE StorageNewest'
  <2>1. /\ UNCHANGED <<storage, session>> /\ storage <= storage
        /\ \A u \in Tabs : memory'[u] = memory[u] \/ memory'[u] = storage
    BY <1>4, <1>t, SessionsAssumption DEF Reload, server, TypeOK, Pair
  <2> QED
    BY <1>t, <2>1 DEF StorageNewest
<1>5. ASSUME NEW t \in Tabs, NEW r \in Requests,
             Send(t, r) \/ Answer(t, r) \/ AskForTokens(t, r)
      PROVE  StorageNewest'
  BY <1>5, <1>t, StoredStays DEF Send, Answer, AskForTokens, Server!Present, server
<1>6. ASSUME NEW t \in Tabs, NEW r \in Requests, GiveUp(t, r) PROVE StorageNewest'
  BY <1>0, <1>6 DEF GiveUp, SignOut
<1>7. ASSUME NEW t \in Tabs, Refreshed(t) PROVE StorageNewest'
  <2> DEFINE c == promise[t]
             g == calls[c].fresh
  <2>1. /\ c \in Calls /\ calls[c].pc = "answered" /\ storage' = g /\ UNCHANGED session
        /\ \A u \in Tabs : memory'[u] = memory[u] \/ memory'[u] = g
    BY <1>7, <1>t DEF Refreshed, SetTokens, Server!Return, TypeOK
  <2>2. Undelivered(c) /\ g \in Nat /\ g <= g
    BY <1>t, <2>1 DEF AnswersInv, Undelivered, Server!Issued
  <2>3. \A u \in Tabs : memory[u] # 0 => memory[u] \in Server!Issued
    BY <1>t, HeldIssued DEF Held
  <2>4. \A h \in Server!Issued : session[h] = session[g] => h <= g
    BY <2>2 DEF Undelivered
  <2> HIDE DEF g
  <2> QED
    BY <2>1, <2>2, <2>3, <2>4 DEF StorageNewest
<1>8. ASSUME NEW t \in Tabs, NotRefreshed(t) PROVE StorageNewest'
  BY <1>0, <1>8 DEF NotRefreshed, SignOut
<1>9. ASSUME NEW c \in Calls, ServerStep(c) PROVE StorageNewest'
  <2>1. UNCHANGED <<storage, memory>>
    BY <1>9 DEF ServerStep, client
  <2>2. UNCHANGED session \/ \E s : Server!Issue(s)
    BY <1>9
    DEF ServerStep, Server!ServerStep, Server!FindToken, Server!DeleteToken, Server!CreateToken,
        Server!Break, Server!Return
  <2>3. \A h \in Server!Issued : session'[h] = session[h]
    BY <1>t, <2>2, SessionsAssumption
    DEF Server!Issue, TypeOK, Server!TypeOK, Server!Issued, Server!Tokens
  <2> QED
    BY <1>t, <2>1, <2>3, StoredStays
<1>10. ASSUME NEW g \in 1 .. issued, Expire(g) \/ AccessExpires(g) PROVE StorageNewest'
  BY <1>10, <1>t, StoredStays DEF Expire, Server!Expire, AccessExpires, client, server
<1>11. CASE CleanUp
  BY <1>11, <1>t, StoredStays DEF CleanUp, Server!CleanUp, client
<1>12. CASE UNCHANGED vars
  BY <1>12, <1>t, StoredStays DEF vars, server, client
<1> QED
  BY <1>1, <1>2, <1>3, <1>4, <1>5, <1>6, <1>7, <1>8, <1>9, <1>10, <1>11, <1>12
  DEF Next, TabStep

LEMMA InitPairs == Init => PairsInv
<1> SUFFICES ASSUME Init PROVE PairsInv
  OBVIOUS
<1>1. StorageNewest
  BY DEF Init, StorageNewest
<1> QED
  BY <1>1, InitTypes, InitAnswers DEF PairsInv

LEMMA StepPairs == PairsInv /\ [Next]_vars => PairsInv'
  BY StepTypes, StepAnswers, StepStorage DEF PairsInv

LEMMA PairsAlways == Spec => []PairsInv
  BY InitPairs, StepPairs, PTL DEF Spec

-----------------------------------------------------------------------------
(* Staying signed in *)

\* One tab that is not reloaded while it waits, effects that run at once, and a
\* server on which no refresh is broken off.  Without any of them the property
\* fails, as the code does.
OneTab ==
    /\ \A t, u \in Tabs : t = u
    /\ PromptEffects /\ ~Abandon
    /\ MaxDrops = 0

Alive == rows \cup expired

Working == {c \in Calls : calls[c].pc # "idle"}

\* The pair of the tab is good until the tab presents it, and then the call it
\* waits for gets on unless the token has expired; what is left of calls that
\* the tab no longer waits for is about other tokens.
TabInv(t) ==
    /\ ref[t] = memory[t] /\ storage = memory[t]
    /\ promise[t] = NoPromise =>
        /\ storage \in Alive \cup {0}
        /\ \A d \in Working : calls[d].token # storage
    /\ promise[t] # NoPromise =>
        /\ promise[t] \in Working
        /\ calls[promise[t]].pc \in {"find", "delete"} => calls[promise[t]].token \in Alive
        /\ calls[promise[t]].pc = "refused" => calls[promise[t]].token \in expired
        /\ calls[promise[t]].pc = "answered" => calls[promise[t]].fresh \in Alive
        /\ \A d \in Working \ {promise[t]} : calls[d].token # calls[promise[t]].token

SignedInv == PairsInv /\ \A t \in Tabs : TabInv(t)

\* Tokens only become unusable, for a call that waits, by expiring.
LEMMA SameCallsKeepTab ==
  ASSUME NEW t \in Tabs, TabInv(t), UNCHANGED <<storage, memory, ref, promise, calls>>,
         Alive \subseteq Alive', expired \subseteq expired'
  PROVE  TabInv(t)'
BY DEF TabInv, Working

LEMMA WorkingTokens == TypeOK => \A c \in Working : calls[c].token \in Server!Issued
  BY DEF Working, TypeOK, Server!TypeOK

\* Nothing is left to claim of a tab that has no pair and waits for nothing.
LEMMA SignedOutTab ==
  ASSUME NEW t \in Tabs, TypeOK',
         storage' = 0, memory'[t] = 0, ref'[t] = 0, promise'[t] = NoPromise
  PROVE  TabInv(t)'
<1>1. \A d \in Working' : calls'[d].token # 0
  BY DEF Working, TypeOK, Server!TypeOK, Server!Issued
<1> QED
  BY <1>1 DEF TabInv

\* A call the tab does not wait for.
LEMMA OtherCallKeepsTab ==
  ASSUME TypeOK, AnswersInv, NEW t \in Tabs, TabInv(t),
         UNCHANGED <<storage, memory, ref, promise, expired>>,
         NEW c \in Calls, c # promise[t],
         \A d \in Calls \ {c} : calls'[d] = calls[d],
         c \in Working' => c \in Working /\ calls'[c].token = calls[c].token,
         Alive \subseteq Alive' \cup {calls[c].token},
         c \notin Working => Alive \subseteq Alive'
  PROVE  TabInv(t)'
<1>1. Working' \ {c} = Working \ {c}
  BY DEF Working
<1>2. CASE promise[t] = NoPromise
  <2>1. \A d \in Working' : calls'[d].token # storage
    BY <1>1, <1>2 DEF TabInv, Working
  <2>2. storage \in Alive' \cup {0}
    BY <1>2 DEF TabInv, Working
  <2> QED
    BY <1>2, <2>1, <2>2 DEF TabInv
<1>3. CASE promise[t] # NoPromise
  <2> DEFINE p == promise[t]
  <2>1. p \in Working /\ p \in Working' /\ calls'[p] = calls[p] /\ p \in Calls
    BY <1>1, <1>3 DEF TabInv, Working
  <2>2. \A d \in Working' \ {p} : calls'[d].token # calls'[p].token
    BY <1>1, <1>3, <2>1 DEF TabInv, Working
  <2>3. calls[p].token \in Alive => calls[p].token \in Alive'
    BY <1>1, <1>3, <2>1 DEF TabInv, Working
  <2>4. calls[p].pc = "answered" => calls[p].fresh \in Alive'
    <3>1. calls[p].pc = "answered" => calls[c].token # calls[p].fresh
      BY <2>1 DEF AnswersInv, Undelivered
    <3> QED
      BY <1>3, <3>1 DEF TabInv
  <2> QED
    BY <1>3, <2>1, <2>2, <2>3, <2>4 DEF TabInv
<1> QED
  BY <1>2, <1>3

\* The call the tab waits for.
LEMMA OwnCallKeepsTab ==
  ASSUME TypeOK, NEW t \in Tabs, TabInv(t),
         UNCHANGED <<storage, memory, ref, promise, expired>>,
         NEW c \in Calls, c = promise[t], NoPromise \notin Calls,
         \A d \in Calls \ {c} : calls'[d] = calls[d],
         calls'[c].token = calls[c].token, calls'[c].pc # "idle",
         calls'[c].pc \in {"find", "delete"} => calls[c].token \in Alive',
         calls'[c].pc = "refused" => calls[c].token \in expired,
         calls'[c].pc = "answered" => calls'[c].fresh \in Alive'
  PROVE  TabInv(t)'
BY DEF TabInv, Working

LEMMA ServerKeepsTab ==
  ASSUME OneTab, SignedInv, TypeOK', UNCHANGED client, NEW t \in Tabs,
         NEW c \in Calls, Server!ServerStep(c)
  PROVE  TabInv(t)'
<1>1. /\ TypeOK /\ ServerInv /\ AnswersInv /\ TabInv(t) /\ NoPromise \notin Calls
      /\ calls \in [Calls -> Server!Call] /\ calls[c] \in Server!Call
  BY SessionsAssumption DEF SignedInv, PairsInv, TypeOK, Server!TypeOK
<1>2. UNCHANGED <<storage, memory, ref, promise>>
  BY DEF client
<1>3. c = promise[t] /\ calls[c].pc \in {"find", "delete"} => calls[c].token \in Alive
  BY <1>1 DEF TabInv
<1>4. CASE Server!FindToken(c)
  <2>1. /\ UNCHANGED expired /\ calls[c].pc = "find"
        /\ Alive' = Alive
        /\ \A d \in Calls \ {c} : calls'[d] = calls[d]
        /\ calls'[c].token = calls[c].token
        /\ calls'[c].pc \in {"delete", "refused"}
        /\ calls'[c].pc = "delete" <=> calls[c].token \in rows \ expired
    <3>1. CASE calls[c].token \in rows \ expired
      BY <1>1, <1>4, <3>1 DEF Server!FindToken, Alive, Server!Call
    <3>2. CASE calls[c].token \notin rows \ expired
      BY <1>1, <1>4, <3>2 DEF Server!FindToken, Alive, Server!Call
    <3> QED
      BY <3>1, <3>2
  <2>2. CASE c = promise[t]
    BY <1>1, <1>2, <1>3, <2>1, <2>2, OwnCallKeepsTab DEF Alive
  <2>3. CASE c # promise[t]
    BY <1>1, <1>2, <2>1, <2>3, OtherCallKeepsTab DEF Working
  <2> QED
    BY <2>2, <2>3
<1>5. CASE Server!DeleteToken(c)
  <2>1. /\ UNCHANGED expired /\ calls[c].pc = "delete"
        /\ rows' = rows \ {calls[c].token}
        /\ \A d \in Calls \ {c} : calls'[d] = calls[d]
        /\ calls'[c].token = calls[c].token
        /\ calls'[c].pc = IF calls[c].token \in rows THEN "create" ELSE "refused"
    BY <1>1, <1>5 DEF Server!DeleteToken, Server!Call
  <2>2. CASE c = promise[t]
    BY <1>1, <1>2, <1>3, <2>1, <2>2, OwnCallKeepsTab DEF Alive
  <2>3. CASE c # promise[t]
    BY <1>1, <1>2, <2>1, <2>3, OtherCallKeepsTab DEF Working, Alive
  <2> QED
    BY <2>2, <2>3
<1>6. CASE Server!CreateToken(c)
  <2>1. /\ UNCHANGED expired /\ calls[c].pc = "create"
        /\ rows' = rows \cup {issued + 1}
        /\ \A d \in Calls \ {c} : calls'[d] = calls[d]
    BY <1>1, <1>6 DEF Server!CreateToken, Server!Issue
  <2>2. calls' = [calls EXCEPT ![c] = [calls[c] EXCEPT !.pc = "answered", !.fresh = issued + 1]]
    BY <1>1, <1>6 DEF Server!CreateToken, Server!Call
  <2>3. /\ calls'[c].token = calls[c].token /\ calls'[c].pc = "answered"
        /\ calls'[c].fresh = issued + 1
    BY <1>1, <2>2 DEF Server!Call
  <2>4. CASE c = promise[t]
    BY <1>1, <1>2, <2>1, <2>3, <2>4, OwnCallKeepsTab DEF Alive
  <2>5. CASE c # promise[t]
    BY <1>1, <1>2, <2>1, <2>3, <2>5, OtherCallKeepsTab DEF Working, Alive
  <2> QED
    BY <2>4, <2>5
<1>7. ~Server!Break(c)
  <2>1. drops = 0
    BY <1>1 DEF OneTab, TypeOK, Server!TypeOK
  <2> QED
    BY <2>1 DEF OneTab, Server!Break
<1> QED
  BY <1>4, <1>5, <1>6, <1>7 DEF Server!ServerStep

LEMMA ReturnKeepsTab ==
  ASSUME SignedInv, UNCHANGED client, NEW t \in Tabs, NEW c \in Calls, c # promise[t],
         Server!Return(c)
  PROVE  TabInv(t)'
<1>1. TypeOK /\ AnswersInv /\ TabInv(t) /\ calls \in [Calls -> Server!Call]
  BY DEF SignedInv, PairsInv, TypeOK, Server!TypeOK
<1>2. /\ UNCHANGED <<storage, memory, ref, promise, expired>> /\ Alive' = Alive
      /\ \A d \in Calls \ {c} : calls'[d] = calls[d]
      /\ calls'[c].pc = "idle"
  BY <1>1 DEF client, Server!Return, Server!NoCall, Alive
<1> QED
  BY <1>1, <1>2, OtherCallKeepsTab DEF Working

LEMMA LoginKeepsTab ==
  ASSUME OneTab, SignedInv, NEW t \in Tabs, Login(t)
  PROVE  TabInv(t)'
<1>1. TypeOK /\ AnswersInv /\ TabInv(t)
  BY DEF SignedInv, PairsInv
<1>2. /\ storage' = issued + 1 /\ memory'[t] = issued + 1 /\ ref'[t] = issued + 1
      /\ UNCHANGED <<calls, promise, expired>> /\ rows' = rows \cup {issued + 1}
  BY <1>1 DEF Login, SetTokens, OneTab, Server!Login, Server!Issue, TypeOK
<1>3. \A d \in Calls : calls[d].token # issued + 1
  BY <1>1, SessionsAssumption DEF AnswersInv, Known, TypeOK, Server!TypeOK
<1> QED
  BY <1>1, <1>2, <1>3 DEF TabInv, Working, Alive

LEMMA LogoutKeepsTab ==
  ASSUME OneTab, SignedInv, NEW t \in Tabs, Logout(t)
  PROVE  TabInv(t)'
<1>1. TypeOK /\ TabInv(t)
  BY DEF SignedInv, PairsInv
<1>2. /\ storage' = 0 /\ memory'[t] = 0 /\ ref'[t] = 0
      /\ UNCHANGED <<calls, promise, expired, rows>>
  BY <1>1 DEF Logout, SetTokens, OneTab, TypeOK, server
<1>3. \A d \in Working : calls[d].token # 0
  BY <1>1, WorkingTokens DEF Server!Issued
<1> QED
  BY <1>1, <1>2, <1>3 DEF TabInv, Working, Alive

LEMMA AskKeepsTab ==
  ASSUME SignedInv, NEW t \in Tabs, NEW r \in Requests, AskForTokens(t, r)
  PROVE  TabInv(t)'
<1>1. TypeOK /\ TabInv(t) /\ NoPromise \notin Calls /\ calls \in [Calls -> Server!Call]
  BY SessionsAssumption DEF SignedInv, PairsInv, TypeOK, Server!TypeOK
<1>2. UNCHANGED <<storage, memory, ref>> /\ ref[t] # 0
  BY DEF AskForTokens
<1>3. CASE UNCHANGED <<server, promise>>
  BY <1>1, <1>2, <1>3, SameCallsKeepTab DEF server, Alive
<1>4. ASSUME promise[t] = NoPromise, NEW c \in Calls, Server!Present(c, ref[t]),
             promise' = [promise EXCEPT ![t] = c]
      PROVE  TabInv(t)'
  <2>1. /\ calls[c].pc = "idle" /\ calls'[c].pc = "find" /\ calls'[c].token = storage
        /\ \A d \in Calls \ {c} : calls'[d] = calls[d]
        /\ UNCHANGED <<rows, expired>>
    BY <1>1, <1>4 DEF Server!Present, TabInv
  <2>2. promise'[t] = c /\ c # NoPromise
    BY <1>1, <1>4 DEF TypeOK
  <2>3. storage \in Alive
    BY <1>1, <1>2, <1>4 DEF TabInv
  <2>4. \A d \in Working' \ {c} : calls'[d].token # storage
    BY <1>1, <1>4, <2>1 DEF TabInv, Working
  <2> QED
    BY <1>1, <1>2, <2>1, <2>2, <2>3, <2>4 DEF TabInv, Working, Alive
<1> QED
  BY <1>3, <1>4 DEF AskForTokens

LEMMA RefreshedKeepsTab ==
  ASSUME OneTab, SignedInv, NEW t \in Tabs, Refreshed(t)
  PROVE  TabInv(t)'
<1> DEFINE c == promise[t]
           g == calls[c].fresh
<1>1. /\ TypeOK /\ AnswersInv /\ TabInv(t) /\ calls \in [Calls -> Server!Call]
      /\ c \in Calls /\ c # NoPromise
  BY DEF Refreshed, SignedInv, PairsInv, TypeOK, Server!TypeOK
<1>2. /\ storage' = g /\ memory'[t] = g /\ ref'[t] = g /\ promise'[t] = NoPromise
      /\ UNCHANGED <<rows, expired>> /\ calls[c].pc = "answered"
  BY <1>1 DEF Refreshed, SetTokens, OneTab, Server!Return, TypeOK
<1>3. /\ calls'[c].pc = "idle"
      /\ \A d \in Calls \ {c} : calls'[d] = calls[d]
  BY <1>1 DEF Refreshed, Server!Return, Server!NoCall
<1>4. g \in Alive /\ \A d \in Calls : calls[d].token # g
  BY <1>1, <1>2 DEF TabInv, AnswersInv, Undelivered
<1>5. \A d \in Working' : calls'[d].token # g
  BY <1>3, <1>4 DEF Working
<1> HIDE DEF c, g
<1> QED
  BY <1>2, <1>4, <1>5 DEF TabInv, Alive

LEMMA InitSigned == Init => SignedInv
<1> SUFFICES ASSUME Init PROVE SignedInv
  OBVIOUS
<1>1. Working = {}
  BY DEF Init, Server!Init, Server!NoCall, Working
<1> QED
  BY <1>1, InitPairs DEF Init, SignedInv, TabInv

LEMMA StepSigned == OneTab /\ SignedInv /\ [Next]_vars => SignedInv'
<1> SUFFICES ASSUME OneTab, SignedInv, [Next]_vars, NEW t \in Tabs PROVE TabInv(t)'
  BY StepPairs DEF SignedInv
<1>t. TypeOK /\ TypeOK' /\ TabInv(t)
  BY StepPairs DEF SignedInv, PairsInv
<1>o. \A u \in Tabs : u = t
  BY DEF OneTab
<1>1. CASE Effect(t) \/ Login(t) \/ Logout(t)
  <2>1. ~Effect(t)
    BY <1>t DEF Effect, TabInv
  <2> QED
    BY <1>1, <2>1, LoginKeepsTab, LogoutKeepsTab
<1>2. CASE Reload(t)
  <2>1. /\ promise[t] = NoPromise /\ promise'[t] = NoPromise
        /\ storage' = storage /\ memory'[t] = storage /\ ref'[t] = storage
        /\ UNCHANGED <<calls, rows, expired>>
    BY <1>2, <1>t DEF Reload, OneTab, TypeOK, server
  <2> QED
    BY <1>t, <2>1 DEF TabInv, Working, Alive
<1>3. ASSUME NEW r \in Requests, Send(t, r) \/ Answer(t, r) PROVE TabInv(t)'
  BY <1>3, <1>t, SameCallsKeepTab DEF Send, Answer, server, Alive
<1>4. ASSUME SignOut(t) PROVE TabInv(t)'
  <2>1. storage' = 0 /\ memory'[t] = 0 /\ ref'[t] = 0 /\ promise'[t] = NoPromise
    BY <1>4, <1>t DEF SignOut, TypeOK
  <2> QED
    BY <1>t, <2>1, SignedOutTab
<1>5. ASSUME NEW r \in Requests, GiveUp(t, r) \/ AskForTokens(t, r) PROVE TabInv(t)'
  BY <1>4, <1>5, AskKeepsTab DEF GiveUp
<1>6. CASE Refreshed(t) \/ NotRefreshed(t)
  BY <1>4, <1>6, RefreshedKeepsTab DEF NotRefreshed
<1>7. ASSUME NEW c \in Calls, ServerStep(c) PROVE TabInv(t)'
  <2>1. UNCHANGED client /\ (Server!ServerStep(c) \/ (c # promise[t] /\ Server!Return(c)))
    BY <1>7 DEF ServerStep
  <2> QED
    BY <1>t, <2>1, ServerKeepsTab, ReturnKeepsTab
<1>8. ASSUME NEW g \in 1 .. issued, Expire(g) \/ AccessExpires(g) PROVE TabInv(t)'
  <2>1. /\ UNCHANGED <<storage, memory, ref, promise, calls, rows>>
        /\ expired \subseteq expired'
    BY <1>8 DEF Expire, Server!Expire, AccessExpires, client, server
  <2> QED
    BY <1>t, <2>1, SameCallsKeepTab DEF Alive
<1>9. CASE CleanUp
  <2>1. /\ UNCHANGED <<storage, memory, ref, promise, calls, expired>>
        /\ Alive' = Alive
    BY <1>9 DEF CleanUp, Server!CleanUp, client, Alive
  <2> QED
    BY <1>t, <2>1, SameCallsKeepTab
<1>10. CASE UNCHANGED vars
  BY <1>10, <1>t, SameCallsKeepTab DEF vars, server, client, Alive
<1> QED
  BY <1>o, <1>1, <1>2, <1>3, <1>5, <1>6, <1>7, <1>8, <1>9, <1>10 DEF Next, TabStep

LEMMA SignedAlways == OneTab => (Spec => []SignedInv)
<1> SUFFICES ASSUME OneTab PROVE Spec => []SignedInv
  OBVIOUS
<1>1. SignedInv /\ [Next]_vars => SignedInv'
  BY StepSigned
<1> QED
  BY <1>1, InitSigned, PTL DEF Spec

\* The only step in which a tab loses its pair and its requests is the answer to
\* a call that presented an expired token.
LEMMA OnlyExpiry ==
  ASSUME OneTab, SignedInv, [Next]_vars, NEW t \in Tabs,
         memory[t] # 0, memory'[t] = 0, reqs'[t] # reqs[t]
  PROVE  calls[promise[t]].token \in expired
<1>t. TypeOK /\ AnswersInv /\ TabInv(t)
  BY DEF SignedInv, PairsInv
<1>1. ~(UNCHANGED memory) /\ ~(UNCHANGED reqs)
  BY DEF OneTab
<1>2. ~Reload(t)
  BY <1>t DEF Reload, TypeOK, TabInv
<1>3. \A r \in Requests : ~GiveUp(t, r)
  BY <1>t DEF GiveUp, TabInv
<1>4. ~Refreshed(t)
  <2> SUFFICES ASSUME Refreshed(t) PROVE FALSE
    OBVIOUS
  <2>1. /\ memory'[t] = calls[promise[t]].fresh /\ calls[promise[t]].pc = "answered"
        /\ promise[t] \in Calls
    BY <1>t DEF Refreshed, SetTokens, TypeOK
  <2>2. calls[promise[t]].fresh # 0
    BY <1>t, <2>1 DEF AnswersInv, Undelivered, Server!Issued
  <2> QED
    BY <2>1, <2>2
<1>5. NotRefreshed(t)
  <2>1. \A u \in Tabs : u = t
    BY DEF OneTab
  <2>2. ~Effect(t) /\ ~Login(t) /\ ~Logout(t)
    BY <1>1 DEF Effect, Login, Logout
  <2>3. \A r \in Requests : ~Send(t, r) /\ ~Answer(t, r) /\ ~AskForTokens(t, r)
    BY <1>1 DEF Send, Answer, AskForTokens
  <2>4. ~(\E c \in Calls : ServerStep(c)) /\ ~CleanUp /\ ~(UNCHANGED vars)
    BY <1>1 DEF ServerStep, CleanUp, client, vars
  <2>5. ~(\E g \in 1 .. issued : Expire(g) \/ AccessExpires(g))
    BY <1>1 DEF Expire, AccessExpires, client
  <2> QED
    BY <1>2, <1>3, <1>4, <2>1, <2>2, <2>3, <2>4, <2>5 DEF Next, TabStep
<1> QED
  BY <1>5, <1>t DEF NotRefreshed, TabInv

-----------------------------------------------------------------------------
(* Theorems *)

\* The tabs and the server stay well-typed: no tab holds a pair that was never
\* issued, and no promise is of a call that does not exist.
THEOREM TypeCorrect == Spec => []TypeOK
  BY TypesAlways, PTL

\* Seen from the refresh_tokens table, any number of tabs with their interceptors
\* are callers like any others: the composition implements RefreshTokens.
THEOREM Implements == Spec => Server!Spec
<1>1. Init => Server!Init
  BY DEF Init
<1>2. TypeOK /\ [Next]_vars => [Server!Next]_(Server!vars)
  BY StepImplements DEF server, Server!vars
<1> QED
  BY <1>1, <1>2, TypeCorrect, PTL DEF Spec, Server!Spec

\* So, whatever the tabs send twice, abandon or lose, of a session only the
\* newest token can be used.
THEOREM OnlyNewestUsable == Spec => []Server!OnlyNewestUsable
<1>1. ServerInv => Server!OnlyNewestUsable
  BY DEF ServerInv
<1> QED
  BY <1>1, TypesAlways, PTL

\* A page never starts from a pair older than one another tab of the session has
\* in its store, in whatever order tabs refresh, log out and reload.
THEOREM StorageStaysNewest == Spec => []StorageNewest
<1>1. PairsInv => StorageNewest
  BY DEF PairsInv
<1> QED
  BY <1>1, PairsAlways, PTL

\* The 401 interceptor keeps a tab signed in for as long as its refresh tokens
\* last, for any number of requests that meet the expiry of the access token.
THEOREM TabStaysSignedIn == OneTab => (Spec => StaysSignedIn)
<1> SUFFICES ASSUME OneTab PROVE Spec => StaysSignedIn
  OBVIOUS
<1>1. SignedInv /\ [Next]_vars =>
        [\A t \in Tabs :
            memory[t] # 0 /\ memory'[t] = 0 /\ reqs'[t] # reqs[t]
                => calls[promise[t]].token \in expired]_vars
  BY OnlyExpiry
<1> QED
  BY <1>1, SignedAlways, PTL DEF Spec, StaysSignedIn

=============================================================================
