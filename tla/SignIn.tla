------------------------------- MODULE SignIn -------------------------------
(***************************************************************************)
(* Signing in with Google, over RefreshTokens: the callback of the server  *)
(* creates a session and sends the browser a one-time code, for which the  *)
(* browser asks for the session's tokens.  The codes are a Map in the      *)
(* memory of the server: it has a largest size, entries that live for a    *)
(* minute, and is empty after a restart.                                   *)
(*                                                                         *)
(* A code is named after the refresh token it stands for.  Here a token is *)
(* presented only once a client has it, and stays valid for much longer    *)
(* than a code.                                                            *)
(***************************************************************************)
EXTENDS RefreshTokens, FiniteSets

CONSTANTS
    MaxCodes,   \* OAUTH_CODES_MAX_SIZE
    CodeTTL     \* OAUTH_CODE_TTL_MS, in ticks

ASSUME CodesAssumption == MaxCodes \in Nat \ {0} /\ CodeTTL \in Nat

VARIABLES
    arriving,   \* tokens of callbacks that have yet to store their code
    codes,      \* the keys of oauthCodes
    order,      \* when each was stored; 0: never
    stored,     \* how many have been
    age,        \* ticks since then, while the code is not used
    lost,       \* codes a restart has forgotten
    held        \* tokens a client has got

codeVars == <<arriving, codes, order, stored, age, lost, held>>
signInVars == <<vars, codeVars>>

EvictCount == (MaxCodes + 4) \div 5

SignInTypeOK ==
    /\ TypeOK
    /\ arriving \in SUBSET Issued
    /\ codes \in SUBSET (Issued \ arriving)
    /\ order \in [Tokens -> Nat]
    /\ stored \in Nat
    /\ \A g \in Tokens : order[g] <= stored
    /\ \A g \in codes : order[g] > 0
    /\ \A g \in Tokens : order[g] > 0 => g \in Issued \ arriving
    /\ age \in [Tokens -> 0 .. CodeTTL + 1]
    /\ lost \in SUBSET Issued
    /\ held \in SUBSET (Issued \ arriving)

SignInInit ==
    /\ Init
    /\ arriving = {}
    /\ codes = {}
    /\ order = [g \in Tokens |-> 0]
    /\ stored = 0
    /\ age = [g \in Tokens |-> 0]
    /\ lost = {}
    /\ held = {}

-----------------------------------------------------------------------------

\* register and login answer with the token itself.
PasswordLogin ==
    /\ Login
    /\ held' = held \cup {issued + 1}
    /\ UNCHANGED <<arriving, codes, order, stored, age, lost>>

\* googleCallback: googleLogin ...
GoogleLogin ==
    /\ Login
    /\ arriving' = arriving \cup {issued + 1}
    /\ UNCHANGED <<codes, order, stored, age, lost, held>>

\* The codes by age: those stored before g, and after it.
Before(g) == {h \in codes : order[h] < order[g]}
After(g) == {h \in Tokens : order[h] > order[g]}

\* Fault: the newest codes make room.
KeptOldest ==
    IF Cardinality(codes) >= MaxCodes
    THEN {g \in codes : Cardinality(codes \cap After(g)) >= EvictCount} ELSE codes

\* Fault: room is made one code too late.
KeptLate ==
    IF Cardinality(codes) > MaxCodes
    THEN {g \in codes : Cardinality(Before(g)) >= EvictCount} ELSE codes

\* The codes that stay when another is stored: a full map loses its oldest.
Kept ==
    IF Cardinality(codes) >= MaxCodes
    THEN {g \in codes : Cardinality(Before(g)) >= EvictCount} ELSE codes

\* Fault: a callback is worked off again, with the same tokens.
StoreCodeRetried(g) ==
    /\ g \in arriving
    /\ codes' = Kept \cup {g}
    /\ stored' = stored + 1
    /\ order' = [order EXCEPT ![g] = stored + 1]
    /\ UNCHANGED <<vars, arriving, age, lost, held>>

\* ... and storeOAuthCode, which other callbacks may reach first.
StoreCode(g) ==
    /\ g \in arriving
    /\ arriving' = arriving \ {g}
    /\ codes' = Kept \cup {g}
    /\ stored' = stored + 1
    /\ order' = [order EXCEPT ![g] = stored + 1]
    /\ UNCHANGED <<vars, age, lost, held>>

Expired(g) == age[g] > CodeTTL

\* Fault: a code that has been used stays until it expires.
ExchangeKeeps(g) ==
    /\ order[g] > 0
    /\ held' = IF g \in codes /\ ~Expired(g) THEN held \cup {g} ELSE held
    /\ UNCHANGED <<vars, arriving, codes, order, stored, age, lost>>

\* exchangeOAuthCode, with any code a browser was sent, and again with it.
Exchange(g) ==
    /\ order[g] > 0
    /\ codes' = codes \ {g}
    /\ held' = IF g \in codes /\ ~Expired(g) THEN held \cup {g} ELSE held
    /\ UNCHANGED <<vars, arriving, order, stored, age, lost>>

\* Time passes for the codes that have not been used.
Tick ==
    /\ age' = [g \in Tokens |->
                IF order[g] > 0 /\ g \notin held /\ ~Expired(g) THEN age[g] + 1 ELSE age[g]]
    /\ UNCHANGED <<vars, arriving, codes, order, stored, lost, held>>

\* cleanupInterval.
CleanUpCodes ==
    /\ codes' = {g \in codes : ~Expired(g)}
    /\ UNCHANGED <<vars, arriving, order, stored, age, lost, held>>

\* The codes are gone, the tokens are not, and callbacks under way come to
\* nothing; for a refresh call the restart is a Break.
Restart ==
    /\ codes' = {}
    /\ lost' = lost \cup codes
    /\ arriving' = {}
    /\ UNCHANGED <<vars, order, stored, age, held>>

\* The steps of RefreshTokens.  A token that no client has is presented by none.
TokenStep ==
    /\ \/ \E c \in Calls :
            \/ \E g \in held : Present(c, g)
            \/ ServerStep(c)
       \/ \E g \in held : Logout(g)
       \/ \E g \in Issued : (g \in arriving \cup codes => Expired(g)) /\ Expire(g)
       \/ CleanUp
    /\ UNCHANGED codeVars

\* The caller gets the answer of a refresh.
Answered(c) ==
    /\ Return(c)
    /\ held' = IF calls[c].pc = "answered" THEN held \cup {calls[c].fresh} ELSE held
    /\ UNCHANGED <<arriving, codes, order, stored, age, lost>>

SignInNext ==
    \/ PasswordLogin
    \/ GoogleLogin
    \/ \E g \in Tokens : StoreCode(g) \/ Exchange(g)
    \/ Tick
    \/ CleanUpCodes
    \/ Restart
    \/ TokenStep
    \/ \E c \in Calls : Answered(c)

SignInSpec == SignInInit /\ [][SignInNext]_signInVars

-----------------------------------------------------------------------------
(* Properties *)

\* The map never grows past its bound, in whatever order callbacks come.
CodesBounded == Cardinality(codes) <= MaxCodes

\* A sign-in is not lost to those of others: a code that has not expired is there
\* for its browser, or was used, unless four fifths of the map have been stored
\* after it or the server has been restarted.
CodeSurvives ==
    \A g \in Tokens \ lost :
        order[g] > 0 /\ ~Expired(g) /\ Cardinality(After(g)) <= MaxCodes - EvictCount
            => g \in codes \cup held

\* What a code will be answered with works, and for one browser only: nobody has
\* got, presented, rotated or revoked the tokens behind a code that is waiting.
WaitingUsable ==
    \A g \in codes : ~Expired(g) =>
        /\ g \in rows \ held
        /\ \A c \in Calls : calls[c].token # g /\ calls[c].fresh # g

=============================================================================
