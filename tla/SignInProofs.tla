---------------------------- MODULE SignInProofs ----------------------------
(***************************************************************************)
(* Theorems about SignIn, for maps and code lifetimes of any size.  Every  *)
(* step of it is one of RefreshTokens, or leaves the tokens alone, so what *)
(* is proved of those carries over.  That a waiting code is good follows   *)
(* from HandOver: the tokens behind it have never left the server, and     *)
(* whatever takes a row away is about a token that has.  That a code is    *)
(* not crowded out is a matter of counting the codes stored before and     *)
(* after it.                                                               *)
(***************************************************************************)
EXTENDS SignIn, RefreshTokensProofs, FiniteSetTheorems

\* Nobody has got g or presented it, and no refresh has answered with it.
Untouched(g) ==
    /\ g \notin held
    /\ \A c \in Calls : calls[c].token # g /\ calls[c].fresh # g

HandOver ==
    /\ SignInTypeOK
    /\ \A c \in Calls : /\ calls[c].fresh \in Issued \cup {0}
                        /\ calls[c].pc = "answered" => calls[c].fresh \in Issued
                        /\ calls[c].pc = "idle" => calls[c].token = 0
    /\ \A g \in Tokens : order[g] = 0 => age[g] = 0
    /\ \A g \in arriving \cup codes :
        Untouched(g) /\ (~Expired(g) => g \in rows \ expired)

-----------------------------------------------------------------------------
(* The tokens *)

LEMMA StepRefines == SignInTypeOK /\ [SignInNext]_signInVars => [Next]_vars
<1> SUFFICES ASSUME SignInTypeOK, [SignInNext]_signInVars PROVE [Next]_vars
  OBVIOUS
<1>h. held \subseteq Issued
  BY DEF SignInTypeOK
<1>1. CASE PasswordLogin \/ GoogleLogin
  BY <1>1 DEF PasswordLogin, GoogleLogin, Next
<1>2. ASSUME NEW g \in Tokens, StoreCode(g) \/ Exchange(g) PROVE UNCHANGED vars
  BY <1>2 DEF StoreCode, Exchange
<1>3. CASE Tick \/ CleanUpCodes \/ Restart
  BY <1>3 DEF Tick, CleanUpCodes, Restart
<1>4. CASE TokenStep
  BY <1>4, <1>h DEF TokenStep, Next
<1>5. ASSUME NEW c \in Calls, Answered(c) PROVE Next
  BY <1>5 DEF Answered, Next
<1>6. CASE UNCHANGED signInVars
  BY <1>6 DEF signInVars
<1> QED
  BY <1>1, <1>2, <1>3, <1>4, <1>5, <1>6 DEF SignInNext

-----------------------------------------------------------------------------
(* Handing tokens over *)

LEMMA InitHandOver == SignInInit => HandOver
<1> SUFFICES ASSUME SignInInit PROVE HandOver
  OBVIOUS
<1>1. TypeOK
  BY InitTypeOK DEF SignInInit
<1>2. SignInTypeOK
  <2>1. age \in [Tokens -> 0 .. CodeTTL + 1]
    BY CodesAssumption DEF SignInInit
  <2> QED
    BY <1>1, <2>1 DEF SignInInit, SignInTypeOK
<1>3. \A c \in Calls : calls[c].fresh = 0 /\ calls[c].pc = "idle"
  BY DEF SignInInit, Init, NoCall
<1> QED
  BY <1>2, <1>3, InitTypeOK DEF HandOver, SignInInit, Init, NoCall

\* Until a client has it, a token is presented by no call, and stays where it
\* is whatever the calls about other tokens do.
LEMMA TokenStepKeeps ==
  ASSUME HandOver, TokenStep, TypeOK'
  PROVE  HandOver'
<1>c. UNCHANGED codeVars /\ UNCHANGED <<arriving, codes, order, stored, age, lost, held>>
  BY DEF TokenStep, codeVars
<1>i. Issued \subseteq Issued' /\ Issued \subseteq Tokens
  <2>1. issued' = issued \/ issued' = issued + 1
    BY DEF TokenStep, Present, ServerStep, FindToken, DeleteToken, CreateToken, Break,
           Logout, Expire, CleanUp, Issue
  <2>2. issued \in Nat /\ issued <= MaxTokens /\ MaxTokens \in Nat
    BY TokensAssumption DEF HandOver, SignInTypeOK, TypeOK
  <2> QED
    BY <2>1, <2>2 DEF Issued, Tokens
<1>t. SignInTypeOK'
  BY <1>c, <1>i DEF HandOver, SignInTypeOK
<1>o. \A g \in Tokens : order'[g] = 0 => age'[g] = 0
  BY <1>c DEF HandOver
<1>n. issued + 1 \notin Issued /\ issued + 1 # 0 /\ \A g \in Issued : g # issued + 1
  BY TokensAssumption DEF HandOver, SignInTypeOK, TypeOK, Issued
<1>calls. \A c \in Calls : /\ calls[c] \in Call
                           /\ calls[c].fresh \in Issued \cup {0}
                           /\ calls[c].pc = "answered" => calls[c].fresh \in Issued
  BY DEF HandOver, SignInTypeOK, TypeOK
<1>f. \A c \in Calls : /\ calls'[c].fresh \in Issued' \cup {0}
                       /\ calls'[c].pc = "answered" => calls'[c].fresh \in Issued'
                       /\ calls'[c].fresh \in {calls[c].fresh, 0, issued + 1}
  <2>1. ASSUME NEW d \in Calls, CreateToken(d)
        PROVE  \A c \in Calls : /\ calls'[c].fresh \in Issued' \cup {0}
                                /\ calls'[c].pc = "answered" => calls'[c].fresh \in Issued'
                                /\ calls'[c].fresh \in {calls[c].fresh, 0, issued + 1}
    <3>1. issued' = issued + 1 /\ issued + 1 \in Issued'
      BY <2>1, TokensAssumption DEF CreateToken, Issue, HandOver, SignInTypeOK, TypeOK, Issued
    <3>2. calls' = [calls EXCEPT ![d] = [calls[d] EXCEPT !.pc = "answered", !.fresh = issued + 1]]
      BY <2>1, <1>calls DEF CreateToken, Call, HandOver, SignInTypeOK, TypeOK
    <3>3. \A c \in Calls : c # d => calls'[c] = calls[c]
      BY <3>2 DEF HandOver, SignInTypeOK, TypeOK
    <3>4. calls'[d].fresh = issued + 1
      BY <3>2, <1>calls DEF Call, HandOver, SignInTypeOK, TypeOK
    <3> QED
      BY <3>1, <3>3, <3>4, <1>calls, <1>i
  <2>2. ASSUME NEW d \in Calls,
               (\E g \in held : Present(d, g)) \/ FindToken(d) \/ DeleteToken(d) \/ Break(d)
        PROVE  \A c \in Calls : /\ calls'[c].fresh \in Issued' \cup {0}
                                /\ calls'[c].pc = "answered" => calls'[c].fresh \in Issued'
                                /\ calls'[c].fresh \in {calls[c].fresh, 0, issued + 1}
    <3>1. \A c \in Calls : c # d => calls'[c] = calls[c]
      BY <2>2 DEF Present, FindToken, DeleteToken, Break, HandOver, SignInTypeOK, TypeOK
    <3>2. calls'[d].fresh \in {calls[d].fresh, 0} /\ calls'[d].pc # "answered"
      BY <2>2, <1>calls DEF Present, FindToken, DeleteToken, Break, Call,
                            HandOver, SignInTypeOK, TypeOK
    <3> QED
      BY <3>1, <3>2, <1>calls, <1>i
  <2>3. CASE UNCHANGED calls
    BY <2>3, <1>calls, <1>i
  <2> QED
    BY <2>1, <2>2, <2>3 DEF TokenStep, ServerStep, Logout, Expire, CleanUp
<1>d. \A c \in Calls : calls'[c].pc = "idle" => calls'[c].token = 0
  <2>1. ASSUME NEW d \in Calls, ServerStep(d) \/ \E h \in held : Present(d, h)
        PROVE  \A c \in Calls : calls'[c].pc = "idle" => calls'[c] = calls[c]
    BY <2>1, <1>calls DEF ServerStep, Present, FindToken, DeleteToken, CreateToken, Break, Call,
                          HandOver, SignInTypeOK, TypeOK
  <2>2. CASE UNCHANGED calls
    BY <2>2 DEF HandOver
  <2> QED
    BY <2>1, <2>2 DEF TokenStep, Logout, Expire, CleanUp, HandOver
<1>u. ASSUME NEW g \in arriving \cup codes
      PROVE  /\ Untouched(g)'
             /\ ~Expired(g)' => g \in rows' \ expired'
  <2>g. g \in Issued /\ g # 0 /\ g # issued + 1
    BY <1>n, TokensAssumption DEF HandOver, SignInTypeOK, Issued, TypeOK
  <2>u. g \notin held /\ \A c \in Calls : calls[c].token # g /\ calls[c].fresh # g
    BY DEF HandOver, Untouched
  <2>1. \A c \in Calls : calls'[c].fresh # g
    BY <1>f, <2>g, <2>u
  <2>2. \A c \in Calls : calls'[c].token # g
    <3>1. ASSUME NEW d \in Calls, NEW h \in held, Present(d, h)
          PROVE  \A c \in Calls : calls'[c].token # g
      BY <3>1, <2>u DEF Present, HandOver, SignInTypeOK, TypeOK
    <3>2. ASSUME NEW d \in Calls, ServerStep(d)
          PROVE  \A c \in Calls : calls'[c].token = calls[c].token
      BY <3>2, <1>calls DEF ServerStep, FindToken, DeleteToken, CreateToken, Break, Call,
                            HandOver, SignInTypeOK, TypeOK
    <3>3. CASE UNCHANGED calls
      BY <3>3, <2>u
    <3> QED
      BY <3>1, <3>2, <3>3, <2>u DEF TokenStep, Logout, Expire, CleanUp
  <2>3. Untouched(g)'
    BY <1>c, <2>1, <2>2, <2>u DEF Untouched
  <2>4. ASSUME ~Expired(g) PROVE g \in rows' \ expired'
    <3>1. g \in rows \ expired
      BY <2>4 DEF HandOver
    <3>2. ASSUME NEW c \in Calls, ServerStep(c) \/ \E h \in held : Present(c, h)
          PROVE  g \in rows' \ expired'
      BY <3>1, <3>2, <2>u DEF ServerStep, Present, FindToken, DeleteToken, CreateToken, Break, Issue
    <3>3. ASSUME NEW h \in held, Logout(h) PROVE g \in rows' \ expired'
      BY <3>1, <3>3, <2>u DEF Logout
    <3>4. ASSUME NEW h \in Issued, h \in arriving \cup codes => Expired(h), Expire(h)
          PROVE  g \in rows' \ expired'
      BY <3>1, <3>4, <2>4 DEF Expire
    <3>5. ASSUME CleanUp PROVE g \in rows' \ expired'
      BY <3>1, <3>5 DEF CleanUp
    <3> QED
      BY <3>2, <3>3, <3>4, <3>5 DEF TokenStep
  <2> QED
    BY <2>3, <2>4, <1>c DEF Expired
<1> QED
  BY <1>t, <1>o, <1>f, <1>d, <1>u, <1>c DEF HandOver

LEMMA LoginKeeps ==
  ASSUME HandOver, PasswordLogin \/ GoogleLogin, TypeOK'
  PROVE  HandOver'
<1>l. Login /\ UNCHANGED <<codes, order, stored, age, lost, expired, calls>>
  BY DEF PasswordLogin, GoogleLogin, Login
<1>n. issued \in Nat /\ issued < MaxTokens
  BY <1>l, TokensAssumption DEF Login, Issue, HandOver, SignInTypeOK, TypeOK
<1>i. /\ Issued' = Issued \cup {issued + 1}
      /\ issued + 1 \notin Issued
      /\ issued + 1 \in Tokens
      /\ issued + 1 # 0
      /\ rows' = rows \cup {issued + 1}
  BY <1>l, <1>n, TokensAssumption DEF Login, Issue, Issued, Tokens
<1>a. \/ held' = held \cup {issued + 1} /\ arriving' = arriving
      \/ arriving' = arriving \cup {issued + 1} /\ held' = held
  BY DEF PasswordLogin, GoogleLogin
<1>z. /\ order[issued + 1] = 0 /\ age[issued + 1] = 0
      /\ issued + 1 \notin arriving \cup codes \cup held \cup expired
  <2>1. order[issued + 1] = 0
    BY <1>i DEF HandOver, SignInTypeOK
  <2> QED
    BY <2>1, <1>i DEF HandOver, SignInTypeOK, TypeOK
<1>t. SignInTypeOK'
  <2>1. arriving' \in SUBSET Issued' /\ held' \in SUBSET (Issued' \ arriving')
    BY <1>i, <1>a, <1>z DEF HandOver, SignInTypeOK
  <2>2. codes' \in SUBSET (Issued' \ arriving') /\ lost' \in SUBSET Issued'
    BY <1>l, <1>i, <1>a, <1>z DEF HandOver, SignInTypeOK
  <2>3. \A g \in Tokens : order'[g] > 0 => g \in Issued' \ arriving'
    BY <1>l, <1>i, <1>a, <1>z DEF HandOver, SignInTypeOK
  <2> QED
    BY <1>l, <2>1, <2>2, <2>3 DEF HandOver, SignInTypeOK
<1>e. \A c \in Calls : calls[c].token # issued + 1 /\ calls[c].fresh # issued + 1
  BY <1>i DEF HandOver, SignInTypeOK, TypeOK
<1>f. \A c \in Calls : /\ calls'[c].fresh \in Issued' \cup {0}
                       /\ calls'[c].pc = "answered" => calls'[c].fresh \in Issued'
                       /\ calls'[c].pc = "idle" => calls'[c].token = 0
  BY <1>l, <1>i DEF HandOver
<1>u. ASSUME NEW g \in arriving' \cup codes'
      PROVE  Untouched(g)' /\ (~Expired(g)' => g \in rows' \ expired')
  <2>1. CASE g = issued + 1
    <3>1. g \notin held'
      BY <2>1, <1>a, <1>l, <1>z
    <3> QED
      BY <2>1, <3>1, <1>l, <1>i, <1>e, <1>z DEF Untouched
  <2>2. CASE g # issued + 1
    <3>1. g \in arriving \cup codes /\ (g \in held' => g \in held)
      BY <2>2, <1>a, <1>l
    <3> QED
      BY <3>1, <1>l, <1>i DEF HandOver, Untouched, Expired
  <2> QED
    BY <2>1, <2>2
<1>o. \A g \in Tokens : order'[g] = 0 => age'[g] = 0
  BY <1>l DEF HandOver
<1> QED
  BY <1>t, <1>f, <1>u, <1>o DEF HandOver

LEMMA CodeStepKeeps ==
  ASSUME HandOver, TypeOK', UNCHANGED vars,
         (\E g \in Tokens : StoreCode(g) \/ Exchange(g)) \/ Tick \/ CleanUpCodes \/ Restart
  PROVE  HandOver'
<1>v. UNCHANGED <<issued, rows, expired, calls>> /\ Issued' = Issued /\ Issued \subseteq Tokens
  BY TokensAssumption DEF vars, Issued, Tokens, HandOver, SignInTypeOK, TypeOK
<1>k. Kept \subseteq codes
  BY DEF Kept
<1>0. 0 <= CodeTTL /\ ~(0 > CodeTTL) /\ CodeTTL \in Nat
  BY CodesAssumption
<1>1. ASSUME NEW g \in Tokens, StoreCode(g) PROVE HandOver'
  <2>1. /\ g \in arriving /\ arriving' = arriving \ {g}
        /\ codes' \subseteq codes \cup {g}
        /\ order' = [order EXCEPT ![g] = stored + 1] /\ stored' = stored + 1
        /\ UNCHANGED <<age, lost, held>>
    BY <1>1, <1>k DEF StoreCode
  <2>2. order'[g] > 0 /\ \A h \in Tokens \ {g} : order'[h] = order[h]
    BY <2>1 DEF HandOver, SignInTypeOK
  <2>3. SignInTypeOK'
    <3>1. order' \in [Tokens -> Nat] /\ stored' \in Nat /\ \A h \in Tokens : order'[h] <= stored'
      BY <2>1 DEF HandOver, SignInTypeOK
    <3> QED
      BY <2>1, <2>2, <3>1, <1>v DEF HandOver, SignInTypeOK
  <2>4. \A h \in Tokens : order'[h] = 0 => age'[h] = 0
    BY <2>1, <2>2 DEF HandOver
  <2> QED
    BY <2>1, <2>3, <2>4, <1>v DEF HandOver, Untouched, Expired
<1>2. ASSUME NEW g \in Tokens, Exchange(g) PROVE HandOver'
  <2>1. /\ codes' = codes \ {g}
        /\ held' \subseteq held \cup (codes \cap {g})
        /\ UNCHANGED <<arriving, order, stored, age, lost>>
        /\ g \notin arriving
    BY <1>2 DEF Exchange, HandOver, SignInTypeOK
  <2>2. SignInTypeOK'
    BY <2>1, <1>v DEF HandOver, SignInTypeOK
  <2> QED
    BY <2>1, <2>2, <1>v DEF HandOver, Untouched, Expired
<1>3. CASE Tick
  <2>1. /\ \A g \in Tokens : age'[g] = IF order[g] > 0 /\ g \notin held /\ ~Expired(g)
                                     THEN age[g] + 1 ELSE age[g]
        /\ age' = [g \in Tokens |-> age'[g]]
        /\ UNCHANGED <<arriving, codes, order, stored, lost, held>>
    BY <1>3 DEF Tick
  <2>2. \A g \in Tokens : /\ age'[g] \in 0 .. CodeTTL + 1
                          /\ Expired(g) => age'[g] = age[g]
                          /\ order[g] = 0 => age'[g] = age[g]
    BY <2>1, <1>0 DEF Expired, HandOver, SignInTypeOK
  <2>3. SignInTypeOK'
    BY <2>1, <2>2, <1>v DEF HandOver, SignInTypeOK
  <2>4. \A g \in Tokens : Expired(g) => Expired(g)'
    BY <2>2 DEF Expired
  <2> QED
    BY <2>1, <2>2, <2>3, <2>4, <1>v DEF HandOver, Untouched, SignInTypeOK
<1>4. CASE CleanUpCodes \/ Restart
  <2>1. /\ codes' \subseteq codes /\ arriving' \subseteq arriving
        /\ lost' \subseteq lost \cup codes
        /\ UNCHANGED <<order, stored, age, held>>
    BY <1>4 DEF CleanUpCodes, Restart
  <2>2. SignInTypeOK'
    <3>1. codes' \cap arriving' = {} /\ held' \cap arriving' = {}
      BY <2>1 DEF HandOver, SignInTypeOK
    <3> QED
      BY <2>1, <3>1, <1>v DEF HandOver, SignInTypeOK
  <2> QED
    BY <2>1, <2>2, <1>v DEF HandOver, Untouched, Expired
<1> QED
  BY <1>1, <1>2, <1>3, <1>4

LEMMA AnsweredKeeps ==
  ASSUME HandOver, TypeOK', NEW c \in Calls, Answered(c)
  PROVE  HandOver'
<1>1. /\ calls' = [calls EXCEPT ![c] = NoCall]
      /\ UNCHANGED <<issued, rows, expired, arriving, codes, order, stored, age, lost>>
      /\ held' \subseteq held \cup {h \in Issued : h = calls[c].fresh}
  BY DEF Answered, Return, HandOver
<1>2. Issued' = Issued /\ \A h \in Issued : h # 0
  BY <1>1, TokensAssumption DEF Issued, HandOver, SignInTypeOK, TypeOK
<1>3. calls[c].fresh \notin arriving \cup codes
  BY DEF HandOver, Untouched
<1>4. SignInTypeOK'
  BY <1>1, <1>2, <1>3 DEF HandOver, SignInTypeOK
<1>5. /\ calls'[c].fresh = 0 /\ calls'[c].token = 0 /\ calls'[c].pc = "idle"
      /\ \A d \in Calls : d # c => calls'[d] = calls[d]
  BY <1>1 DEF NoCall, HandOver, SignInTypeOK, TypeOK
<1>6. \A g \in arriving \cup codes : Untouched(g)'
  BY <1>1, <1>2, <1>3, <1>5 DEF HandOver, Untouched, SignInTypeOK
<1> QED
  BY <1>1, <1>2, <1>4, <1>5, <1>6 DEF HandOver, Expired

LEMMA StepHandOver == HandOver /\ [SignInNext]_signInVars => HandOver'
<1> SUFFICES ASSUME HandOver, [SignInNext]_signInVars PROVE HandOver'
  OBVIOUS
<1>t. TypeOK'
  BY StepRefines, StepTypeOK DEF HandOver, SignInTypeOK
<1>1. CASE PasswordLogin \/ GoogleLogin
  BY <1>1, <1>t, LoginKeeps
<1>2. CASE (\E g \in Tokens : StoreCode(g) \/ Exchange(g)) \/ Tick \/ CleanUpCodes \/ Restart
  <2>1. UNCHANGED vars
    BY <1>2 DEF StoreCode, Exchange, Tick, CleanUpCodes, Restart
  <2> QED
    BY <2>1, <1>2, <1>t, CodeStepKeeps
<1>3. CASE TokenStep
  BY <1>3, <1>t, TokenStepKeeps
<1>4. ASSUME NEW c \in Calls, Answered(c) PROVE HandOver'
  BY <1>4, <1>t, AnsweredKeeps
<1>5. CASE UNCHANGED signInVars
  BY <1>5 DEF signInVars, codeVars, vars, HandOver, SignInTypeOK, TypeOK, Untouched, Expired, Issued
<1> QED
  BY <1>1, <1>2, <1>3, <1>4, <1>5 DEF SignInNext

LEMMA HandOverAlways == SignInSpec => []HandOver
  BY InitHandOver, StepHandOver, PTL DEF SignInSpec

-----------------------------------------------------------------------------
(* Room in the map *)

\* Codes are told apart by when they were stored.
StoredApart == \A g, h \in Tokens : order[g] > 0 /\ order[g] = order[h] => g = h

RoomInv == SignInTypeOK /\ StoredApart /\ CodesBounded /\ CodeSurvives

LEMMA SomeEvicted == EvictCount \in Nat /\ EvictCount >= 1 /\ EvictCount <= MaxCodes
  BY CodesAssumption DEF EvictCount

LEMMA TokensFinite == \A S \in SUBSET Tokens : IsFiniteSet(S) /\ Cardinality(S) \in Nat
<1> SUFFICES ASSUME NEW S \in SUBSET Tokens PROVE IsFiniteSet(S) /\ Cardinality(S) \in Nat
  OBVIOUS
<1>1. IsFiniteSet(Tokens)
  BY FS_Interval, TokensAssumption DEF Tokens
<1>2. IsFiniteSet(S)
  BY <1>1, FS_Subset
<1> QED
  BY <1>2, FS_CardinalityType

\* A set of tokens that is not empty has one that was stored first.
LEMMA OldestCode ==
  ASSUME order \in [Tokens -> Nat], NEW S \in SUBSET Tokens, S # {}
  PROVE  \E g \in S : \A h \in S : ~(order[h] < order[g])
<1> DEFINE Earlier(g) == {h \in S : order[h] < order[g]}
           R == StrictSubsetOrdering(S)
           T == {Earlier(g) : g \in S}
<1>1. IsFiniteSet(S)
  BY TokensFinite
<1>2. IsWellFoundedOn(R, SUBSET S)
  BY <1>1, FS_StrictSubsetOrderingWellFounded, FS_FiniteSubsetsOfFinite
<1>3. T \subseteq SUBSET S /\ T # {}
  OBVIOUS
<1>4. PICK x \in T : \A y \in T : ~(<<y, x>> \in R)
  <2> HIDE DEF R, T
  <2> QED
    BY <1>2, <1>3, WFMin
<1>5. PICK g \in S : x = Earlier(g)
  OBVIOUS
<1>6. ASSUME NEW h \in S, order[h] < order[g] PROVE FALSE
  <2>1. Earlier(h) \subseteq Earlier(g) /\ h \in Earlier(g) /\ h \notin Earlier(h)
    BY <1>6
  <2>2. <<Earlier(h), Earlier(g)>> \in R
    BY <2>1 DEF StrictSubsetOrdering
  <2> QED
    BY <1>4, <1>5, <2>2
<1> QED
  BY <1>6

\* A full map loses a code, so that there is room for the next.
LEMMA RoomForOne ==
  ASSUME SignInTypeOK, CodesBounded
  PROVE  Cardinality(Kept) + 1 <= MaxCodes
<1>f. /\ codes \subseteq Tokens /\ Kept \subseteq codes
      /\ IsFiniteSet(codes) /\ Cardinality(codes) \in Nat
      /\ IsFiniteSet(Kept) /\ Cardinality(Kept) \in Nat
  <2>1. codes \subseteq Tokens
    BY TokensAssumption DEF SignInTypeOK, TypeOK, Issued, Tokens
  <2>2. Kept \subseteq codes
    BY DEF Kept
  <2> QED
    BY <2>1, <2>2, TokensFinite
<1>1. CASE Cardinality(codes) < MaxCodes
  BY <1>1, <1>f, CodesAssumption DEF Kept
<1>2. CASE Cardinality(codes) = MaxCodes
  <2>1. codes # {}
    BY <1>2, CodesAssumption, FS_EmptySet
  <2>2. PICK g \in codes : \A h \in codes : ~(order[h] < order[g])
    BY <2>1, <1>f, OldestCode DEF SignInTypeOK
  <2>3. Before(g) = {}
    BY <2>2 DEF Before
  <2>4. ~(Cardinality(Before(g)) >= EvictCount)
    BY <2>3, FS_EmptySet, SomeEvicted
  <2>5. Kept \subseteq codes \ {g}
    BY <2>4, <1>2, CodesAssumption DEF Kept
  <2>6. IsFiniteSet(codes \ {g}) /\ Cardinality(codes \ {g}) = MaxCodes - 1
    BY <1>2, <1>f, <2>2, FS_RemoveElement
  <2>7. Cardinality(Kept) <= MaxCodes - 1
    BY <2>5, <2>6, FS_Subset
  <2> QED
    BY <2>7, <1>f, CodesAssumption
<1> QED
  BY <1>1, <1>2, <1>f, CodesAssumption DEF CodesBounded

\* A code that fewer than four fifths of the map have followed is not among the
\* oldest fifth of a full map.
LEMMA SurvivorKept ==
  ASSUME SignInTypeOK, StoredApart, CodesBounded,
         NEW g \in codes, Cardinality(After(g)) + 1 <= MaxCodes - EvictCount
  PROVE  g \in Kept
<1> DEFINE B == Before(g)
           A == codes \cap After(g)
<1>1. codes \subseteq Tokens /\ After(g) \subseteq Tokens
  BY TokensAssumption DEF SignInTypeOK, TypeOK, Issued, Tokens, After
<1>2. codes = (B \cup {g}) \cup A
  <2> SUFFICES ASSUME NEW h \in codes, h # g PROVE h \in B \cup A
    BY DEF Before
  <2>1. order[h] \in Nat /\ order[g] \in Nat /\ order[g] > 0 /\ order[h] # order[g]
    BY <1>1 DEF SignInTypeOK, StoredApart
  <2> QED
    BY <2>1, <1>1 DEF Before, After
<1>3. /\ IsFiniteSet(B) /\ Cardinality(B) \in Nat /\ IsFiniteSet(A) /\ Cardinality(A) \in Nat
      /\ IsFiniteSet(B \cup {g}) /\ Cardinality(B \cup {g}) \in Nat
      /\ IsFiniteSet(codes) /\ Cardinality(codes) \in Nat
      /\ IsFiniteSet(After(g)) /\ Cardinality(After(g)) \in Nat
  <2>1. B \subseteq Tokens /\ A \subseteq Tokens /\ B \cup {g} \subseteq Tokens
    BY <1>1 DEF Before
  <2> QED
    BY <2>1, <1>1, TokensFinite
<1>4. Cardinality(B \cup {g}) = Cardinality(B) + 1
  <2>1. g \notin B
    BY <1>1 DEF Before, SignInTypeOK
  <2> QED
    BY <2>1, <1>3, FS_AddElement
<1>5. (B \cup {g}) \cap A = {}
  BY <1>1 DEF Before, After, SignInTypeOK
<1>6. Cardinality(codes) = Cardinality(B) + 1 + Cardinality(A)
  <2>1. Cardinality((B \cup {g}) \cup A) =
          Cardinality(B \cup {g}) + Cardinality(A) - Cardinality((B \cup {g}) \cap A)
    BY <1>3, FS_Union
  <2>2. Cardinality((B \cup {g}) \cap A) = 0
    BY <1>5, FS_EmptySet
  <2> QED
    BY <2>1, <2>2, <1>2, <1>3, <1>4
<1>7. Cardinality(A) <= Cardinality(After(g))
  BY <1>3, FS_Subset
<1>8. Cardinality(codes) >= MaxCodes => Cardinality(Before(g)) >= EvictCount
  BY <1>3, <1>6, <1>7, SomeEvicted, CodesAssumption
<1> QED
  BY <1>8 DEF Kept

LEMMA InitRoom == SignInInit => RoomInv
<1> SUFFICES ASSUME SignInInit PROVE RoomInv
  OBVIOUS
<1>1. SignInTypeOK
  BY InitHandOver DEF HandOver
<1>2. codes = {} /\ \A g \in Tokens : ~(order[g] > 0)
  BY DEF SignInInit
<1>3. CodesBounded
  BY <1>2, FS_EmptySet, CodesAssumption DEF CodesBounded
<1> QED
  BY <1>1, <1>2, <1>3 DEF RoomInv, StoredApart, CodeSurvives

LEMMA StoreKeepsRoom ==
  ASSUME RoomInv, SignInTypeOK', NEW k \in Tokens, StoreCode(k)
  PROVE  RoomInv'
<1>1. /\ k \in arriving /\ codes' = Kept \cup {k}
      /\ order' = [order EXCEPT ![k] = stored + 1]
      /\ UNCHANGED <<age, lost, held>>
  BY DEF StoreCode
<1>2. order \in [Tokens -> Nat] /\ stored \in Nat /\ \A g \in Tokens : order[g] <= stored
  BY DEF RoomInv, SignInTypeOK
<1>3. /\ order'[k] = stored + 1 /\ ~(order[k] > 0)
      /\ \A g \in Tokens : g # k => order'[g] = order[g] /\ g \notin {k}
  BY <1>1, <1>2 DEF RoomInv, SignInTypeOK
<1>4. StoredApart'
  BY <1>2, <1>3 DEF RoomInv, StoredApart
<1>5. CodesBounded'
  <2>1. IsFiniteSet(Kept) /\ Cardinality(Kept) \in Nat
    <3>1. Kept \subseteq codes /\ codes \subseteq Tokens
      <4>1. Kept \subseteq codes
        BY DEF Kept
      <4>2. codes \subseteq Tokens
        BY TokensAssumption DEF RoomInv, SignInTypeOK, TypeOK, Issued, Tokens
      <4> QED
        BY <4>1, <4>2
    <3> QED
      BY <3>1, TokensFinite
  <2>2. Cardinality(Kept \cup {k}) <= Cardinality(Kept) + 1
    BY <2>1, FS_AddElement
  <2>3. Cardinality(Kept) + 1 <= MaxCodes
    BY RoomForOne DEF RoomInv
  <2>4. Cardinality(Kept \cup {k}) \in Nat
    BY <2>1, FS_AddElement, FS_CardinalityType
  <2> QED
    BY <1>1, <2>1, <2>2, <2>3, <2>4, CodesAssumption DEF CodesBounded
<1>6. ASSUME NEW g \in Tokens \ lost', order'[g] > 0, ~Expired(g)',
             Cardinality(After(g)') <= MaxCodes - EvictCount
      PROVE  g \in codes' \cup held'
  <2>1. CASE g = k
    BY <2>1, <1>1
  <2>2. CASE g # k
    <3>1. After(g)' = After(g) \cup {k}
      BY <1>2, <1>3, <2>2 DEF After
    <3>2. k \notin After(g)
      BY <1>2, <1>3 DEF After
    <3>3. IsFiniteSet(After(g)) /\ Cardinality(After(g)) \in Nat
      <4>1. After(g) \subseteq Tokens
        BY DEF After
      <4> QED
        BY <4>1, TokensFinite
    <3>4. Cardinality(After(g)') = Cardinality(After(g)) + 1
      BY <3>1, <3>2, <3>3, FS_AddElement
    <3>5. Cardinality(After(g)) + 1 <= MaxCodes - EvictCount
      BY <1>6, <3>4
    <3>6. Cardinality(After(g)) <= MaxCodes - EvictCount
      BY <3>3, <3>5, SomeEvicted, CodesAssumption
    <3>7. order[g] > 0 /\ ~Expired(g) /\ g \in Tokens \ lost
      BY <1>1, <1>3, <1>6, <2>2 DEF Expired
    <3>8. g \in codes \cup held
      BY <3>6, <3>7 DEF RoomInv, CodeSurvives
    <3>9. CASE g \in codes
      BY <3>5, <3>9, <1>1, SurvivorKept DEF RoomInv
    <3> QED
      BY <3>8, <3>9, <1>1
  <2> QED
    BY <2>1, <2>2
<1> QED
  BY <1>4, <1>5, <1>6 DEF RoomInv, CodeSurvives

\* No other step stores a code, and one that is taken away was used, has
\* expired or is forgotten in a restart.
LEMMA OthersKeepRoom ==
  ASSUME RoomInv, SignInTypeOK', UNCHANGED order, codes' \subseteq codes,
         lost \subseteq lost', held \subseteq held',
         \A g \in Tokens : Expired(g) => Expired(g)',
         \A g \in codes : ~Expired(g)' => g \in codes' \cup held' \cup lost'
  PROVE  RoomInv'
<1>1. StoredApart'
  BY DEF RoomInv, StoredApart
<1>2. CodesBounded'
  <2>1. codes \subseteq Tokens
    BY TokensAssumption DEF RoomInv, SignInTypeOK, TypeOK, Issued, Tokens
  <2>2. /\ IsFiniteSet(codes) /\ Cardinality(codes) \in Nat
        /\ IsFiniteSet(codes') /\ Cardinality(codes') \in Nat
    BY <2>1, TokensFinite
  <2>3. Cardinality(codes') <= Cardinality(codes)
    BY <2>2, FS_Subset
  <2> QED
    BY <2>2, <2>3, CodesAssumption DEF RoomInv, CodesBounded
<1>3. \A g \in Tokens : After(g)' = After(g)
  BY DEF After
<1>4. CodeSurvives'
  BY <1>3 DEF RoomInv, CodeSurvives
<1> QED
  BY <1>1, <1>2, <1>4 DEF RoomInv

LEMMA StepRoom == RoomInv /\ [SignInNext]_signInVars /\ SignInTypeOK' => RoomInv'
<1> SUFFICES ASSUME RoomInv, [SignInNext]_signInVars, SignInTypeOK' PROVE RoomInv'
  OBVIOUS
<1>1. CASE PasswordLogin \/ GoogleLogin
  BY <1>1, OthersKeepRoom DEF PasswordLogin, GoogleLogin, Expired
<1>2. ASSUME NEW g \in Tokens, StoreCode(g) PROVE RoomInv'
  BY <1>2, StoreKeepsRoom
<1>3. ASSUME NEW g \in Tokens, Exchange(g) PROVE RoomInv'
  BY <1>3, OthersKeepRoom DEF Exchange, Expired
<1>4. CASE Tick
  <2>1. \A g \in Tokens : Expired(g) => age'[g] = age[g]
    BY <1>4 DEF Tick
  <2>2. UNCHANGED <<codes, order, lost, held>>
    BY <1>4 DEF Tick
  <2> QED
    BY <2>1, <2>2, OthersKeepRoom DEF Expired
<1>5. CASE CleanUpCodes
  BY <1>5, OthersKeepRoom DEF CleanUpCodes, Expired
<1>6. CASE Restart
  BY <1>6, OthersKeepRoom DEF Restart, Expired
<1>7. CASE TokenStep \/ UNCHANGED signInVars
  BY <1>7, OthersKeepRoom DEF TokenStep, codeVars, signInVars, Expired
<1>8. ASSUME NEW c \in Calls, Answered(c) PROVE RoomInv'
  BY <1>8, OthersKeepRoom DEF Answered, Expired
<1> QED
  BY <1>1, <1>2, <1>3, <1>4, <1>5, <1>6, <1>7, <1>8 DEF SignInNext

LEMMA RoomAlways == SignInSpec => []RoomInv
<1>1. HandOver => SignInTypeOK
  BY DEF HandOver
<1> QED
  BY <1>1, InitRoom, StepRoom, HandOverAlways, PTL DEF SignInSpec

-----------------------------------------------------------------------------
(* Theorems *)

\* The state stays well-typed; a code is in the map only after it was stored.
THEOREM SignInTypeCorrect == SignInSpec => []SignInTypeOK
<1>1. HandOver => SignInTypeOK
  BY DEF HandOver
<1> QED
  BY <1>1, HandOverAlways, PTL

\* Signing in with Google is, to the table of refresh tokens, a login like any
\* other: the composition implements RefreshTokens.
THEOREM SignInRefines == SignInSpec => Spec
<1>1. SignInInit => Init
  BY DEF SignInInit
<1> QED
  BY <1>1, StepRefines, SignInTypeCorrect, PTL DEF SignInSpec, Spec

\* Rotation is as safe as it was: one usable token to a session.
THEOREM SignInRotationSafe == SignInSpec => []OnlyNewestUsable
  BY SignInRefines, RotationSafe, PTL

\* Whatever calls, restarts and expiries come in between, the tokens that wait
\* behind a code work, and nobody else has them.
THEOREM CodesWork == SignInSpec => []WaitingUsable
<1>1. HandOver => WaitingUsable
  BY DEF HandOver, WaitingUsable, Untouched
<1> QED
  BY <1>1, HandOverAlways, PTL

\* The map of codes never outgrows its bound, whatever the bound is and in
\* whatever order callbacks come.
THEOREM MapBounded == SignInSpec => []CodesBounded
<1>1. RoomInv => CodesBounded
  BY DEF RoomInv
<1> QED
  BY <1>1, RoomAlways, PTL

\* A browser finds its code within the minute unless four fifths of the map were
\* stored after it or the server was restarted: an eviction takes the oldest.
THEOREM CodesSurvive == SignInSpec => []CodeSurvives
<1>1. RoomInv => CodeSurvives
  BY DEF RoomInv
<1> QED
  BY <1>1, RoomAlways, PTL

=============================================================================
