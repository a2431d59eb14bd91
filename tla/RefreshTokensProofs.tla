------------------------- MODULE RefreshTokensProofs -------------------------
(***************************************************************************)
(* Theorems about RefreshTokens, for any number of calls, tokens and       *)
(* failures.  The inductive invariant is RotationInv: that only the newest *)
(* token of a session is usable is kept by CreateToken only because the    *)
(* session has no other row while a call rotates it, and that is kept by   *)
(* DeleteToken only because no other call rotates it.                      *)
(***************************************************************************)
EXTENDS RefreshTokens, TLAPS

\* A session is named after a token that has been issued.
SessionsIssued == \A g \in Issued : session[g] \in Issued

RotationInv ==
    /\ TypeOK
    /\ SessionsIssued
    /\ OnlyNewestUsable
    /\ RotationsApart

-----------------------------------------------------------------------------
(* Type correctness *)

LEMMA InitTypeOK == Init => TypeOK
  BY TokensAssumption DEF Init, TypeOK, Tokens, Issued, NoCall, Call

\* What Issue leaves behind: one more token, in the session it was given.
LEMMA IssueType ==
  ASSUME TypeOK, NEW s \in 0 .. MaxTokens, Issue(s)
  PROVE  /\ issued' \in 0 .. MaxTokens
         /\ session' \in [Tokens -> 0 .. MaxTokens]
         /\ rows' \in SUBSET Issued'
         /\ Issued' = Issued \cup {issued + 1}
         /\ issued + 1 \in Tokens
         /\ session'[issued + 1] = s
         /\ \A g \in Issued : session'[g] = session[g]
  BY TokensAssumption DEF Issue, TypeOK, Tokens, Issued

LEMMA StepTypeOK == TypeOK /\ [Next]_vars => TypeOK'
<1> SUFFICES ASSUME TypeOK, [Next]_vars PROVE TypeOK'
  OBVIOUS
<1> USE TokensAssumption
<1>1. CASE Login
  <2>1. issued + 1 \in 0 .. MaxTokens
    BY <1>1 DEF Login, Issue, TypeOK
  <2>2. Issue(issued + 1) /\ UNCHANGED <<expired, calls, drops>>
    BY <1>1 DEF Login
  <2>3. QED
    BY <2>1, <2>2, IssueType DEF TypeOK
<1>2. ASSUME NEW c \in Calls, NEW g \in Issued, Present(c, g) PROVE TypeOK'
  <2>1. g \in 0 .. MaxTokens /\ g \in Issued'
    BY <1>2 DEF Present, TypeOK, Issued
  <2>2. calls' = [calls EXCEPT ![c] = [pc |-> "find", token |-> g, fresh |-> 0]]
    BY <1>2 DEF Present
  <2>3. calls' \in [Calls -> Call]
    BY <2>1, <2>2 DEF TypeOK, Call
  <2>4. \A d \in Calls : calls'[d].pc = "idle" \/ calls'[d].token \in Issued'
    BY <1>2, <2>1, <2>2 DEF Present, TypeOK, Issued
  <2>5. QED
    BY <1>2, <2>3, <2>4 DEF Present, TypeOK, Issued
<1>3. ASSUME NEW c \in Calls, FindToken(c) PROVE TypeOK'
  BY <1>3 DEF FindToken, TypeOK, Call, Issued
<1>4. ASSUME NEW c \in Calls, DeleteToken(c) PROVE TypeOK'
  BY <1>4 DEF DeleteToken, TypeOK, Call, Issued
<1>5. ASSUME NEW c \in Calls, CreateToken(c) PROVE TypeOK'
  <2>1. session[calls[c].token] \in 0 .. MaxTokens
    BY <1>5 DEF CreateToken, TypeOK, Issued, Tokens
  <2>2. Issue(session[calls[c].token])
    BY <1>5 DEF CreateToken
  <2>3. issued + 1 \in 0 .. MaxTokens
    BY <2>2 DEF Issue, TypeOK
  <2>4. calls' \in [Calls -> Call]
    BY <1>5, <2>3 DEF CreateToken, TypeOK, Call
  <2>5. \A d \in Calls : calls'[d].pc = "idle" \/ calls'[d].token \in Issued'
    BY <1>5, <2>1, <2>2, IssueType DEF CreateToken, TypeOK, Call
  <2>6. QED
    BY <1>5, <2>1, <2>2, <2>4, <2>5, IssueType DEF CreateToken, TypeOK
<1>6. ASSUME NEW c \in Calls, Return(c) PROVE TypeOK'
  BY <1>6 DEF Return, TypeOK, NoCall, Call, Issued
<1>7. ASSUME NEW c \in Calls, Break(c) PROVE TypeOK'
  <2>1. calls' = [calls EXCEPT ![c] = [calls[c] EXCEPT !.pc = "refused", !.fresh = 0]]
    BY <1>7 DEF Break, TypeOK
  <2>r. [calls[c] EXCEPT !.pc = "refused", !.fresh = 0] \in Call
    <3>1. calls[c] \in Call /\ 0 \in 0 .. MaxTokens
      BY DEF TypeOK
    <3>2. QED
      BY <3>1 DEF Call
  <2>2. calls' \in [Calls -> Call]
    BY <2>1, <2>r DEF TypeOK
  <2>3. \A d \in Calls : calls'[d].pc = "idle" \/ calls'[d].token \in Issued'
    BY <1>7, <2>1 DEF Break, TypeOK, Call, Issued
  <2>4. drops' \in 0 .. MaxDrops
    BY <1>7 DEF Break, TypeOK
  <2>5. QED
    BY <1>7, <2>2, <2>3, <2>4 DEF Break, TypeOK, Issued
<1>8. ASSUME NEW g \in Issued, Logout(g) \/ Expire(g) PROVE TypeOK'
  <2>1. rows' \subseteq rows /\ expired' \subseteq Issued
    BY <1>8 DEF Logout, Expire, TypeOK
  <2>2. QED
    BY <1>8, <2>1 DEF Logout, Expire, TypeOK, Issued
<1>9. CASE CleanUp
  <2>1. rows' \subseteq rows
    BY <1>9 DEF CleanUp
  <2>2. QED
    BY <1>9, <2>1 DEF CleanUp, TypeOK, Issued
<1>10. CASE UNCHANGED vars
  BY <1>10 DEF vars, TypeOK, Issued
<1> QED
  BY <1>1, <1>2, <1>3, <1>4, <1>5, <1>6, <1>7, <1>8, <1>9, <1>10 DEF Next, ServerStep

\* The state stays well-typed: no call outlives the token it is about, and no
\* row is there for a token that was never issued.
THEOREM TypeCorrect == Spec => []TypeOK
  BY InitTypeOK, StepTypeOK, PTL DEF Spec

-----------------------------------------------------------------------------
(* Rotation *)

LEMMA InitRotationInv == Init => RotationInv
  <1> SUFFICES ASSUME Init PROVE RotationInv
    OBVIOUS
  <1>1. Issued = {} /\ rows = {} /\ Rotating = {}
    BY DEF Init, Issued, Rotating, NoCall
  <1> QED
    BY <1>1, InitTypeOK DEF RotationInv, SessionsIssued, OnlyNewestUsable, RotationsApart

\* A step that issues nothing, adds no row and lets no call start rotating
\* keeps what is known of rotation.
LEMMA FewerRowsAndRotations ==
  ASSUME RotationInv, UNCHANGED <<issued, session>>, rows' \subseteq rows,
         Rotating' \subseteq Rotating,
         \A c \in Rotating' : calls'[c].token = calls[c].token
  PROVE  SessionsIssued' /\ OnlyNewestUsable' /\ RotationsApart'
  BY DEF RotationInv, SessionsIssued, OnlyNewestUsable, RotationsApart, Issued

\* A new token in a session that has no row and is rotated by no call becomes
\* the newest of its session, and leaves the other sessions alone.
LEMMA IssueRotation ==
  ASSUME RotationInv, TypeOK', NEW s \in 1 .. issued + 1, Issue(s),
         \A g \in rows : session[g] # s,
         Rotating' \subseteq Rotating,
         \A c \in Rotating' : /\ calls'[c].token = calls[c].token
                              /\ session[calls[c].token] # s
  PROVE  SessionsIssued' /\ OnlyNewestUsable' /\ RotationsApart'
<1>1. s \in 0 .. MaxTokens
  BY TokensAssumption DEF Issue, RotationInv, TypeOK
<1>2. /\ Issued' = Issued \cup {issued + 1}
      /\ rows' = rows \cup {issued + 1}
      /\ session'[issued + 1] = s
      /\ \A g \in Issued : session'[g] = session[g]
  BY <1>1, IssueType DEF RotationInv, Issue
<1>3. /\ issued \in Nat
      /\ rows \subseteq Issued
      /\ \A g \in Issued : g \in Nat /\ g < issued + 1
  BY TokensAssumption DEF RotationInv, TypeOK, Issued
<1>4. SessionsIssued'
  <2>1. issued' = issued + 1 /\ s \in Issued'
    BY <1>3 DEF Issue, Issued
  <2>2. QED
    BY <1>2, <2>1 DEF SessionsIssued, RotationInv
<1>5. OnlyNewestUsable'
  <2> SUFFICES ASSUME NEW g \in rows', NEW h \in Issued', session'[h] = session'[g]
               PROVE  h <= g
    BY DEF OnlyNewestUsable
  <2>1. CASE g = issued + 1
    BY <2>1, <1>2, <1>3
  <2>2. CASE g \in rows /\ h \in Issued
    BY <2>2, <1>2, <1>3 DEF RotationInv, OnlyNewestUsable
  <2>3. CASE g \in rows /\ h = issued + 1
    BY <2>3, <1>2, <1>3
  <2> QED
    BY <2>1, <2>2, <2>3, <1>2
<1>6. RotationsApart'
  <2>1. \A c \in Rotating' : session'[calls'[c].token] = session[calls[c].token]
    <3> SUFFICES ASSUME NEW c \in Rotating'
                 PROVE  session'[calls'[c].token] = session[calls[c].token]
      OBVIOUS
    <3>1. calls[c].token \in Issued
      BY DEF RotationInv, TypeOK, Rotating
    <3>2. QED
      BY <3>1, <1>2
  <2>2. \A c \in Rotating', g \in rows' : session'[g] # session'[calls'[c].token]
    BY <2>1, <1>2, <1>3 DEF RotationInv, RotationsApart
  <2>3. QED
    BY <2>1, <2>2 DEF RotationInv, RotationsApart
<1> QED
  BY <1>4, <1>5, <1>6

LEMMA StepRotationInv == RotationInv /\ [Next]_vars => RotationInv'
<1> SUFFICES ASSUME RotationInv, [Next]_vars PROVE RotationInv'
  OBVIOUS
<1>t. TypeOK /\ TypeOK'
  BY StepTypeOK DEF RotationInv
<1>f. ASSUME UNCHANGED <<issued, session>>, rows' \subseteq rows,
             Rotating' \subseteq Rotating,
             \A c \in Rotating' : calls'[c].token = calls[c].token
      PROVE  RotationInv'
  BY <1>f, <1>t, FewerRowsAndRotations DEF RotationInv
<1>1. CASE Login
  <2>1. issued + 1 \in 1 .. issued + 1
    BY <1>t, TokensAssumption DEF TypeOK
  <2>2. \A g \in Issued : session[g] # issued + 1
    BY <1>t, TokensAssumption DEF RotationInv, SessionsIssued, Issued, TypeOK
  <2>3. UNCHANGED Rotating /\ UNCHANGED calls /\ Issue(issued + 1)
    BY <1>1 DEF Login, Rotating
  <2>4. \A c \in Rotating : calls[c].token \in Issued
    BY <1>t DEF TypeOK, Rotating
  <2>5. \A g \in rows : session[g] # issued + 1
    BY <2>2, <1>t DEF TypeOK
  <2>6. SessionsIssued' /\ OnlyNewestUsable' /\ RotationsApart'
    BY <2>1, <2>2, <2>3, <2>4, <2>5, <1>t, IssueRotation
  <2>7. QED
    BY <2>6, <1>t DEF RotationInv
<1>2. ASSUME NEW c \in Calls, NEW g \in Issued, Present(c, g) PROVE RotationInv'
  BY <1>2, <1>f, <1>t DEF Present, Rotating, NoCall, TypeOK, Call
<1>3. ASSUME NEW c \in Calls, FindToken(c) PROVE RotationInv'
  BY <1>3, <1>f, <1>t DEF FindToken, Rotating, TypeOK, Call
<1>4. ASSUME NEW c \in Calls, DeleteToken(c) PROVE RotationInv'
  <2> DEFINE g == calls[c].token
  <2>1. CASE g \notin rows
    BY <2>1, <1>4, <1>f, <1>t DEF DeleteToken, Rotating, TypeOK, Call
  <2>2. CASE g \in rows
    <3>1. /\ Rotating' = Rotating \cup {c}
          /\ \A d \in Calls : calls'[d].token = calls[d].token
          /\ rows' = rows \ {g}
          /\ UNCHANGED <<issued, session>>
      BY <2>2, <1>4, <1>t DEF DeleteToken, Rotating, TypeOK, Call
    <3>2. \A h \in rows \ {g} : session[h] # session[g]
      <4> SUFFICES ASSUME NEW h \in rows, session[h] = session[g] PROVE h = g
        OBVIOUS
      <4>1. h \in Issued /\ g \in Issued
        BY <2>2, <1>t DEF TypeOK
      <4>2. h <= g /\ g <= h
        BY <4>1, <2>2 DEF RotationInv, OnlyNewestUsable
      <4>3. QED
        BY <4>1, <4>2 DEF Issued
    <3>3. \A d \in Rotating : session[calls[d].token] # session[g]
      BY <2>2 DEF RotationInv, RotationsApart
    <3>4. RotationsApart'
      BY <3>1, <3>2, <3>3 DEF RotationInv, RotationsApart, Rotating
    <3>5. SessionsIssued' /\ OnlyNewestUsable'
      BY <3>1 DEF RotationInv, SessionsIssued, OnlyNewestUsable, Issued
    <3>6. QED
      BY <3>4, <3>5, <1>t DEF RotationInv
  <2> QED
    BY <2>1, <2>2
<1>5. ASSUME NEW c \in Calls, CreateToken(c) PROVE RotationInv'
  <2> DEFINE s == session[calls[c].token]
  <2>1. c \in Rotating /\ Issue(s)
    BY <1>5 DEF CreateToken, Rotating
  <2>2. s \in 1 .. issued + 1
    BY <2>1, <1>t, TokensAssumption DEF RotationInv, SessionsIssued, TypeOK, Issued, Rotating
  <2>3. /\ Rotating' = Rotating \ {c}
        /\ \A d \in Rotating \ {c} : calls'[d].token = calls[d].token
    BY <1>5, <1>t DEF CreateToken, Rotating, TypeOK, Call
  <2>4. \A g \in rows : session[g] # s
    BY <2>1 DEF RotationInv, RotationsApart
  <2>5. \A d \in Rotating \ {c} : session[calls[d].token] # s
    BY <2>1 DEF RotationInv, RotationsApart
  <2>6. SessionsIssued' /\ OnlyNewestUsable' /\ RotationsApart'
    <3> HIDE DEF s
    <3> QED
      BY <2>1, <2>2, <2>3, <2>4, <2>5, <1>t, IssueRotation
  <2>7. QED
    BY <2>6, <1>t DEF RotationInv
<1>6. ASSUME NEW c \in Calls, Return(c) PROVE RotationInv'
  BY <1>6, <1>f, <1>t DEF Return, Rotating, NoCall, TypeOK, Call
<1>7. ASSUME NEW c \in Calls, Break(c) PROVE RotationInv'
  BY <1>7, <1>f, <1>t DEF Break, Rotating, TypeOK, Call
<1>8. ASSUME NEW g \in Issued, Logout(g) \/ Expire(g) PROVE RotationInv'
  BY <1>8, <1>f DEF Logout, Expire, Rotating
<1>9. CASE CleanUp
  BY <1>9, <1>f DEF CleanUp, Rotating
<1>10. CASE UNCHANGED vars
  BY <1>10, <1>f DEF vars, Rotating
<1> QED
  BY <1>1, <1>2, <1>3, <1>4, <1>5, <1>6, <1>7, <1>8, <1>9, <1>10 DEF Next, ServerStep

LEMMA RotationInvariant == Spec => []RotationInv
  BY InitRotationInv, StepRotationInv, PTL DEF Spec

\* Refresh token rotation works for any number of concurrent refreshes of one
\* session: whatever breaks off or expires, an older token is never usable.
THEOREM RotationSafe == Spec => []OnlyNewestUsable
  BY RotationInvariant, PTL DEF RotationInv

\* At most one call has deleted a token of a session and is about to replace it.
THEOREM RotationsNeverMeet == Spec => []RotationsApart
  BY RotationInvariant, PTL DEF RotationInv

=============================================================================
