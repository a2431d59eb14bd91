---------------------------- MODULE RefreshTokens ----------------------------
(***************************************************************************)
(* The refresh tokens of one user: AuthService over the refresh_tokens     *)
(* table, whatever its callers present.                                    *)
(*                                                                         *)
(* Tokens are numbered in the order they are issued; a login starts a      *)
(* session and a refresh continues it with the next token.  refresh is     *)
(* three statements without a transaction (find, delete, create), so calls *)
(* interleave between them, and a call may break off after any of them.    *)
(***************************************************************************)
EXTENDS Naturals

CONSTANTS
    Calls,      \* refresh calls the server can be working on
    MaxTokens,  \* bound: tokens issued
    MaxDrops    \* bound: calls that break off

ASSUME TokensAssumption == MaxTokens \in Nat /\ MaxDrops \in Nat

VARIABLES
    issued,     \* how many tokens there have been
    session,    \* the session of each, named after its first token
    rows,       \* table refresh_tokens
    expired,    \* tokens that are more than seven days old
    calls,      \* what each refresh call is about to do
    drops       \* calls broken off so far

vars == <<issued, session, rows, expired, calls, drops>>

Tokens == 1 .. MaxTokens
Issued == 1 .. issued

\* token is the one presented, fresh the one answered with.
NoCall == [pc |-> "idle", token |-> 0, fresh |-> 0]

Call == [pc : {"idle", "find", "delete", "create", "answered", "refused"},
         token : 0 .. MaxTokens, fresh : 0 .. MaxTokens]

TypeOK ==
    /\ issued \in 0 .. MaxTokens
    /\ session \in [Tokens -> 0 .. MaxTokens]
    /\ rows \in SUBSET Issued
    /\ expired \in SUBSET Issued
    /\ calls \in [Calls -> Call]
    /\ \A c \in Calls : calls[c].pc = "idle" \/ calls[c].token \in Issued
    /\ drops \in 0 .. MaxDrops

Init ==
    /\ issued = 0
    /\ session = [g \in Tokens |-> 0]
    /\ rows = {}
    /\ expired = {}
    /\ calls = [c \in Calls |-> NoCall]
    /\ drops = 0

-----------------------------------------------------------------------------

\* createRefreshToken.
Issue(s) ==
    /\ issued < MaxTokens
    /\ issued' = issued + 1
    /\ session' = [session EXCEPT ![issued + 1] = s]
    /\ rows' = rows \cup {issued + 1}

\* register, login and googleLogin; each token of theirs starts a session.
Login ==
    /\ Issue(issued + 1)
    /\ UNCHANGED <<expired, calls, drops>>

Present(c, g) ==
    /\ calls[c].pc = "idle"
    /\ g \in Issued
    /\ calls' = [calls EXCEPT ![c] = [pc |-> "find", token |-> g, fresh |-> 0]]
    /\ UNCHANGED <<issued, session, rows, expired, drops>>

\* A token that has expired is deleted on the spot; its row can serve nobody,
\* so looking it up and deleting it are one step.
FindToken(c) ==
    LET g == calls[c].token IN
    /\ calls[c].pc = "find"
    /\ \/ /\ g \in rows \ expired
          /\ calls' = [calls EXCEPT ![c].pc = "delete"]
          /\ UNCHANGED rows
       \/ /\ g \notin rows \ expired
          /\ calls' = [calls EXCEPT ![c].pc = "refused"]
          /\ rows' = rows \ {g}
    /\ UNCHANGED <<issued, session, expired, drops>>

\* Fault: deleteMany in place of delete does not mind a row that has gone.
DeleteTokenMany(c) ==
    /\ calls[c].pc = "delete"
    /\ rows' = rows \ {calls[c].token}
    /\ calls' = [calls EXCEPT ![c].pc = "create"]
    /\ UNCHANGED <<issued, session, expired, drops>>

\* Fault: the presented token stays valid.
DeleteTokenKeeps(c) ==
    /\ calls[c].pc = "delete"
    /\ calls' = [calls EXCEPT ![c].pc =
                    IF calls[c].token \in rows THEN "create" ELSE "refused"]
    /\ UNCHANGED <<issued, session, rows, expired, drops>>

\* Deleting by id fails (P2025) when another call has deleted the row.
DeleteToken(c) ==
    /\ calls[c].pc = "delete"
    /\ rows' = rows \ {calls[c].token}
    /\ calls' = [calls EXCEPT ![c].pc =
                    IF calls[c].token \in rows THEN "create" ELSE "refused"]
    /\ UNCHANGED <<issued, session, expired, drops>>

CreateToken(c) ==
    /\ calls[c].pc = "create"
    /\ Issue(session[calls[c].token])
    /\ calls' = [calls EXCEPT ![c].pc = "answered", ![c].fresh = issued + 1]
    /\ UNCHANGED <<expired, drops>>

\* The caller has, or has not, got the answer; the call is over.
Return(c) ==
    /\ calls[c].pc \in {"answered", "refused"}
    /\ calls' = [calls EXCEPT ![c] = NoCall]
    /\ UNCHANGED <<issued, session, rows, expired, drops>>

\* A database error, a restart or a lost connection: the caller sees a failure.
Break(c) ==
    /\ calls[c].pc \in {"find", "delete", "create", "answered"}
    /\ drops < MaxDrops
    /\ drops' = drops + 1
    /\ calls' = [calls EXCEPT ![c].pc = "refused", ![c].fresh = 0]
    /\ UNCHANGED <<issued, session, rows, expired>>

\* logout deletes the row of the token it is given, if there is one.
Logout(g) ==
    /\ rows' = rows \ {g}
    /\ UNCHANGED <<issued, session, expired, calls, drops>>

Expire(g) ==
    /\ expired' = expired \cup {g}
    /\ UNCHANGED <<issued, session, rows, calls, drops>>

\* createRefreshToken starts this deletion and does not wait for it.
CleanUp ==
    /\ rows' = rows \ expired
    /\ UNCHANGED <<issued, session, expired, calls, drops>>

ServerStep(c) ==
    \/ FindToken(c)
    \/ DeleteToken(c)
    \/ CreateToken(c)
    \/ Break(c)

Next ==
    \/ Login
    \/ \E c \in Calls :
        \/ \E g \in Issued : Present(c, g)
        \/ ServerStep(c)
        \/ Return(c)
    \/ \E g \in Issued : Logout(g) \/ Expire(g)
    \/ CleanUp

Spec == Init /\ [][Next]_vars

-----------------------------------------------------------------------------
(* Properties *)

\* Rotation: of the tokens of a session only the newest can be in the table,
\* so an older one that is presented again, at the same time or later, gets
\* nothing, and a session never splits in two.
OnlyNewestUsable ==
    \A g \in rows, h \in Issued : session[h] = session[g] => h <= g

\* Calls that have deleted their token and not yet created the next one.
Rotating == {c \in Calls : calls[c].pc = "create"}

\* While a call rotates a session, the table has no token of it and no other
\* call rotates it.
RotationsApart ==
    \A c \in Rotating :
        /\ \A g \in rows : session[g] # session[calls[c].token]
        /\ \A d \in Rotating :
            session[calls[d].token] = session[calls[c].token] => c = d

=============================================================================
