------------------------------ MODULE TierCache ------------------------------
(***************************************************************************)
(* The tier of one user and the in-memory cache through which every quota  *)
(* check reads it (SubscriptionsService.getTier).                          *)
(*                                                                         *)
(* A miss reads the row and stores what it read when the read returns; a   *)
(* change of the tier writes the row and then drops the entry.  Neither    *)
(* waits for the other, so an old tier can be stored after the drop.       *)
(* Resources puts these steps together with the requests that need a tier. *)
(***************************************************************************)
EXTENDS Integers

CONSTANTS
    Requests,   \* requests the server can be serving at the same time
    TTL,        \* ticks an entry lives (60 s in the code)
    MaxChanges  \* bound: changes of the tier

ASSUME CacheAssumption == TTL \in Nat \ {0} /\ MaxChanges \in Nat

VARIABLES
    tier,       \* the row in subscriptions
    granted,    \* history: the tiers the row has had
    changes,    \* changes of the tier so far
    owed,       \* changes written whose invalidateTierCache has yet to run
    cache,      \* the user's entry in tierCache
    reading     \* what each lookup has read from the row and not yet stored

cacheVars == <<tier, granted, changes, owed, cache, reading>>

Tiers == {"FREE", "PRO", "PREMIUM"}
NotRead == "none"

\* An entry whose time is up is as good as none.
NoEntry == [tier |-> "FREE", left |-> 0]

CacheTypeOK ==
    /\ tier \in Tiers
    /\ granted \in SUBSET Tiers
    /\ changes \in 0 .. MaxChanges
    /\ owed \in 0 .. MaxChanges
    /\ cache \in [tier : Tiers, left : 0 .. TTL]
    /\ reading \in [Requests -> Tiers \cup {NotRead}]

CacheInit ==
    /\ tier = "FREE"
    /\ granted = {"FREE"}
    /\ changes = 0
    /\ owed = 0
    /\ cache = NoEntry
    /\ reading = [r \in Requests |-> NotRead]

-----------------------------------------------------------------------------

\* A webhook or a plan change writes the row.
ChangeTier(t) ==
    /\ changes < MaxChanges
    /\ t # tier
    /\ tier' = t
    /\ granted' = granted \cup {t}
    /\ changes' = changes + 1
    /\ owed' = owed + 1
    /\ UNCHANGED <<cache, reading>>

\* ... and then drops the entry.
InvalidateTierCache ==
    /\ owed > 0
    /\ owed' = owed - 1
    /\ cache' = NoEntry
    /\ UNCHANGED <<tier, granted, changes, reading>>

\* Time passes.
Tick ==
    /\ cache.left > 0
    /\ cache' = IF cache.left = 1 THEN NoEntry ELSE [cache EXCEPT !.left = @ - 1]
    /\ UNCHANGED <<tier, granted, changes, owed, reading>>

\* Request r gets the tier t from the cache.
Hit(r, t) ==
    /\ reading[r] = NotRead
    /\ cache.left > 0
    /\ t = cache.tier
    /\ UNCHANGED cacheVars

\* There is no entry: the row is read.
Miss(r) ==
    /\ reading[r] = NotRead
    /\ cache.left = 0
    /\ reading' = [reading EXCEPT ![r] = tier]
    /\ UNCHANGED <<tier, granted, changes, owed, cache>>

\* Fault: the entry outlives its time.
FillLonger(r, t) ==
    /\ reading[r] # NotRead
    /\ t = reading[r]
    /\ cache' = [tier |-> t, left |-> TTL + 1]
    /\ reading' = [reading EXCEPT ![r] = NotRead]
    /\ UNCHANGED <<tier, granted, changes, owed>>

\* The read returns t, which is stored and given to r.
Fill(r, t) ==
    /\ reading[r] # NotRead
    /\ t = reading[r]
    /\ cache' = [tier |-> t, left |-> TTL]
    /\ reading' = [reading EXCEPT ![r] = NotRead]
    /\ UNCHANGED <<tier, granted, changes, owed>>

=============================================================================
