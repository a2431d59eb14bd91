------------------------------ MODULE DayMedia ------------------------------
(***************************************************************************)
(* The days of one user at the server: the rows in days, the rows of       *)
(* day_media, the objects in S3, and the requests that change them.        *)
(*                                                                         *)
(* A picture or video travels from a device to S3 first and becomes a row  *)
(* after that.  Adding a row is a SERIALIZABLE transaction followed by the *)
(* choice of a cover outside it; deleting is three statements and a call   *)
(* to S3.  Any request may be cut short between two of its steps.  A day   *)
(* may be given any media of the user for its cover, those of other days   *)
(* too.  S3 and PostgreSQL (the foreign key and the unique index of        *)
(* main_media_id) are external.                                            *)
(***************************************************************************)
EXTENDS Naturals, Sequences, SequencesExt

CONSTANTS
    Days,       \* the days the user writes about
    Media,      \* the files a device may send, each once
    Pictures,   \* those that are images; the others are videos
    Slots,      \* requests under way at the same time
    Comments,   \* what the user may write of a day
    None,       \* NULL
    MaxBreaks   \* bound: requests cut short and S3 calls that fail

ASSUME MediaAssumption ==
    /\ Pictures \subseteq Media
    /\ None \notin Days \cup Media \cup Comments
    /\ MaxBreaks \in Nat

VARIABLES
    day,        \* the rows in days
    rows,       \* day_media of each day, by createdAt
    objects,    \* the files in S3
    home,       \* the day each file has been sent off for
    reqs,       \* what each request is about to do
    breaks,     \* failures so far
    touched     \* history: the days for which, or with a picture of which, a cover
                \* was saved, media deleted or a request cut short

serverVars == <<day, rows, objects, home, reqs, breaks, touched>>

NoDay == [exists |-> FALSE, cover |-> None, comment |-> None]
NoRequest == [pc |-> "idle", file |-> None]

Listed(d) == Range(rows[d])
AllListed == UNION {Listed(d) : d \in Days}

Request == [pc : {"idle", "put", "insert", "cover", "added", "clear", "delete", "object", "deleted",
                  "failed"},
            file : Media \cup {None}]

\* A cover is a row of day_media, and the cover of one day.
ServerTypeOK ==
    /\ day \in [Days -> [exists : BOOLEAN, cover : Media \cup {None},
                        comment : Comments \cup {None}]]
    /\ rows \in [Days -> Seq(Media)]
    /\ home \in [Media -> Days \cup {None}]
    /\ \A d \in Days :
        /\ ~day[d].exists => day[d] = NoDay /\ rows[d] = <<>>
        /\ IsInjective(rows[d])
        /\ \A m \in Listed(d) : home[m] = d
        /\ day[d].cover \in AllListed \cup {None}
        /\ \A e \in Days \ {d} : day[e].cover = day[d].cover => day[d].cover = None
    /\ objects \subseteq {m \in Media : home[m] # None}
    /\ reqs \in [Slots -> Request]
    /\ breaks \in 0 .. MaxBreaks
    /\ touched \subseteq Days

ServerInit ==
    /\ day = [d \in Days |-> NoDay]
    /\ rows = [d \in Days |-> <<>>]
    /\ objects = {}
    /\ home = [m \in Media |-> None]
    /\ reqs = [s \in Slots |-> NoRequest]
    /\ breaks = 0
    /\ touched = {}

-----------------------------------------------------------------------------

Step(s, from, to) ==
    /\ reqs[s].pc = from
    /\ reqs' = [reqs EXCEPT ![s].pc = to]

Start(s, pc, m) ==
    /\ reqs[s].pc = "idle"
    /\ reqs' = [reqs EXCEPT ![s] = [pc |-> pc, file |-> m]]

\* The unique index lets main_media_id of the day d become m.
NoOthersCover(d, m) == \A e \in Days \ {d} : day[e].cover # m

\* ON DELETE SET NULL: no day keeps m for its cover.
CoverCleared(m) == [d \in Days |-> [day[d] EXCEPT !.cover = IF @ = m THEN None ELSE @]]

\* A device asks for a presigned URL and puts the file to S3 ...
SendFile(s, m, d) ==
    /\ home[m] = None
    /\ home' = [home EXCEPT ![m] = d]
    /\ Start(s, "put", m)
    /\ UNCHANGED <<day, rows, objects, breaks, touched>>

PutObject(s) ==
    /\ Step(s, "put", "insert")
    /\ objects' = objects \cup {reqs[s].file}
    /\ UNCHANGED <<day, rows, home, breaks, touched>>

\* Fault: a cover is chosen for the first row only.
InsertMediaFirstRow(s) ==
    LET m == reqs[s].file
        d == home[m]
    IN
    /\ Step(s, "insert", IF rows[d] = <<>> /\ m \in Pictures THEN "cover" ELSE "added")
    /\ day' = [day EXCEPT ![d].exists = TRUE]
    /\ rows' = [rows EXCEPT ![d] = Append(@, m)]
    /\ UNCHANGED <<objects, home, breaks, touched>>

\* ... and calls addMedia: the transaction, which answers with the day's row as
\* it was.
InsertMedia(s) ==
    LET m == reqs[s].file
        d == home[m]
    IN
    /\ Step(s, "insert", IF day[d].cover = None /\ m \in Pictures THEN "cover" ELSE "added")
    /\ day' = [day EXCEPT ![d].exists = TRUE]
    /\ rows' = [rows EXCEPT ![d] = Append(@, m)]
    /\ UNCHANGED <<objects, home, breaks, touched>>

\* The quota, the future, the period, or a conflict.
RefuseMedia(s) ==
    /\ Step(s, "insert", "failed")
    /\ UNCHANGED <<day, rows, objects, home, breaks, touched>>

\* setMainMedia; PostgreSQL refuses a row that has been deleted, or that another
\* day has for its cover.
SetMainMedia(s) ==
    LET m == reqs[s].file
        d == home[m]
        accepted == m \in Listed(d) /\ NoOthersCover(d, m)
    IN
    /\ Step(s, "cover", IF accepted THEN "added" ELSE "failed")
    /\ day' = [day EXCEPT ![d].cover = IF accepted THEN m ELSE @]
    /\ UNCHANGED <<rows, objects, home, breaks, touched>>

\* deleteMedia: the row is found ...
DeleteMedia(s, m) ==
    /\ m \in AllListed
    /\ Start(s, "clear", m)
    /\ touched' = touched \cup {home[m]}
    /\ UNCHANGED <<day, rows, objects, home, breaks>>

\* ... the cover of its day is cleared ...
ClearMainMedia(s) ==
    LET m == reqs[s].file IN
    /\ Step(s, "clear", "delete")
    /\ day' = [day EXCEPT ![home[m]].cover = IF @ = m THEN None ELSE @]
    /\ UNCHANGED <<rows, objects, home, breaks, touched>>

\* Fault: the object goes first, and the row after it.
DeleteObjectFirst(s) ==
    /\ Step(s, "delete", "object")
    /\ objects' = objects \ {reqs[s].file}
    /\ UNCHANGED <<day, rows, home, breaks, touched>>

\* Fault: no foreign key clears a cover, as before the migration that added it.
DeleteByIdUnreferenced(s) ==
    LET m == reqs[s].file
        d == home[m]
    IN
    /\ Step(s, "delete", IF m \in Listed(d) THEN "object" ELSE "failed")
    /\ rows' = [rows EXCEPT ![d] = RemoveFirst(@, m)]
    /\ UNCHANGED <<day, objects, home, breaks, touched>>

\* ... the row deleted, unless another request has done so; the foreign key
\* clears a cover that was set meanwhile, or that another day has it for ...
DeleteById(s) ==
    LET m == reqs[s].file
        d == home[m]
    IN
    /\ Step(s, "delete", IF m \in Listed(d) THEN "object" ELSE "failed")
    /\ rows' = [rows EXCEPT ![d] = RemoveFirst(@, m)]
    /\ day' = CoverCleared(m)
    /\ UNCHANGED <<objects, home, breaks, touched>>

\* ... and the object, if S3 does as it is told; the answer is the same.
DeleteObject(s) ==
    /\ Step(s, "object", "deleted")
    /\ \/ objects' = objects \ {reqs[s].file} /\ UNCHANGED breaks
       \/ breaks < MaxBreaks /\ breaks' = breaks + 1 /\ UNCHANGED objects
    /\ UNCHANGED <<day, rows, home, touched>>

\* A lost connection, a restart, an error of the database or of S3.
BreakOff(s) ==
    /\ reqs[s].pc \in {"put", "insert", "cover", "clear", "delete", "object"}
    /\ breaks < MaxBreaks
    /\ breaks' = breaks + 1
    /\ Step(s, reqs[s].pc, "failed")
    /\ touched' = touched \cup {home[reqs[s].file]}
    /\ UNCHANGED <<day, rows, objects, home>>

\* The caller has the answer.
Answer(s) ==
    /\ reqs[s].pc \in {"added", "deleted", "failed"}
    /\ reqs' = [reqs EXCEPT ![s] = NoRequest]
    /\ UNCHANGED <<day, rows, objects, home, breaks, touched>>

ServerStep(s) ==
    \/ PutObject(s)
    \/ InsertMedia(s)
    \/ RefuseMedia(s)
    \/ SetMainMedia(s)
    \/ ClearMainMedia(s)
    \/ DeleteById(s)
    \/ DeleteObject(s)
    \/ BreakOff(s)

\* upsert of the day, of the columns that are named.  The cover is looked up among
\* all media of the user, videos and those of other days included; the unique index
\* refuses one that another day has.
UpsertDay(d, cover, comment) ==
    /\ cover \in AllListed \cup {None}
    /\ cover # None => NoOthersCover(d, cover)
    /\ day' = [day EXCEPT ![d] = [exists |-> TRUE, cover |-> cover, comment |-> comment]]
    /\ touched' = touched \cup {d} \cup {home[m] : m \in {cover} \ {None}}
    /\ UNCHANGED <<rows, objects, home, reqs, breaks>>

ServerNext ==
    \/ \E s \in Slots, m \in Media : DeleteMedia(s, m) \/ \E d \in Days : SendFile(s, m, d)
    \/ \E s \in Slots : ServerStep(s) \/ Answer(s)
    \/ \E d \in Days, m \in Media \cup {None}, c \in Comments \cup {None} : UpsertDay(d, m, c)

ServerSpec == ServerInit /\ [][ServerNext]_serverVars

-----------------------------------------------------------------------------
(* Properties *)

\* What the timeline shows can be fetched: a row in day_media never outlives its
\* object in S3, whichever step of a deletion fails.
RowHasObject == AllListed \subseteq objects

Choosing(d) == \E s \in Slots : reqs[s].pc = "cover" /\ home[reqs[s].file] = d

\* The first picture becomes the cover, after videos too and with requests side
\* by side: a day with a picture has one of its pictures for a cover once no request
\* is about to choose one, whatever happens to other days, unless a cover was saved
\* for it or taken from it, media deleted or a request interrupted.
PicturesHaveCover ==
    \A d \in Days \ touched :
        ~Choosing(d) /\ Listed(d) \cap Pictures # {} => day[d].cover \in Listed(d) \cap Pictures

=============================================================================
