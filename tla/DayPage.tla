------------------------------ MODULE DayPage ------------------------------
(***************************************************************************)
(* The web page of one day (DayPage) with the queries it reads, composed   *)
(* with the server's DayMedia and with another device of the same user.    *)
(*                                                                         *)
(* The page copies what it has loaded into a form, once, by two effects:   *)
(* one runs when the list of media arrives and chooses the cover shown,    *)
(* the other when the day's row arrives, and clears the form before it     *)
(* fills it.  Effects that are due after the same render run one after the *)
(* other, and an effect runs again when what it depends on has changed.    *)
(* A mood is saved like the form, without the comment.                     *)
(***************************************************************************)
EXTENDS DayMedia

CONSTANTS
    Today,      \* the day the page is open for
    Uploads,    \* the requests that are uploads of the page; the others delete
    NotLoaded,  \* data = undefined
    NoRow       \* the query has answered, and there is no row

ASSUME PageAssumption ==
    /\ Today \in Days /\ Uploads \subseteq Slots
    /\ NotLoaded \notin Comments \cup {None, NoRow} \cup Seq(Media)
    /\ NoRow \notin Comments \cup {None}

VARIABLES
    form,       \* what the user sees and may change
    items,      \* localMediaItems: uploads shown in the form
    attached,   \* the uploads under way that belong to the page that is open
    media,      \* query dayMedia
    record,     \* query days: the comment of the row, if there is a row
    save        \* the upsert under way

pageVars == <<form, items, attached, media, record, save>>
vars == <<serverVars, pageVars>>

NoSave == [on |-> FALSE, cover |-> None, withComment |-> FALSE, comment |-> None]

\* coverSet stands for initializedForDate = date, filled for
\* initializedDateRef.current = date.
Blank == [cover |-> None, comment |-> None, coverSet |-> FALSE, filled |-> FALSE]
NoItems == [m \in Media |-> "none"]
HasRow(r) == r \notin {NoRow, NotLoaded}

TypeOK ==
    /\ ServerTypeOK
    /\ form \in [cover : Media \cup {None}, comment : Comments \cup {None},
                 coverSet : BOOLEAN, filled : BOOLEAN]
    /\ items \in [Media -> {"none", "uploading", "failed"}]
    /\ attached \subseteq Uploads
    /\ media = NotLoaded \/ media \in Seq(Media)
    /\ record \in Comments \cup {None, NoRow, NotLoaded}
    /\ form.filled <=> HasRow(record)
    /\ save \in [on : BOOLEAN, cover : Media \cup {None}, withComment : BOOLEAN,
                 comment : Comments \cup {None}]

Init ==
    /\ ServerInit
    /\ form = Blank
    /\ items = NoItems
    /\ attached = {}
    /\ media = NotLoaded
    /\ record = NotLoaded
    /\ save = NoSave

-----------------------------------------------------------------------------

\* The cover the first effect takes from the list: the first picture, or the
\* first of the videos.
ShownCover(list, cover) ==
    LET first == SelectInSeq(list, LAMBDA m : m \in Pictures) IN
    CASE first # 0 -> list[first]
      [] first = 0 /\ list # <<>> -> Head(list)
      [] OTHER -> cover

\* First effect, on the form f.
TakeCover(f, list) ==
    IF f.coverSet \/ list = NotLoaded THEN f
    ELSE [f EXCEPT !.cover = ShownCover(list, @), !.coverSet = TRUE]

\* Fault: the form is filled whenever the row arrives.
ResetAlways(f, r) ==
    IF HasRow(r) THEN [Blank EXCEPT !.comment = r, !.filled = TRUE] ELSE Blank

\* Fault: the form does not remember that it has been filled.
ResetUnmarked(f, r) ==
    CASE f.filled -> f
      [] ~f.filled /\ HasRow(r) -> [Blank EXCEPT !.comment = r]
      [] OTHER -> Blank

\* Second effect.
Reset(f, r) ==
    CASE f.filled -> f
      [] ~f.filled /\ HasRow(r) -> [Blank EXCEPT !.comment = r, !.filled = TRUE]
      [] OTHER -> Blank

\* The effects after a render in which the list, or the row, is new.  What the
\* second takes back of the first shows in coverSet, which the first depends
\* on: it runs again when coverSet is not what it was before both.
AfterRender(f, list, newList, r, newRow) ==
    LET first == IF newList THEN TakeCover(f, list) ELSE f
        both == IF newRow THEN Reset(first, r) ELSE first
    IN IF both.coverSet # f.coverSet THEN TakeCover(both, list) ELSE both

\* The queries answer, for the first time or again, one or both at a time.
Load(list, r) ==
    LET newList == list # media
        newRow == HasRow(r) /\ r # record
        new == AfterRender(form, list, newList, r, newRow)
    IN
    /\ <<list, r>> # <<media, record>>
    /\ media' = list
    /\ record' = r
    /\ form' = new
    /\ items' = IF new.filled /\ ~form.filled THEN NoItems ELSE items
    /\ UNCHANGED <<serverVars, attached, save>>

ServerRecord == IF day[Today].exists THEN day[Today].comment ELSE NoRow

Arrives ==
    \/ Load(rows[Today], record)
    \/ Load(media, ServerRecord)
    \/ Load(rows[Today], ServerRecord)

\* The user leaves the page and opens it again, with what the queries still hold;
\* the new page knows nothing of an upload that goes on.
Reopen ==
    /\ form' = AfterRender(Blank, media, TRUE, record, TRUE)
    /\ items' = NoItems
    /\ attached' = {}
    /\ save' = NoSave
    /\ UNCHANGED <<serverVars, media, record>>

\* The fields are disabled while the day is being saved.
Editing == ~save.on

TypeComment(c) ==
    /\ Editing
    /\ form' = [form EXCEPT !.comment = c]
    /\ UNCHANGED <<serverVars, items, attached, media, record, save>>

\* A picture, or a video that has a thumbnail.
SetCover(m) ==
    /\ Editing
    /\ media # NotLoaded
    /\ m \in Range(media)
    /\ form' = [form EXCEPT !.cover = m]
    /\ UNCHANGED <<serverVars, items, attached, media, record, save>>

\* handleSave, and with ~withComment handleSelectMood and handleClearMood.
Save(withComment) ==
    /\ Editing
    /\ save' = [on |-> TRUE, cover |-> form.cover, withComment |-> withComment,
                comment |-> IF withComment THEN form.comment ELSE None]
    /\ UNCHANGED <<serverVars, form, items, attached, media, record>>

\* The upsert arrives.
Saved ==
    /\ save.on
    /\ UpsertDay(Today, save.cover, IF save.withComment THEN save.comment ELSE day[Today].comment)
    /\ save' = NoSave
    /\ UNCHANGED <<form, items, attached, media, record>>

\* It is refused, or does not arrive; the form keeps what it has.
NotSaved ==
    /\ save.on
    /\ save' = NoSave
    /\ UNCHANGED <<serverVars, form, items, attached, media, record>>

\* handleAddMedia; files may be picked while others are being uploaded.
AddMedia(s, m) ==
    /\ Editing
    /\ SendFile(s, m, Today)
    /\ items' = [items EXCEPT ![m] = "uploading"]
    /\ attached' = attached \cup {s}
    /\ UNCHANGED <<form, media, record, save>>

\* A form without a cover takes the new picture.
FormWithPicture(s) ==
    LET m == reqs[s].file IN
    IF s \in attached /\ reqs[s].pc = "added" /\ form.cover = None /\ m \in Pictures
    THEN [form EXCEPT !.cover = m]
    ELSE form

\* Fault: an upload that fails is left as it is.
UploadEndsIfAdded(s) ==
    LET m == reqs[s].file IN
    /\ Answer(s)
    /\ items' = IF s \in attached /\ reqs[s].pc = "added"
                THEN [items EXCEPT ![m] = "none"] ELSE items
    /\ form' = FormWithPicture(s)
    /\ attached' = attached \ {s}
    /\ UNCHANGED <<media, record, save>>

\* The item makes way for the row, or shows that the upload failed, if it is
\* still shown at all.
UploadEnds(s) ==
    LET m == reqs[s].file IN
    /\ Answer(s)
    /\ items' = IF s \in attached /\ items[m] # "none"
                THEN [items EXCEPT ![m] = IF reqs[s].pc = "added" THEN "none" ELSE "failed"]
                ELSE items
    /\ form' = FormWithPicture(s)
    /\ attached' = attached \ {s}
    /\ UNCHANGED <<media, record, save>>

\* handleRemoveMedia: a row is deleted at the server, an item in the form.
RemoveMedia(s, m) ==
    /\ Editing
    /\ media # NotLoaded
    /\ m \in Range(media)
    /\ DeleteMedia(s, m)
    /\ UNCHANGED pageVars

RemoveItem(m) ==
    /\ Editing
    /\ items[m] = "failed"
    /\ items' = [items EXCEPT ![m] = "none"]
    /\ UNCHANGED <<serverVars, form, attached, media, record, save>>

RemoveEnds(s) ==
    /\ Answer(s)
    /\ UNCHANGED pageVars

\* The other device.  An upload of its own to this day would be to this page what an
\* upload is that goes on after the page was left.
OtherDevice ==
    /\ \/ \E s \in Slots \ Uploads, m \in Media :
            DeleteMedia(s, m) \/ \E d \in Days \ {Today} : SendFile(s, m, d)
       \/ \E d \in Days, m \in Media \cup {None}, c \in Comments \cup {None} : UpsertDay(d, m, c)
    /\ UNCHANGED pageVars

PageStep ==
    \/ Arrives
    \/ Reopen
    \/ \E c \in Comments \cup {None} : TypeComment(c)
    \/ \E m \in Media : SetCover(m) \/ RemoveItem(m)
    \/ \E withComment \in BOOLEAN : Save(withComment)
    \/ Saved
    \/ NotSaved
    \/ \E s \in Uploads : UploadEnds(s) \/ \E m \in Media : AddMedia(s, m)
    \/ \E s \in Slots \ Uploads : RemoveEnds(s) \/ \E m \in Media : RemoveMedia(s, m)

ServerSteps == (\E s \in Slots : ServerStep(s)) /\ UNCHANGED pageVars

Next == PageStep \/ ServerSteps \/ OtherDevice

\* An upload gets on, one way or another; nothing else has to happen.
Fairness ==
    \A s \in Uploads : WF_vars((ServerStep(s) /\ UNCHANGED pageVars) \/ UploadEnds(s))

Spec == Init /\ [][Next]_vars /\ Fairness

-----------------------------------------------------------------------------
(* Properties *)

\* Once the form has been filled from the day's row, what the user writes stays
\* until the page is left, whatever the queries bring.
WrittenStays ==
    [][form.filled /\ form'.filled /\ (media' # media \/ record' # record)
        => form'.comment = form.comment /\ items' = items]_vars

\* Every file picked ends as a row, as an item that says it failed, or with the
\* form it was shown in; none shows progress for ever.
UploadsEnd ==
    (\E m \in Media : items[m] = "uploading") ~> (\A m \in Media : items[m] # "uploading")

=============================================================================
