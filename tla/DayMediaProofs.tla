--------------------------- MODULE DayMediaProofs ---------------------------
(***************************************************************************)
(* Theorems about DayMedia, for any number of days, files, requests and    *)
(* failures, and about DayPage, which is composed with it.  A file that is *)
(* on its way has one request and no row (Travelling), so that nothing can *)
(* delete its object before its row is there, and a deletion gives up the  *)
(* object only when the row has gone (ObjectsInv).  The cover of a day     *)
(* that nobody has touched is one of its own pictures, and no other day    *)
(* has one of them; while there is none, a request is about to set it      *)
(* (CoverInv).  The page does to the server what any requests may, and a   *)
(* row it has seen stays there (PageInv).                                  *)
(***************************************************************************)
EXTENDS DayPage, FiniteSetTheorems, SequenceTheorems, WellFoundedInduction, TLAPS

Travelling(s) == reqs[s].pc \in {"put", "insert"}

\* What ObjectsInv says of one request.
RequestInv(s) ==
    /\ reqs[s].pc # "idle" => reqs[s].file \in Media /\ home[reqs[s].file] \in Days
    /\ Travelling(s) =>
        /\ reqs[s].file \notin AllListed
        /\ \A t \in Slots \ {s} : reqs[t].pc # "idle" => reqs[t].file # reqs[s].file
    /\ reqs[s].pc = "insert" => reqs[s].file \in objects
    /\ reqs[s].pc = "object" => reqs[s].file \notin AllListed

ObjectsInv == RowHasObject /\ \A s \in Slots : RequestInv(s)

Choice(s) == reqs[s].pc \in {"cover", "clear", "delete"}

\* The cover of a day that nobody has touched, and the requests about its files.
CoverOf(d) ==
    /\ day[d].cover \in (Listed(d) \cap Pictures) \cup {None}
    /\ \A s \in Slots : Choice(s) /\ home[reqs[s].file] = d =>
        reqs[s].pc = "cover" /\ reqs[s].file \in Listed(d)
    /\ Listed(d) \cap Pictures # {} /\ day[d].cover = None => Choosing(d)

CoverInv ==
    /\ \A s \in Slots : reqs[s].pc = "cover" => reqs[s].file \in Pictures
    /\ \A d \in Days : day[d].cover # None => home[day[d].cover] \in touched \cup {d}
    /\ \A d \in Days \ touched : CoverOf(d)

-----------------------------------------------------------------------------
(* Rows *)

LEMMA AppendRow ==
  ASSUME NEW s \in Seq(Media), IsInjective(s), NEW m \in Media, m \notin Range(s)
  PROVE  /\ Append(s, m) \in Seq(Media)
         /\ IsInjective(Append(s, m))
         /\ Range(Append(s, m)) = Range(s) \cup {m}
<1> DEFINE n == Len(s)
           a == Append(s, m)
<1>1. n \in Nat /\ DOMAIN s = 1 .. n /\ \A i \in 1 .. n : s[i] \in Media
  OBVIOUS
<1>2. a \in Seq(Media) /\ DOMAIN a = 1 .. n + 1
  OBVIOUS
<1>3. a[n + 1] = m /\ \A i \in 1 .. n : a[i] = s[i]
  OBVIOUS
<1> HIDE DEF a, n
<1>4. \A i \in 1 .. n : s[i] # m
  BY <1>1 DEF Range
<1>5. IsInjective(a)
  BY <1>1, <1>2, <1>3, <1>4 DEF IsInjective
<1>6. Range(a) = Range(s) \cup {m}
  <2>1. \A i \in 1 .. n : i \in 1 .. n + 1
    BY <1>1
  <2>2. n + 1 \in 1 .. n + 1 /\ \A i \in 1 .. n + 1 : i \in 1 .. n \/ i = n + 1
    BY <1>1
  <2> QED
    BY <1>1, <1>2, <1>3, <2>1, <2>2 DEF Range
<1> QED
  BY <1>2, <1>5, <1>6 DEF a

LEMMA RemoveRow ==
  ASSUME NEW s \in Seq(Media), IsInjective(s), NEW m
  PROVE  /\ RemoveFirst(s, m) \in Seq(Media)
         /\ IsInjective(RemoveFirst(s, m))
         /\ Range(RemoveFirst(s, m)) = Range(s) \ {m}
<1>1. CASE \A i \in 1 .. Len(s) : s[i] # m
  <2>1. RemoveFirst(s, m) = s
    BY <1>1 DEF RemoveFirst
  <2>2. m \notin Range(s)
    BY <1>1 DEF Range
  <2> QED
    BY <2>1, <2>2
<1>2. ASSUME NEW k \in 1 .. Len(s), s[k] = m
      PROVE  /\ RemoveFirst(s, m) \in Seq(Media)
             /\ IsInjective(RemoveFirst(s, m))
             /\ Range(RemoveFirst(s, m)) = Range(s) \ {m}
  <2> DEFINE n == Len(s)
             a == RemoveAt(s, k)
  <2>1. n \in Nat /\ DOMAIN s = 1 .. n /\ k \in 1 .. n
    OBVIOUS
  <2>2. RemoveFirst(s, m) = a
    <3>1. {i \in 1 .. Len(s) : s[i] = m} = {k}
      BY <1>2 DEF IsInjective
    <3>2. Min({k}) = k
      BY <2>1 DEF Min
    <3>3. SelectInSeq(s, LAMBDA v : v = m) = k
      BY <3>1, <3>2 DEF SelectInSeq
    <3> QED
      BY <1>2, <3>3 DEF RemoveFirst
  <2>3. /\ a \in Seq(Media) /\ DOMAIN a = 1 .. n - 1
        /\ \A i \in 1 .. n - 1 : a[i] = IF i < k THEN s[i] ELSE s[i + 1]
    <3> DEFINE left == SubSeq(s, 1, k - 1)
               right == SubSeq(s, k + 1, n)
    <3>1. /\ left \in Seq(Media) /\ Len(left) = k - 1
          /\ \A i \in 1 .. k - 1 : left[i] = s[i]
      <4>1. 1 \in Int /\ k - 1 \in Int /\ \A i \in 1 .. k - 1 : s[i] \in Media
        BY <2>1, ElementOfSeq
      <4>2. /\ left \in Seq(Media) /\ Len(left) = IF 1 <= k - 1 THEN (k - 1) - 1 + 1 ELSE 0
            /\ \A i \in 1 .. (k - 1) - 1 + 1 : left[i] = s[1 + i - 1]
        BY <4>1, SubSeqProperties
      <4> HIDE DEF left, n, a
      <4>3. \A i \in 1 .. k - 1 : i \in 1 .. (k - 1) - 1 + 1 /\ 1 + i - 1 = i
        BY <2>1
      <4> QED
        BY <2>1, <4>2, <4>3
    <3>2. /\ right \in Seq(Media) /\ Len(right) = n - k
          /\ \A i \in 1 .. n - k : right[i] = s[k + i]
      <4>1. k + 1 \in Int /\ n \in Int /\ \A i \in k + 1 .. n : s[i] \in Media
        BY <2>1, ElementOfSeq
      <4>2. /\ right \in Seq(Media) /\ Len(right) = IF k + 1 <= n THEN n - (k + 1) + 1 ELSE 0
            /\ \A i \in 1 .. n - (k + 1) + 1 : right[i] = s[(k + 1) + i - 1]
        BY <4>1, SubSeqProperties
      <4> HIDE DEF right, n, a
      <4>3. \A i \in 1 .. n - k : i \in 1 .. n - (k + 1) + 1 /\ (k + 1) + i - 1 = k + i
        BY <2>1
      <4> QED
        BY <2>1, <4>2, <4>3
    <3>3. a = left \o right
      BY DEF RemoveAt
    <3> HIDE DEF left, right, n, a
    <3>4. /\ a \in Seq(Media) /\ Len(a) = Len(left) + Len(right)
          /\ \A i \in 1 .. Len(left) + Len(right) :
               a[i] = IF i <= Len(left) THEN left[i] ELSE right[i - Len(left)]
      BY <3>1, <3>2, <3>3, ConcatProperties
    <3>5. ASSUME NEW i \in 1 .. n - 1 PROVE a[i] = IF i < k THEN s[i] ELSE s[i + 1]
      <4>1. i \in 1 .. Len(left) + Len(right)
        BY <2>1, <3>1, <3>2
      <4>2. CASE i < k
        <5>1. i <= Len(left) /\ i \in 1 .. k - 1
          BY <2>1, <3>1, <4>2
        <5> QED
          BY <3>1, <3>4, <4>1, <4>2, <5>1
      <4>3. CASE ~(i < k)
        <5>1. ~(i <= Len(left)) /\ i - Len(left) \in 1 .. n - k /\ k + (i - Len(left)) = i + 1
          BY <2>1, <3>1, <4>3
        <5> QED
          BY <3>2, <3>4, <4>1, <4>3, <5>1
      <4> QED
        BY <4>2, <4>3
    <3>6. Len(a) = n - 1
      BY <2>1, <3>1, <3>2, <3>4
    <3> QED
      BY <2>1, <3>4, <3>5, <3>6, LenProperties
  <2> HIDE DEF a, n
  <2>4. IsInjective(a)
    <3> SUFFICES ASSUME NEW i \in 1 .. n - 1, NEW j \in 1 .. n - 1, a[i] = a[j] PROVE i = j
      BY <2>3 DEF IsInjective
    <3> DEFINE at(x) == IF x < k THEN x ELSE x + 1
    <3>1. at(i) \in 1 .. n /\ at(j) \in 1 .. n /\ a[i] = s[at(i)] /\ a[j] = s[at(j)]
      BY <2>1, <2>3
    <3>2. at(i) = at(j)
      BY <2>1, <3>1 DEF IsInjective
    <3> QED
      BY <2>1, <3>2
  <2>5. Range(a) = Range(s) \ {m}
    <3>1. ASSUME NEW i \in 1 .. n - 1 PROVE a[i] \in Range(s) \ {m}
      <4>1. (IF i < k THEN i ELSE i + 1) \in 1 .. n /\ (IF i < k THEN i ELSE i + 1) # k
        BY <2>1
      <4>2. a[i] = s[IF i < k THEN i ELSE i + 1]
        BY <2>3
      <4> QED
        BY <1>2, <2>1, <4>1, <4>2 DEF IsInjective, Range
    <3>2. ASSUME NEW j \in 1 .. n, s[j] # m PROVE s[j] \in Range(a)
      <4>1. CASE j < k
        <5>1. j \in 1 .. n - 1 /\ a[j] = s[j]
          BY <2>1, <2>3, <4>1
        <5> QED
          BY <2>3, <5>1 DEF Range
      <4>2. CASE j > k
        <5>1. j - 1 \in 1 .. n - 1 /\ a[j - 1] = s[j]
          BY <2>1, <2>3, <4>2
        <5> QED
          BY <2>3, <5>1 DEF Range
      <4>3. j # k
        BY <1>2, <3>2
      <4> QED
        BY <2>1, <4>1, <4>2, <4>3
    <3> QED
      BY <2>1, <2>3, <3>1, <3>2 DEF Range
  <2> QED
    BY <2>2, <2>3, <2>4, <2>5
<1> QED
  BY <1>1, <1>2

LEMMA RowAdded ==
  ASSUME ServerTypeOK, NEW d \in Days, NEW m \in Media, m \notin AllListed,
         rows' = [rows EXCEPT ![d] = Append(@, m)]
  PROVE  /\ rows' \in [Days -> Seq(Media)] /\ \A e \in Days : IsInjective(rows'[e])
         /\ Listed(d)' = Listed(d) \cup {m}
         /\ \A e \in Days \ {d} : rows'[e] = rows[e] /\ Listed(e)' = Listed(e)
         /\ AllListed' = AllListed \cup {m}
<1>1. rows \in [Days -> Seq(Media)] /\ \A e \in Days : IsInjective(rows[e])
  BY DEF ServerTypeOK
<1>2. rows'[d] = Append(rows[d], m) /\ \A e \in Days \ {d} : rows'[e] = rows[e]
  BY <1>1
<1>3. m \notin Range(rows[d])
  BY DEF AllListed, Listed
<1>4. /\ Append(rows[d], m) \in Seq(Media) /\ IsInjective(Append(rows[d], m))
      /\ Range(Append(rows[d], m)) = Range(rows[d]) \cup {m}
  BY <1>1, <1>3, AppendRow
<1>5. rows' \in [Days -> Seq(Media)] /\ \A e \in Days : IsInjective(rows'[e])
  BY <1>1, <1>2, <1>4
<1>6. Listed(d)' = Listed(d) \cup {m} /\ \A e \in Days \ {d} : Listed(e)' = Listed(e)
  BY <1>2, <1>4 DEF Listed
<1>7. AllListed' = AllListed \cup {m}
  <2> HIDE DEF Listed
  <2> QED
    BY <1>6 DEF AllListed
<1> QED
  BY <1>2, <1>5, <1>6, <1>7

LEMMA RowRemoved ==
  ASSUME ServerTypeOK, NEW d \in Days, NEW m \in Media, home[m] = d,
         rows' = [rows EXCEPT ![d] = RemoveFirst(@, m)]
  PROVE  /\ rows' \in [Days -> Seq(Media)] /\ \A e \in Days : IsInjective(rows'[e])
         /\ Listed(d)' = Listed(d) \ {m}
         /\ \A e \in Days \ {d} : rows'[e] = rows[e] /\ Listed(e)' = Listed(e)
         /\ AllListed' = AllListed \ {m}
<1>1. rows \in [Days -> Seq(Media)] /\ \A e \in Days : IsInjective(rows[e])
  BY DEF ServerTypeOK
<1>2. rows'[d] = RemoveFirst(rows[d], m) /\ \A e \in Days \ {d} : rows'[e] = rows[e]
  BY <1>1
<1>3. \A e \in Days \ {d} : m \notin Listed(e)
  BY DEF ServerTypeOK
<1>4. /\ RemoveFirst(rows[d], m) \in Seq(Media) /\ IsInjective(RemoveFirst(rows[d], m))
      /\ Range(RemoveFirst(rows[d], m)) = Range(rows[d]) \ {m}
  BY <1>1, RemoveRow
<1>5. rows' \in [Days -> Seq(Media)] /\ \A e \in Days : IsInjective(rows'[e])
  BY <1>1, <1>2, <1>4
<1>6. Listed(d)' = Listed(d) \ {m} /\ \A e \in Days \ {d} : Listed(e)' = Listed(e)
  BY <1>2, <1>4 DEF Listed
<1>7. AllListed' = AllListed \ {m}
  <2> HIDE DEF Listed
  <2> QED
    BY <1>3, <1>6 DEF AllListed
<1> QED
  BY <1>2, <1>5, <1>6, <1>7

-----------------------------------------------------------------------------
(* Types *)

DayRow == [exists : BOOLEAN, cover : Media \cup {None}, comment : Comments \cup {None}]

LEMMA InitTypes == ServerInit => ServerTypeOK
<1> SUFFICES ASSUME ServerInit PROVE ServerTypeOK
  OBVIOUS
<1> USE DEF ServerInit
<1>1. rows \in [Days -> Seq(Media)] /\ \A d \in Days : IsInjective(rows[d]) /\ Listed(d) = {}
  BY DEF IsInjective, Listed, Range
<1>2. reqs \in [Slots -> Request]
  BY DEF NoRequest, Request
<1>3. day \in [Days -> DayRow] /\ \A d \in Days : day[d] = NoDay /\ NoDay.cover = None
  BY DEF NoDay, DayRow
<1>4. home \in [Media -> Days \cup {None}] /\ breaks \in 0 .. MaxBreaks
  BY MediaAssumption
<1> QED
  BY <1>1, <1>2, <1>3, <1>4 DEF ServerTypeOK, DayRow

\* The parts of the type that are not about the days and their rows.
RequestsOK ==
    /\ reqs \in [Slots -> Request]
    /\ home \in [Media -> Days \cup {None}]
    /\ breaks \in 0 .. MaxBreaks
    /\ touched \subseteq Days

\* A file never changes its day, nor does a day lose its touch.
NothingForgotten ==
    /\ \A m \in Media : home[m] # None => home'[m] = home[m]
    /\ touched \subseteq touched'

Targets == {"insert", "cover", "added", "delete", "object", "deleted", "failed"}

LEMMA StepTargets ==
  ASSUME NEW s \in Slots, ServerStep(s)
  PROVE  /\ reqs[s].pc # "idle"
         /\ \E to \in Targets : reqs' = [reqs EXCEPT ![s].pc = to]
         /\ home' = home /\ touched' \in {touched, touched \cup {home[reqs[s].file]}}
         /\ breaks' = breaks \/ (breaks < MaxBreaks /\ breaks' = breaks + 1)
<1> USE DEF Step, Targets
<1>1. CASE PutObject(s)
  BY <1>1 DEF PutObject
<1>2. CASE InsertMedia(s)
  BY <1>2 DEF InsertMedia
<1>3. CASE RefuseMedia(s)
  BY <1>3 DEF RefuseMedia
<1>4. CASE SetMainMedia(s)
  BY <1>4 DEF SetMainMedia
<1>5. CASE ClearMainMedia(s)
  BY <1>5 DEF ClearMainMedia
<1>6. CASE DeleteById(s)
  BY <1>6 DEF DeleteById
<1>7. CASE DeleteObject(s)
  BY <1>7 DEF DeleteObject
<1>8. CASE BreakOff(s)
  BY <1>8 DEF BreakOff
<1> QED
  BY <1>1, <1>2, <1>3, <1>4, <1>5, <1>6, <1>7, <1>8 DEF ServerStep

LEMMA ListedHome ==
  ASSUME ServerTypeOK, NEW m \in AllListed
  PROVE  m \in Media /\ home[m] \in Days /\ m \in Listed(home[m])
<1>1. PICK d \in Days : m \in Listed(d)
  BY DEF AllListed
<1>2. home[m] = d
  BY <1>1 DEF ServerTypeOK
<1>3. m \in Media
  BY <1>1 DEF ServerTypeOK, Listed, Range
<1> QED
  BY <1>1, <1>2, <1>3

LEMMA RequestTypes ==
  ASSUME ServerTypeOK, ObjectsInv, [ServerNext]_serverVars
  PROVE  RequestsOK' /\ NothingForgotten
<1> RequestsOK /\ MaxBreaks \in Nat /\ None \notin Days \cup Media
  BY MediaAssumption DEF ServerTypeOK, RequestsOK
<1> USE DEF RequestsOK, NothingForgotten
<1>1. ASSUME NEW s \in Slots, NEW m \in Media, NEW d \in Days, SendFile(s, m, d)
      PROVE  RequestsOK' /\ NothingForgotten
  <2>1. reqs' \in [Slots -> Request]
    BY <1>1 DEF SendFile, Start, Request
  <2> QED
    BY <1>1, <2>1 DEF SendFile
<1>2. ASSUME NEW s \in Slots, NEW m \in Media, DeleteMedia(s, m)
      PROVE  RequestsOK' /\ NothingForgotten
  <2>1. reqs' \in [Slots -> Request]
    BY <1>2 DEF DeleteMedia, Start, Request
  <2>2. home[m] \in Days
    BY <1>2, ListedHome DEF DeleteMedia
  <2> QED
    BY <1>2, <2>1, <2>2 DEF DeleteMedia
<1>3. ASSUME NEW s \in Slots, Answer(s) PROVE RequestsOK' /\ NothingForgotten
  <2>1. reqs' \in [Slots -> Request]
    BY <1>3 DEF Answer, NoRequest, Request
  <2> QED
    BY <1>3, <2>1 DEF Answer
<1>4. ASSUME NEW s \in Slots, ServerStep(s) PROVE RequestsOK' /\ NothingForgotten
  <2>1. /\ reqs[s].pc # "idle"
        /\ home' = home /\ touched' \in {touched, touched \cup {home[reqs[s].file]}}
        /\ breaks' = breaks \/ (breaks < MaxBreaks /\ breaks' = breaks + 1)
    BY <1>4, StepTargets
  <2>2. PICK to \in Targets : reqs' = [reqs EXCEPT ![s].pc = to]
    BY <1>4, StepTargets
  <2>3. reqs' \in [Slots -> Request]
    BY <2>2 DEF Request, Targets
  <2>4. home[reqs[s].file] \in Days
    BY <2>1 DEF ObjectsInv, RequestInv
  <2>5. breaks' \in 0 .. MaxBreaks
    BY <2>1
  <2> QED
    BY <2>1, <2>3, <2>4, <2>5
<1>5. ASSUME NEW d \in Days, NEW m \in Media \cup {None}, NEW c, UpsertDay(d, m, c)
      PROVE  RequestsOK' /\ NothingForgotten
  <2>1. \A n \in {m} \ {None} : home[n] \in Days
    BY <1>5, ListedHome DEF UpsertDay
  <2> QED
    BY <1>5, <2>1 DEF UpsertDay
<1>6. CASE UNCHANGED serverVars
  BY <1>6 DEF serverVars
<1> QED
  BY <1>1, <1>2, <1>3, <1>4, <1>5, <1>6 DEF ServerNext

\* The part of the type that is about the days and their rows, without the objects.
DaysOK ==
    /\ day \in [Days -> DayRow]
    /\ rows \in [Days -> Seq(Media)]
    /\ \A d \in Days :
        /\ ~day[d].exists => day[d] = NoDay /\ rows[d] = <<>>
        /\ IsInjective(rows[d])
        /\ \A m \in Listed(d) : home[m] = d
        /\ day[d].cover \in AllListed \cup {None}
        /\ \A e \in Days \ {d} : day[e].cover = day[d].cover => day[d].cover = None

\* A cover is taken from some days, and nothing else is.
LEMMA CoversTaken ==
  ASSUME ServerTypeOK, day' = [d \in Days |-> day'[d]],
         \A d \in Days : day'[d] = day[d] \/ day'[d] = [day[d] EXCEPT !.cover = None]
  PROVE  /\ day' \in [Days -> DayRow]
         /\ \A d \in Days :
             /\ day'[d].exists = day[d].exists
             /\ day[d] = NoDay => day'[d] = NoDay
             /\ day'[d].cover \in {None, day[d].cover}
             /\ \A e \in Days \ {d} : day'[e].cover = day'[d].cover => day'[d].cover = None
<1>1. day \in [Days -> DayRow]
  BY DEF ServerTypeOK, DayRow
<1>2. ASSUME NEW d \in Days
      PROVE  /\ day'[d] \in DayRow /\ day'[d].exists = day[d].exists
             /\ day'[d].cover \in {None, day[d].cover}
             /\ day[d] = NoDay => day'[d] = NoDay
  <2>1. day[d] \in DayRow
    BY <1>1
  <2>2. CASE day'[d] = day[d]
    BY <2>1, <2>2
  <2>3. CASE day'[d] = [day[d] EXCEPT !.cover = None]
    BY <2>1, <2>3 DEF DayRow, NoDay
  <2> QED
    BY <2>2, <2>3
<1>3. \A d \in Days : \A e \in Days \ {d} : day[e].cover = day[d].cover => day[d].cover = None
  BY DEF ServerTypeOK
<1>4. day' \in [Days -> DayRow]
  BY <1>2
<1>5. ASSUME NEW d \in Days, NEW e \in Days \ {d}, day'[e].cover = day'[d].cover
      PROVE  day'[d].cover = None
  <2>1. day'[d].cover \in {None, day[d].cover} /\ day'[e].cover \in {None, day[e].cover}
    BY <1>2
  <2> QED
    BY <1>3, <1>5, <2>1
<1> QED
  BY <1>2, <1>4, <1>5

LEMMA DaysKept ==
  ASSUME ServerTypeOK, ObjectsInv, [ServerNext]_serverVars
  PROVE  DaysOK'
<1>d. DaysOK /\ day \in [Days -> DayRow]
  BY DEF ServerTypeOK, DaysOK, DayRow
<1>n. NothingForgotten /\ home' \in [Media -> Days \cup {None}] /\ None \notin Days \cup Media
  BY RequestTypes, MediaAssumption DEF RequestsOK
<1>h. \A d \in Days : \A m \in Listed(d) : m \in Media /\ home'[m] = d
  <2>1. \A d \in Days : Listed(d) \subseteq Media
    BY <1>d DEF DaysOK, Listed, Range
  <2> QED
    BY <1>d, <1>n, <2>1 DEF DaysOK, NothingForgotten
<1>1. ASSUME UNCHANGED <<day, rows>> PROVE DaysOK'
  <2>1. AllListed' = AllListed /\ \A d \in Days : Listed(d)' = Listed(d)
    BY <1>1 DEF AllListed, Listed
  <2> HIDE DEF Listed
  <2> QED
    BY <1>d, <1>h, <1>1, <2>1 DEF DaysOK
<1>2. ASSUME NEW s \in Slots, InsertMedia(s) PROVE DaysOK'
  <2>0. PICK m \in Media, d \in Days : m = reqs[s].file /\ d = home[m]
    BY <1>2 DEF InsertMedia, Step, ObjectsInv, RequestInv
  <2>1. /\ day' = [day EXCEPT ![d].exists = TRUE] /\ rows' = [rows EXCEPT ![d] = Append(@, m)]
        /\ home' = home
    BY <1>2, <2>0 DEF InsertMedia
  <2>2. m \notin AllListed
    BY <1>2, <2>0 DEF InsertMedia, Step, ObjectsInv, RequestInv, Travelling
  <2>3. /\ rows' \in [Days -> Seq(Media)] /\ \A e \in Days : IsInjective(rows'[e])
        /\ Listed(d)' = Listed(d) \cup {m}
        /\ \A e \in Days \ {d} : rows'[e] = rows[e] /\ Listed(e)' = Listed(e)
        /\ AllListed' = AllListed \cup {m}
    BY <2>1, <2>2, RowAdded
  <2>4. /\ day' \in [Days -> DayRow] /\ day'[d].exists
        /\ \A e \in Days : day'[e].cover = day[e].cover
        /\ \A e \in Days \ {d} : day'[e] = day[e]
    <3>1. day'[d] = [day[d] EXCEPT !.exists = TRUE] /\ \A e \in Days \ {d} : day'[e] = day[e]
      BY <1>d, <2>1
    <3>2. day'[d] \in DayRow /\ day'[d].exists /\ day'[d].cover = day[d].cover
      BY <1>d, <3>1 DEF DayRow
    <3> QED
      BY <1>d, <2>1, <3>1, <3>2
  <2>5. \A e \in Days : \A n \in Listed(e)' : home'[n] = e
    <3> HIDE DEF Listed
    <3> QED
      BY <1>h, <2>0, <2>1, <2>3
  <2> QED
    BY <1>d, <2>3, <2>4, <2>5 DEF DaysOK
<1>3. ASSUME NEW s \in Slots, SetMainMedia(s) PROVE DaysOK'
  <2>2. PICK m \in Media, d \in Days : m = reqs[s].file /\ d = home[m]
    BY <1>3 DEF SetMainMedia, Step, ObjectsInv, RequestInv
  <2> DEFINE accepted == m \in Listed(d) /\ NoOthersCover(d, m)
  <2>1. /\ day' = [day EXCEPT ![d].cover = IF accepted THEN m ELSE @]
        /\ UNCHANGED <<rows, home>>
    BY <1>3, <2>2 DEF SetMainMedia
  <2>3. CASE ~accepted
    <3>1. day' = day
      BY <1>d, <2>1, <2>2, <2>3 DEF DaysOK, DayRow
    <3> QED
      BY <1>1, <2>1, <3>1
  <2>4. CASE accepted
    <3>1. m \in Listed(d) /\ \A e \in Days \ {d} : day[e].cover # m
      BY <2>4 DEF NoOthersCover
    <3>2. day' = [day EXCEPT ![d].cover = m]
      BY <2>1, <2>4
    <3> HIDE DEF accepted
    <3>3. day[d].exists
      BY <1>d, <2>2, <3>1 DEF DaysOK, Listed, Range
    <3>4. /\ day' \in [Days -> DayRow] /\ day'[d].exists /\ day'[d].cover = m
          /\ \A e \in Days \ {d} : day'[e] = day[e]
      <4>1. day'[d] = [day[d] EXCEPT !.cover = m] /\ \A e \in Days \ {d} : day'[e] = day[e]
        BY <1>d, <3>2
      <4>2. day'[d] \in DayRow /\ day'[d].exists /\ day'[d].cover = m
        BY <1>d, <3>3, <4>1 DEF DayRow
      <4> QED
        BY <1>d, <3>2, <4>1, <4>2
    <3>5. AllListed' = AllListed /\ m \in AllListed /\ \A e \in Days : Listed(e)' = Listed(e)
      BY <2>1, <2>2, <3>1 DEF AllListed, Listed
    <3> HIDE DEF Listed
    <3> QED
      BY <1>d, <1>h, <2>1, <3>1, <3>4, <3>5 DEF DaysOK
  <2> QED
    BY <2>3, <2>4
<1>4. ASSUME NEW s \in Slots, ClearMainMedia(s) PROVE DaysOK'
  <2>2. PICK m \in Media, d \in Days : m = reqs[s].file /\ d = home[m]
    BY <1>4 DEF ClearMainMedia, Step, ObjectsInv, RequestInv
  <2>1. day' = [day EXCEPT ![d].cover = IF @ = m THEN None ELSE @] /\ UNCHANGED <<rows, home>>
    BY <1>4, <2>2 DEF ClearMainMedia
  <2>3. /\ day' = [e \in Days |-> day'[e]]
        /\ \A e \in Days : day'[e] = day[e] \/ day'[e] = [day[e] EXCEPT !.cover = None]
    <3>1. day'[d] = [day[d] EXCEPT !.cover = IF @ = m THEN None ELSE @]
      BY <1>d, <2>1
    <3>2. day'[d] = day[d] \/ day'[d] = [day[d] EXCEPT !.cover = None]
      BY <1>d, <3>1 DEF DayRow
    <3> QED
      BY <1>d, <2>1, <3>2
  <2>4. /\ day' \in [Days -> DayRow]
        /\ \A e \in Days :
            /\ day'[e].exists = day[e].exists
            /\ day[e] = NoDay => day'[e] = NoDay
            /\ day'[e].cover \in {None, day[e].cover}
            /\ \A f \in Days \ {e} : day'[f].cover = day'[e].cover => day'[e].cover = None
    BY <2>3, CoversTaken
  <2>5. AllListed' = AllListed /\ \A e \in Days : Listed(e)' = Listed(e)
    BY <2>1 DEF AllListed, Listed
  <2> HIDE DEF Listed
  <2> QED
    BY <1>d, <1>h, <2>1, <2>4, <2>5 DEF DaysOK
<1>5. ASSUME NEW s \in Slots, DeleteById(s) PROVE DaysOK'
  <2>2. PICK m \in Media, d \in Days : m = reqs[s].file /\ d = home[m]
    BY <1>5 DEF DeleteById, Step, ObjectsInv, RequestInv
  <2>1. /\ rows' = [rows EXCEPT ![d] = RemoveFirst(@, m)] /\ day' = CoverCleared(m)
        /\ home' = home
    BY <1>5, <2>2 DEF DeleteById
  <2>3. /\ day' = [e \in Days |-> day'[e]]
        /\ \A e \in Days :
            /\ day'[e] = day[e] \/ day'[e] = [day[e] EXCEPT !.cover = None]
            /\ day'[e].cover # m
    <3>1. day' = [e \in Days |-> day'[e]]
      BY <2>1 DEF CoverCleared
    <3>2. ASSUME NEW e \in Days
          PROVE  /\ day'[e] = day[e] \/ day'[e] = [day[e] EXCEPT !.cover = None]
                 /\ day'[e].cover # m
      <4>1. day'[e] = [day[e] EXCEPT !.cover = IF @ = m THEN None ELSE @]
        BY <2>1 DEF CoverCleared
      <4>2. day[e] \in DayRow /\ m # None
        BY <1>d, <1>n
      <4>3. CASE day[e].cover = m
        BY <4>1, <4>2, <4>3 DEF DayRow
      <4>4. CASE day[e].cover # m
        BY <4>1, <4>2, <4>4 DEF DayRow
      <4> QED
        BY <4>3, <4>4
    <3> QED
      BY <3>1, <3>2
  <2>4. /\ day' \in [Days -> DayRow]
        /\ \A e \in Days :
            /\ day'[e].exists = day[e].exists
            /\ day[e] = NoDay => day'[e] = NoDay
            /\ day'[e].cover \in {None, day[e].cover} \ {m}
            /\ \A f \in Days \ {e} : day'[f].cover = day'[e].cover => day'[e].cover = None
    BY <2>3, CoversTaken
  <2>5. /\ rows' \in [Days -> Seq(Media)] /\ \A e \in Days : IsInjective(rows'[e])
        /\ Listed(d)' = Listed(d) \ {m}
        /\ \A e \in Days \ {d} : rows'[e] = rows[e] /\ Listed(e)' = Listed(e)
        /\ AllListed' = AllListed \ {m}
    BY <2>1, <2>2, RowRemoved
  <2>6. rows[d] = <<>> => rows'[d] = <<>>
    BY <1>d, <2>1, <2>2 DEF RemoveFirst, DaysOK
  <2>7. \A e \in Days : \A n \in Listed(e)' : home'[n] = e
    <3> HIDE DEF Listed
    <3> QED
      BY <1>h, <2>1, <2>5
  <2> QED
    BY <1>d, <2>4, <2>5, <2>6, <2>7 DEF DaysOK
<1>6. ASSUME NEW d \in Days, NEW m \in Media \cup {None}, NEW c \in Comments \cup {None},
             UpsertDay(d, m, c)
      PROVE  DaysOK'
  <2>1. /\ m \in AllListed \cup {None} /\ (m # None => NoOthersCover(d, m))
        /\ day' = [day EXCEPT ![d] = [exists |-> TRUE, cover |-> m, comment |-> c]]
        /\ UNCHANGED <<rows, home>>
    BY <1>6 DEF UpsertDay
  <2>2. /\ day' \in [Days -> DayRow] /\ day'[d].exists /\ day'[d].cover = m
        /\ \A e \in Days \ {d} : day'[e] = day[e]
    BY <1>d, <2>1 DEF DaysOK, DayRow
  <2>3. AllListed' = AllListed /\ \A e \in Days : Listed(e)' = Listed(e)
    BY <2>1 DEF AllListed, Listed
  <2> HIDE DEF Listed
  <2> QED
    BY <1>d, <1>h, <2>1, <2>2, <2>3 DEF DaysOK, NoOthersCover
<1> QED
  BY <1>1, <1>2, <1>3, <1>4, <1>5, <1>6
     DEF ServerNext, ServerStep, SendFile, PutObject, DeleteMedia, Answer, RefuseMedia,
         DeleteObject, BreakOff, serverVars

LEMMA TypesKept ==
  ASSUME ServerTypeOK, ObjectsInv, [ServerNext]_serverVars
  PROVE  ServerTypeOK'
<1>1. RequestsOK' /\ NothingForgotten /\ DaysOK'
  BY RequestTypes, DaysKept
<1>2. objects' \subseteq {m \in Media : home'[m] # None}
  <2> DEFINE Sent == {m \in Media : home[m] # None}
  <2>1. objects \subseteq Sent /\ Sent \subseteq {m \in Media : home'[m] # None}
    BY <1>1 DEF ServerTypeOK, NothingForgotten
  <2>2. ASSUME NEW s \in Slots, PutObject(s) PROVE objects' \subseteq Sent
    BY <2>1, <2>2, MediaAssumption DEF PutObject, Step, ObjectsInv, RequestInv
  <2>3. ASSUME NEW s \in Slots, DeleteObject(s) PROVE objects' \subseteq Sent
    BY <2>1, <2>3 DEF DeleteObject
  <2>4. CASE objects' = objects
    BY <2>1, <2>4
  <2> QED
    BY <2>1, <2>2, <2>3, <2>4
       DEF ServerNext, ServerStep, SendFile, InsertMedia, RefuseMedia, SetMainMedia, DeleteMedia,
           ClearMainMedia, DeleteById, BreakOff, Answer, UpsertDay, serverVars
<1> QED
  BY <1>1, <1>2 DEF ServerTypeOK, RequestsOK, DaysOK, DayRow

-----------------------------------------------------------------------------
(* Objects *)

\* What a step leaves to one request when it sends nothing and no object, row or
\* request of the others is touched.
LEMMA QuietStep ==
  ASSUME ServerTypeOK, ObjectsInv, NEW s \in Slots, NEW to \in {"added", "failed", "delete"},
         reqs[s].pc # "idle", reqs' = [reqs EXCEPT ![s].pc = to],
         UNCHANGED <<rows, objects, home>>
  PROVE  ObjectsInv'
<1>1. reqs'[s].pc = to /\ reqs'[s].file = reqs[s].file /\ \A t \in Slots \ {s} : reqs'[t] = reqs[t]
  BY DEF ServerTypeOK, Request
<1>2. AllListed' = AllListed
  BY DEF AllListed, Listed
<1> HIDE DEF AllListed
<1>3. ASSUME NEW t \in Slots PROVE RequestInv(t)'
  <2>1. CASE t = s
    BY <1>1, <1>2, <2>1 DEF RequestInv, ObjectsInv, Travelling
  <2>2. CASE t # s
    BY <1>1, <1>2, <2>2 DEF RequestInv, ObjectsInv, Travelling
  <2> QED
    BY <2>1, <2>2
<1> QED
  BY <1>2, <1>3 DEF ObjectsInv, RowHasObject

LEMMA ObjectsKept ==
  ASSUME ServerTypeOK, ObjectsInv, [ServerNext]_serverVars
  PROVE  ObjectsInv'
<1>t. /\ reqs \in [Slots -> Request] /\ AllListed \subseteq objects
      /\ \A m \in AllListed : m \in Media /\ home[m] \in Days
      /\ \A s \in Slots : RequestInv(s)
  BY ListedHome DEF ServerTypeOK, ObjectsInv, RowHasObject
<1>n. None \notin Days
  BY MediaAssumption
<1>1. ASSUME NEW s \in Slots, NEW m \in Media, NEW d \in Days, SendFile(s, m, d) PROVE ObjectsInv'
  <2>1. /\ home[m] = None /\ home' = [home EXCEPT ![m] = d] /\ home'[m] = d
        /\ reqs'[s] = [pc |-> "put", file |-> m]
        /\ \A t \in Slots \ {s} : reqs'[t] = reqs[t]
        /\ objects' = objects /\ AllListed' = AllListed
    BY <1>1, <1>t DEF SendFile, Start, AllListed, Listed, ServerTypeOK
  <2>2. \A n \in Media : n # m => home'[n] = home[n]
    BY <2>1 DEF ServerTypeOK
  <2>3. ASSUME NEW t \in Slots PROVE RequestInv(t)'
    <3>1. CASE t = s
      BY <1>t, <1>n, <2>1, <3>1 DEF RequestInv, Travelling
    <3>2. CASE t # s
      BY <1>t, <1>n, <2>1, <2>2, <3>2 DEF RequestInv, Travelling
    <3> QED
      BY <3>1, <3>2
  <2> QED
    BY <1>t, <2>1, <2>3 DEF ObjectsInv, RowHasObject
<1>2. ASSUME NEW s \in Slots, PutObject(s) PROVE ObjectsInv'
  <2>1. /\ reqs[s].pc = "put" /\ reqs'[s].pc = "insert" /\ reqs'[s].file = reqs[s].file
        /\ \A t \in Slots \ {s} : reqs'[t] = reqs[t]
        /\ objects' = objects \cup {reqs[s].file} /\ AllListed' = AllListed /\ home' = home
    BY <1>2, <1>t DEF PutObject, Step, AllListed, Listed, Request
  <2>2. ASSUME NEW t \in Slots PROVE RequestInv(t)'
    <3>1. CASE t = s
      BY <1>t, <2>1, <3>1 DEF RequestInv, Travelling
    <3>2. CASE t # s
      BY <1>t, <2>1, <3>2 DEF RequestInv, Travelling
    <3> QED
      BY <3>1, <3>2
  <2> QED
    BY <1>t, <2>1, <2>2 DEF ObjectsInv, RowHasObject
<1>3. ASSUME NEW s \in Slots, InsertMedia(s) PROVE ObjectsInv'
  <2> DEFINE m == reqs[s].file
  <2>1. /\ reqs[s].pc = "insert" /\ rows' = [rows EXCEPT ![home[m]] = Append(@, m)]
        /\ objects' = objects /\ home' = home
    BY <1>3 DEF InsertMedia, Step
  <2>2. /\ reqs'[s].pc \in {"cover", "added"} /\ reqs'[s].file = m
        /\ \A t \in Slots \ {s} : reqs'[t] = reqs[t]
    BY <1>3, <1>t DEF InsertMedia, Step, Request
  <2>3. m \in objects /\ m \in Media /\ home[m] \in Days /\ m \notin AllListed
        /\ \A t \in Slots \ {s} : reqs[t].pc # "idle" => reqs[t].file # m
    BY <1>t, <2>1 DEF RequestInv, Travelling
  <2>4. AllListed' = AllListed \cup {m}
    BY <2>1, <2>3, RowAdded
  <2>5. ASSUME NEW t \in Slots PROVE RequestInv(t)'
    <3>1. CASE t = s
      BY <1>t, <2>1, <2>2, <3>1 DEF RequestInv, Travelling
    <3>2. CASE t # s
      BY <1>t, <2>1, <2>2, <2>3, <2>4, <3>2 DEF RequestInv, Travelling
    <3> QED
      BY <3>1, <3>2
  <2> QED
    BY <1>t, <2>1, <2>3, <2>4, <2>5 DEF ObjectsInv, RowHasObject
<1>4. ASSUME NEW s \in Slots,
             RefuseMedia(s) \/ SetMainMedia(s) \/ ClearMainMedia(s) \/ BreakOff(s)
      PROVE  ObjectsInv'
  <2>1. /\ reqs[s].pc # "idle" /\ UNCHANGED <<rows, objects, home>>
        /\ \E to \in {"added", "failed", "delete"} : reqs' = [reqs EXCEPT ![s].pc = to]
    <3>1. CASE RefuseMedia(s)
      BY <3>1 DEF RefuseMedia, Step
    <3>2. CASE SetMainMedia(s)
      BY <3>2 DEF SetMainMedia, Step
    <3>3. CASE ClearMainMedia(s)
      BY <3>3 DEF ClearMainMedia, Step
    <3>4. CASE BreakOff(s)
      BY <3>4 DEF BreakOff, Step
    <3> QED
      BY <1>4, <3>1, <3>2, <3>3, <3>4
  <2> QED
    BY <2>1, QuietStep
<1>5. ASSUME NEW s \in Slots, NEW m \in Media, DeleteMedia(s, m) PROVE ObjectsInv'
  <2>1. /\ m \in AllListed /\ home' = home /\ reqs'[s] = [pc |-> "clear", file |-> m]
        /\ \A t \in Slots \ {s} : reqs'[t] = reqs[t]
        /\ objects' = objects /\ AllListed' = AllListed
    BY <1>5, <1>t DEF DeleteMedia, Start, AllListed, Listed
  <2>2. ASSUME NEW t \in Slots PROVE RequestInv(t)'
    <3>1. CASE t = s
      BY <1>t, <2>1, <3>1 DEF RequestInv, Travelling
    <3>2. CASE t # s
      BY <1>t, <2>1, <3>2 DEF RequestInv, Travelling
    <3> QED
      BY <3>1, <3>2
  <2> QED
    BY <1>t, <2>1, <2>2 DEF ObjectsInv, RowHasObject
<1>6. ASSUME NEW s \in Slots, DeleteById(s) PROVE ObjectsInv'
  <2> DEFINE m == reqs[s].file
  <2>1. /\ reqs[s].pc = "delete" /\ rows' = [rows EXCEPT ![home[m]] = RemoveFirst(@, m)]
        /\ objects' = objects /\ home' = home
    BY <1>6 DEF DeleteById, Step
  <2>2. /\ reqs'[s].pc \in {"object", "failed"} /\ reqs'[s].file = m
        /\ \A t \in Slots \ {s} : reqs'[t] = reqs[t]
    BY <1>6, <1>t DEF DeleteById, Step, Request
  <2>3. AllListed' = AllListed \ {m}
    BY <1>t, <2>1, RowRemoved DEF RequestInv
  <2>4. ASSUME NEW t \in Slots PROVE RequestInv(t)'
    <3>1. CASE t = s
      BY <1>t, <2>1, <2>2, <2>3, <3>1 DEF RequestInv, Travelling
    <3>2. CASE t # s
      BY <1>t, <2>1, <2>2, <2>3, <3>2 DEF RequestInv, Travelling
    <3> QED
      BY <3>1, <3>2
  <2> QED
    BY <1>t, <2>1, <2>3, <2>4 DEF ObjectsInv, RowHasObject
<1>7. ASSUME NEW s \in Slots, DeleteObject(s) PROVE ObjectsInv'
  <2>1. /\ reqs[s].pc = "object" /\ AllListed' = AllListed /\ home' = home
        /\ objects \ {reqs[s].file} \subseteq objects'
    BY <1>7 DEF DeleteObject, Step, AllListed, Listed
  <2>2. /\ reqs'[s].pc = "deleted" /\ reqs'[s].file = reqs[s].file
        /\ \A t \in Slots \ {s} : reqs'[t] = reqs[t]
    BY <1>7, <1>t DEF DeleteObject, Step, Request
  <2>3. ASSUME NEW t \in Slots PROVE RequestInv(t)'
    <3>1. CASE t = s
      BY <1>t, <2>1, <2>2, <3>1 DEF RequestInv, Travelling
    <3>2. CASE t # s
      <4>1. Travelling(t) => reqs[t].file # reqs[s].file
        BY <1>t, <2>1, <3>2 DEF RequestInv
      <4> QED
        BY <1>t, <2>1, <2>2, <3>2, <4>1 DEF RequestInv, Travelling
    <3> QED
      BY <3>1, <3>2
  <2>4. reqs[s].file \notin AllListed
    BY <1>t, <2>1 DEF RequestInv
  <2> QED
    BY <1>t, <2>1, <2>3, <2>4 DEF ObjectsInv, RowHasObject
<1>8. ASSUME NEW s \in Slots, Answer(s) PROVE ObjectsInv'
  <2>1. /\ reqs'[s].pc = "idle" /\ \A t \in Slots \ {s} : reqs'[t] = reqs[t]
        /\ objects' = objects /\ AllListed' = AllListed /\ home' = home
    BY <1>8, <1>t DEF Answer, NoRequest, AllListed, Listed
  <2>2. ASSUME NEW t \in Slots PROVE RequestInv(t)'
    <3>1. CASE t = s
      BY <2>1, <3>1 DEF RequestInv, Travelling
    <3>2. CASE t # s
      BY <1>t, <2>1, <3>2 DEF RequestInv, Travelling
    <3> QED
      BY <3>1, <3>2
  <2> QED
    BY <1>t, <2>1, <2>2 DEF ObjectsInv, RowHasObject
<1>9. CASE UNCHANGED <<rows, objects, home, reqs>>
  BY <1>9 DEF ObjectsInv, RequestInv, RowHasObject, Travelling, AllListed, Listed
<1> QED
  BY <1>1, <1>2, <1>3, <1>4, <1>5, <1>6, <1>7, <1>8, <1>9
     DEF ServerNext, ServerStep, UpsertDay, serverVars

-----------------------------------------------------------------------------
(* The cover *)

\* A step that leaves the days and the rows alone, and brings no request to a cover
\* or to a deletion but of a day that is touched.
LEMMA QuietChoices ==
  ASSUME ServerTypeOK, ObjectsInv, CoverInv, [ServerNext]_serverVars, UNCHANGED <<day, rows>>,
         \A s \in Slots : Choice(s)' =>
            \/ reqs'[s] = reqs[s]
            \/ reqs'[s].pc # "cover" /\ home'[reqs'[s].file] \in touched',
         \A s \in Slots : reqs[s].pc = "cover" =>
            reqs'[s] = reqs[s] \/ home[reqs[s].file] \in touched'
  PROVE  CoverInv'
<1>1. NothingForgotten
  BY RequestTypes
<1>2. ASSUME NEW s \in Slots, reqs[s].pc # "idle" PROVE home'[reqs[s].file] = home[reqs[s].file]
  BY <1>1, <1>2, MediaAssumption DEF NothingForgotten, ObjectsInv, RequestInv
<1>3. \A d \in Days : Listed(d)' = Listed(d)
  BY DEF Listed
<1>4. \A s \in Slots : reqs'[s].pc = "cover" => reqs'[s].file \in Pictures
  BY DEF CoverInv, Choice
<1>5. ASSUME NEW d \in Days, day'[d].cover # None
      PROVE  home'[day'[d].cover] \in touched' \cup {d}
  <2>1. day[d].cover \in AllListed
    BY <1>5 DEF ServerTypeOK
  <2>2. home'[day[d].cover] = home[day[d].cover]
    BY <1>1, <2>1, ListedHome, MediaAssumption DEF NothingForgotten
  <2> QED
    BY <1>1, <1>5, <2>2 DEF CoverInv, NothingForgotten
<1>6. ASSUME NEW d \in Days \ touched' PROVE CoverOf(d)'
  <2>1. CoverOf(d)
    BY <1>1 DEF CoverInv, NothingForgotten
  <2> HIDE DEF Listed
  <2>2. ASSUME NEW s \in Slots, Choice(s)', home'[reqs'[s].file] = d
        PROVE  reqs'[s].pc = "cover" /\ reqs'[s].file \in Listed(d)'
    <3>1. reqs'[s] = reqs[s] /\ reqs[s].pc # "idle" /\ Choice(s)
      BY <2>2 DEF Choice
    <3> QED
      BY <1>2, <1>3, <2>1, <2>2, <3>1 DEF CoverOf
  <2>3. Choosing(d) => Choosing(d)'
    <3> SUFFICES ASSUME NEW s \in Slots, reqs[s].pc = "cover", home[reqs[s].file] = d
                 PROVE  Choosing(d)'
      BY DEF Choosing
    <3>1. reqs'[s] = reqs[s] /\ home'[reqs[s].file] = d
      BY <1>2
    <3> QED
      BY <3>1 DEF Choosing
  <2> QED
    BY <1>3, <2>1, <2>2, <2>3 DEF CoverOf
<1> QED
  BY <1>4, <1>5, <1>6 DEF CoverInv

LEMMA CoverKept ==
  ASSUME ServerTypeOK, ObjectsInv, CoverInv, [ServerNext]_serverVars
  PROVE  CoverInv'
<1>t. /\ reqs \in [Slots -> Request] /\ day \in [Days -> DayRow]
      /\ None \notin Media /\ None \notin Days
  BY MediaAssumption DEF ServerTypeOK, DayRow
<1>1. ASSUME NEW s \in Slots, NEW m \in Media, NEW d \in Days, SendFile(s, m, d) PROVE CoverInv'
  <2>1. /\ reqs'[s].pc = "put" /\ reqs[s].pc = "idle" /\ UNCHANGED <<day, rows>>
        /\ \A t \in Slots \ {s} : reqs'[t] = reqs[t]
    BY <1>1, <1>t DEF SendFile, Start
  <2> QED
    BY <2>1, QuietChoices DEF Choice
<1>2. ASSUME NEW s \in Slots, NEW m \in Media, DeleteMedia(s, m) PROVE CoverInv'
  <2>1. /\ reqs'[s] = [pc |-> "clear", file |-> m] /\ reqs[s].pc = "idle"
        /\ UNCHANGED <<day, rows, home>> /\ home[m] \in touched'
        /\ \A t \in Slots \ {s} : reqs'[t] = reqs[t]
    BY <1>2, <1>t DEF DeleteMedia, Start
  <2> QED
    BY <2>1, QuietChoices DEF Choice
<1>3. ASSUME NEW s \in Slots,
             PutObject(s) \/ RefuseMedia(s) \/ DeleteObject(s) \/ BreakOff(s) \/ Answer(s)
      PROVE  CoverInv'
  <2>1. /\ UNCHANGED <<day, rows>> /\ reqs'[s].pc \notin {"cover", "clear", "delete"}
        /\ reqs[s].pc = "cover" => home[reqs[s].file] \in touched'
        /\ \A t \in Slots \ {s} : reqs'[t] = reqs[t]
    BY <1>3, <1>t
       DEF PutObject, RefuseMedia, DeleteObject, BreakOff, Answer, NoRequest, Step, Request
  <2> QED
    BY <2>1, QuietChoices DEF Choice
<1>4. ASSUME NEW s \in Slots, InsertMedia(s) PROVE CoverInv'
  <2>0. PICK m \in Media, d \in Days : m = reqs[s].file /\ d = home[m]
    BY <1>4 DEF InsertMedia, Step, ObjectsInv, RequestInv
  <2>1. /\ reqs[s].pc = "insert" /\ rows' = [rows EXCEPT ![d] = Append(@, m)]
        /\ touched' = touched /\ home' = home /\ \A e \in Days : day'[e].cover = day[e].cover
    BY <1>4, <1>t, <2>0 DEF InsertMedia, Step, DayRow
  <2>2. /\ reqs'[s].pc = (IF day[d].cover = None /\ m \in Pictures THEN "cover" ELSE "added")
        /\ reqs'[s].file = m
        /\ \A t \in Slots \ {s} : reqs'[t] = reqs[t]
    BY <1>4, <1>t, <2>0 DEF InsertMedia, Step, Request
  <2>3. m \notin AllListed
    BY <2>0, <2>1 DEF ObjectsInv, RequestInv, Travelling
  <2>4. Listed(d)' = Listed(d) \cup {m} /\ \A e \in Days \ {d} : Listed(e)' = Listed(e)
    BY <2>1, <2>3, RowAdded
  <2>5. ASSUME NEW e \in Days \ touched PROVE CoverOf(e)'
    <3>1. CoverOf(e)
      BY DEF CoverInv
    <3>2. ASSUME NEW t \in Slots, Choice(t)', home'[reqs'[t].file] = e
          PROVE  reqs'[t].pc = "cover" /\ reqs'[t].file \in Listed(e)'
      <4>1. CASE t = s
        <5> HIDE DEF Listed
        <5> QED
          BY <2>0, <2>1, <2>2, <2>4, <3>2, <4>1 DEF Choice
      <4>2. CASE t # s
        <5>1. reqs[t].pc = "cover" /\ reqs[t].file \in Listed(e) /\ reqs'[t] = reqs[t]
          BY <2>1, <2>2, <3>1, <3>2, <4>2 DEF Choice, CoverOf
        <5> HIDE DEF Listed
        <5> QED
          BY <2>4, <5>1
      <4> QED
        BY <4>1, <4>2
    <3>3. Choosing(e) => Choosing(e)'
      BY <2>1, <2>2 DEF Choosing
    <3>4. e = d /\ m \in Pictures /\ day[d].cover = None => Choosing(e)'
      BY <2>0, <2>1, <2>2 DEF Choosing
    <3> HIDE DEF Listed, Choosing
    <3> QED
      BY <2>1, <2>4, <3>1, <3>2, <3>3, <3>4 DEF CoverOf
  <2>6. \A t \in Slots : reqs'[t].pc = "cover" => reqs'[t].file \in Pictures
    BY <2>2 DEF CoverInv
  <2> QED
    BY <2>1, <2>5, <2>6 DEF CoverInv
<1>5. ASSUME NEW s \in Slots, SetMainMedia(s) PROVE CoverInv'
  <2> DEFINE m == reqs[s].file
             d == home[m]
             accepted == m \in Listed(d) /\ NoOthersCover(d, m)
  <2>1. /\ reqs[s].pc = "cover" /\ UNCHANGED <<rows, home, touched>>
        /\ \A e \in Days : day'[e].cover = IF e = d /\ accepted THEN m ELSE day[e].cover
    BY <1>5, <1>t DEF SetMainMedia, Step, DayRow
  <2>2. /\ reqs'[s].pc \in {"added", "failed"} /\ \A t \in Slots \ {s} : reqs'[t] = reqs[t]
    BY <1>5, <1>t DEF SetMainMedia, Step, Request
  <2>3. m \in Pictures /\ m \in Media /\ d \in Days
    BY <2>1 DEF CoverInv, ObjectsInv, RequestInv
  <2>4. d \notin touched => accepted
    <3>1. d \notin touched => m \in Listed(d)
      BY <2>1, <2>3 DEF CoverInv, CoverOf, Choice
    <3>2. d \notin touched => NoOthersCover(d, m)
      BY <1>t, <2>3 DEF CoverInv, NoOthersCover
    <3> QED
      BY <3>1, <3>2
  <2>5. accepted => m \in Listed(d)
    OBVIOUS
  <2> HIDE DEF m, accepted
  <2>6. \A e \in Days : Listed(e)' = Listed(e)
    BY <2>1 DEF Listed
  <2> HIDE DEF d
  <2>7. ASSUME NEW e \in Days \ touched PROVE CoverOf(e)'
    <3>1. CoverOf(e)
      BY DEF CoverInv
    <3>2. \A t \in Slots : Choice(t)' /\ home'[reqs'[t].file] = e
            => reqs'[t].pc = "cover" /\ reqs'[t].file \in Listed(e)'
      BY <2>1, <2>2, <2>6, <3>1 DEF CoverOf, Choice
    <3>3. CASE e = d
      BY <1>t, <2>1, <2>3, <2>4, <2>5, <2>6, <3>2, <3>3 DEF CoverOf
    <3>4. CASE e # d
      <4>1. Choosing(e) => Choosing(e)'
        BY <2>1, <2>2, <3>4 DEF Choosing, d, m
      <4> HIDE DEF Listed
      <4> QED
        BY <2>1, <2>6, <3>1, <3>2, <3>4, <4>1 DEF CoverOf
    <3> QED
      BY <3>3, <3>4
  <2>8. \A e \in Days : day'[e].cover # None => home'[day'[e].cover] \in touched' \cup {e}
    BY <2>1 DEF CoverInv, d
  <2>9. \A t \in Slots : reqs'[t].pc = "cover" => reqs'[t].file \in Pictures
    BY <2>2 DEF CoverInv
  <2> QED
    BY <2>1, <2>7, <2>8, <2>9 DEF CoverInv
\* A deletion concerns a day that is touched, and one that is not has other files.
<1>6. ASSUME NEW s \in Slots, ClearMainMedia(s) \/ DeleteById(s) PROVE CoverInv'
  <2> DEFINE m == reqs[s].file
             d == home[m]
  <2>1. /\ Choice(s) /\ reqs[s].pc # "cover" /\ UNCHANGED <<home, touched>>
        /\ \A e \in Days :
            /\ day'[e].cover \in {None, day[e].cover}
            /\ e # d /\ day[e].cover # m => day'[e].cover = day[e].cover
    BY <1>6, <1>t DEF ClearMainMedia, DeleteById, CoverCleared, Step, DayRow, Choice
  <2>2. /\ reqs'[s].file = m /\ reqs'[s].pc \in {"delete", "object", "failed"}
        /\ \A t \in Slots \ {s} : reqs'[t] = reqs[t]
    BY <1>6, <1>t DEF ClearMainMedia, DeleteById, Step, Request
  <2>3. m \in Media /\ d \in Days
    BY <2>1 DEF ObjectsInv, RequestInv, Choice
  <2>4. \A e \in Days \ {d} : Listed(e)' = Listed(e)
    <3>1. CASE ClearMainMedia(s)
      BY <3>1 DEF ClearMainMedia, Listed
    <3>2. CASE DeleteById(s)
      BY <2>3, <3>2, RowRemoved DEF DeleteById
    <3> QED
      BY <1>6, <3>1, <3>2
  <2>5. d \in touched
    BY <2>1, <2>3 DEF CoverInv, CoverOf
  <2> HIDE DEF m, d, Listed
  <2>6. ASSUME NEW e \in Days \ touched PROVE CoverOf(e)'
    <3>1. CoverOf(e) /\ e # d
      BY <2>5 DEF CoverInv
    <3>2. day'[e].cover = day[e].cover
      <4>1. m \notin Listed(e)
        BY <3>1 DEF ServerTypeOK, d
      <4> QED
        BY <2>1, <2>3, <3>1, <4>1, <1>t DEF CoverOf
    <3>3. \A t \in Slots : Choice(t)' /\ home'[reqs'[t].file] = e
            => reqs'[t].pc = "cover" /\ reqs'[t].file \in Listed(e)'
      BY <2>1, <2>2, <2>4, <3>1 DEF CoverOf, Choice, d
    <3>4. Choosing(e) => Choosing(e)'
      BY <2>1, <2>2 DEF Choosing
    <3> QED
      BY <2>4, <3>1, <3>2, <3>3, <3>4 DEF CoverOf
  <2>7. \A e \in Days : day'[e].cover # None => home'[day'[e].cover] \in touched' \cup {e}
    BY <2>1 DEF CoverInv
  <2>8. \A t \in Slots : reqs'[t].pc = "cover" => reqs'[t].file \in Pictures
    BY <2>2 DEF CoverInv
  <2> QED
    BY <2>1, <2>6, <2>7, <2>8 DEF CoverInv
<1>7. ASSUME NEW d \in Days, NEW m \in Media \cup {None}, NEW c, UpsertDay(d, m, c)
      PROVE  CoverInv'
  <2>1. /\ UNCHANGED <<rows, home, reqs>> /\ d \in touched' /\ touched \subseteq touched'
        /\ m # None => home[m] \in touched'
        /\ day'[d].cover = m /\ \A e \in Days \ {d} : day'[e] = day[e]
    BY <1>7, <1>t DEF UpsertDay
  <2>2. ASSUME NEW e \in Days \ touched' PROVE CoverOf(e)'
    <3>1. CoverOf(e) /\ e # d
      BY <2>1 DEF CoverInv
    <3>2. (Choosing(e)' <=> Choosing(e)) /\ Listed(e)' = Listed(e)
          /\ \A s \in Slots : Choice(s)' <=> Choice(s)
      BY <2>1 DEF Choosing, Listed, Choice
    <3> HIDE DEF Listed
    <3> QED
      BY <2>1, <3>1, <3>2 DEF CoverOf
  <2>3. \A e \in Days : day'[e].cover # None => home'[day'[e].cover] \in touched' \cup {e}
    BY <2>1 DEF CoverInv
  <2> QED
    BY <2>1, <2>2, <2>3 DEF CoverInv
<1>8. CASE UNCHANGED serverVars
  <2>1. UNCHANGED <<day, rows, reqs>>
    BY <1>8 DEF serverVars
  <2> QED
    BY <2>1, QuietChoices
<1> QED
  BY <1>1, <1>2, <1>3, <1>4, <1>5, <1>6, <1>7, <1>8 DEF ServerNext, ServerStep

-----------------------------------------------------------------------------
(* The theorems *)

IInv == ServerTypeOK /\ ObjectsInv /\ CoverInv

LEMMA InitInv == ServerInit => IInv
<1> SUFFICES ASSUME ServerInit PROVE IInv
  OBVIOUS
<1>1. AllListed = {} /\ \A d \in Days : Listed(d) = {} /\ day[d].cover = None
  BY DEF ServerInit, AllListed, Listed, Range, NoDay
<1>2. ObjectsInv
  BY <1>1 DEF ServerInit, ObjectsInv, RequestInv, RowHasObject, Travelling, NoRequest
<1> HIDE DEF Listed
<1>3. CoverInv
  BY <1>1 DEF ServerInit, CoverInv, CoverOf, Choice, NoRequest
<1> QED
  BY <1>2, <1>3, InitTypes DEF IInv

LEMMA NextInv == IInv /\ [ServerNext]_serverVars => IInv'
BY TypesKept, ObjectsKept, CoverKept DEF IInv

LEMMA AlwaysInv == ServerSpec => []IInv
BY InitInv, NextInv, PTL DEF ServerSpec

\* The days, their rows and their objects stay well-typed: a cover is a row of the
\* user's media, of this day or another, and the cover of one day only; no row is
\* there twice, each is of the day it was sent for, and only a day that exists has any.
THEOREM TypeCorrect == ServerSpec => []ServerTypeOK
BY AlwaysInv, PTL DEF IInv

\* A row of day_media never outlives its object in S3, whichever steps of additions
\* and deletions interleave, fail or are cut short (addMedia, deleteMedia).
THEOREM RowsKeepObjects == ServerSpec => []RowHasObject
BY AlwaysInv, PTL DEF IInv, ObjectsInv

\* A day that only additions have changed has one of its pictures for its cover as
\* soon as it has one and no request is about to choose, whatever requests do to the
\* other days and their covers (the choice at the end of addMedia).
THEOREM PicturesGetCover == ServerSpec => []PicturesHaveCover
<1>1. IInv => PicturesHaveCover
  BY DEF IInv, CoverInv, CoverOf, PicturesHaveCover
<1> QED
  BY <1>1, AlwaysInv, PTL

-----------------------------------------------------------------------------
(* The page: what its effects do to the form *)

Form == [cover : Media \cup {None}, comment : Comments \cup {None},
         coverSet : BOOLEAN, filled : BOOLEAN]
Records == Comments \cup {None, NoRow, NotLoaded}

\* Min finds the least of some of the first numbers.
LEMMA LeastOf ==
  ASSUME NEW n \in Nat, NEW I \in SUBSET (1 .. n), I # {}
  PROVE  Min(I) \in I
<1> DEFINE Below(i) == {j \in I : j < i}
           R == StrictSubsetOrdering(I)
           T == {Below(i) : i \in I}
<1>1. IsFiniteSet(I)
  <2>1. IsFiniteSet(1 .. n)
    BY 1 \in Int /\ n \in Int, FS_Interval
  <2> QED
    BY <2>1, FS_Subset
<1>2. IsWellFoundedOn(R, SUBSET I)
  BY <1>1, FS_StrictSubsetOrderingWellFounded, FS_FiniteSubsetsOfFinite
<1>3. T \subseteq SUBSET I /\ T # {}
  OBVIOUS
<1>4. PICK x \in T : \A y \in T : ~(<<y, x>> \in R)
  <2> HIDE DEF R, T
  <2> QED
    BY <1>2, <1>3, WFMin
<1>5. PICK i \in I : x = Below(i)
  OBVIOUS
<1>6. ASSUME NEW j \in I, j < i PROVE FALSE
  <2>1. Below(j) \subseteq Below(i) /\ j \in Below(i) /\ j \notin Below(j)
    <3>1. i \in Nat /\ j \in Nat /\ \A k \in I : k \in Nat
      OBVIOUS
    <3>2. \A k \in I : k < j => k < i
      BY <1>6, <3>1
    <3>3. ~(j < j)
      BY <3>1
    <3> QED
      BY <1>6, <3>2, <3>3
  <2>2. <<Below(j), Below(i)>> \in R
    BY <2>1 DEF StrictSubsetOrdering
  <2> QED
    BY <1>4, <1>5, <2>2
<1>7. \A j \in I : i =< j
  BY <1>6
<1> QED
  BY <1>7 DEF Min

LEMMA CoverShown ==
  ASSUME NEW list \in Seq(Media), NEW cover \in Media \cup {None}
  PROVE  ShownCover(list, cover) \in Media \cup {None}
<1> DEFINE I == {i \in 1 .. Len(list) : list[i] \in Pictures}
           first == SelectInSeq(list, LAMBDA m : m \in Pictures)
<1>1. first = IF I # {} THEN Min(I) ELSE 0
  BY DEF SelectInSeq
<1>2. I # {} => Min(I) \in I
  <2>1. I \in SUBSET (1 .. Len(list)) /\ Len(list) \in Nat
    OBVIOUS
  <2> HIDE DEF I
  <2> QED
    BY <2>1, LeastOf
<1>3. first # 0 => list[first] \in Media
  BY <1>1, <1>2
<1>4. list # <<>> => Head(list) \in Media
  OBVIOUS
<1> QED
  BY <1>3, <1>4 DEF ShownCover

LEMMA CoverTaken ==
  ASSUME NEW f \in Form, NEW list \in Seq(Media) \cup {NotLoaded}
  PROVE  /\ TakeCover(f, list) \in Form
         /\ TakeCover(f, list).comment = f.comment
         /\ TakeCover(f, list).filled = f.filled
<1>1. CASE f.coverSet \/ list = NotLoaded
  BY <1>1 DEF TakeCover
<1>2. CASE ~(f.coverSet \/ list = NotLoaded)
  <2> DEFINE cover == ShownCover(list, f.cover)
  <2>1. TakeCover(f, list) = [f EXCEPT !.cover = cover, !.coverSet = TRUE]
    BY <1>2 DEF TakeCover
  <2>2. cover \in Media \cup {None}
    BY <1>2, CoverShown DEF Form
  <2> HIDE DEF cover
  <2> QED
    BY <2>1, <2>2 DEF Form
<1> QED
  BY <1>1, <1>2

LEMMA FormReset ==
  ASSUME NEW f \in Form, NEW r \in Records
  PROVE  /\ Reset(f, r) \in Form
         /\ Reset(f, r).filled <=> f.filled \/ HasRow(r)
         /\ f.filled => Reset(f, r) = f
<1>b. Blank \in Form /\ ~Blank.filled
  BY DEF Blank, Form
<1>1. CASE f.filled
  BY <1>1 DEF Reset
<1>2. CASE ~f.filled /\ HasRow(r)
  <2>1. Reset(f, r) = [Blank EXCEPT !.comment = r, !.filled = TRUE]
    BY <1>2 DEF Reset
  <2>2. r \in Comments \cup {None}
    BY <1>2 DEF HasRow, Records
  <2> QED
    BY <1>2, <1>b, <2>1, <2>2 DEF Form
<1>3. CASE ~f.filled /\ ~HasRow(r)
  BY <1>3, <1>b DEF Reset
<1> QED
  BY <1>1, <1>2, <1>3

\* The form is filled by a render in which there is a new row, and once it is filled
\* no render changes what was written in it.
LEMMA FormRendered ==
  ASSUME NEW f \in Form, NEW list \in Seq(Media) \cup {NotLoaded}, NEW r \in Records,
         NEW newList \in BOOLEAN, NEW newRow \in BOOLEAN
  PROVE  LET new == AfterRender(f, list, newList, r, newRow) IN
         /\ new \in Form
         /\ new.filled <=> f.filled \/ (newRow /\ HasRow(r))
         /\ f.filled => new.comment = f.comment
<1> DEFINE first == IF newList THEN TakeCover(f, list) ELSE f
           both == IF newRow THEN Reset(first, r) ELSE first
<1>1. first \in Form /\ first.comment = f.comment /\ first.filled = f.filled
  BY CoverTaken
<1> HIDE DEF first
<1>2. /\ both \in Form /\ (both.filled <=> f.filled \/ (newRow /\ HasRow(r)))
      /\ f.filled => both.comment = f.comment
  <2>1. CASE newRow
    BY <1>1, <2>1, FormReset
  <2>2. CASE ~newRow
    BY <1>1, <2>2
  <2> QED
    BY <2>1, <2>2
<1> HIDE DEF both
<1>3. AfterRender(f, list, newList, r, newRow) \in {both, TakeCover(both, list)}
  BY DEF AfterRender, first, both
<1> QED
  BY <1>2, <1>3, CoverTaken

-----------------------------------------------------------------------------
(* The page: what it does to the server *)

\* A day is never deleted.
LEMMA DayStays ==
  ASSUME ServerTypeOK, [ServerNext]_serverVars, NEW d \in Days, day[d].exists
  PROVE  day'[d].exists
<1>d. day \in [Days -> DayRow]
  BY DEF ServerTypeOK, DayRow
<1>1. ASSUME NEW s \in Slots, ServerStep(s) PROVE day'[d].exists
  <2>1. CASE InsertMedia(s)
    BY <1>d, <2>1 DEF InsertMedia, DayRow
  <2>2. CASE SetMainMedia(s) \/ ClearMainMedia(s)
    BY <1>d, <2>2 DEF SetMainMedia, ClearMainMedia, DayRow
  <2>3. CASE DeleteById(s)
    BY <1>d, <2>3 DEF DeleteById, CoverCleared, DayRow
  <2>4. CASE day' = day
    BY <2>4
  <2> QED
    BY <1>1, <2>1, <2>2, <2>3, <2>4 DEF ServerStep, PutObject, RefuseMedia, DeleteObject, BreakOff
<1> QED
  BY <1>d, <1>1 DEF ServerNext, SendFile, DeleteMedia, Answer, UpsertDay, serverVars

LEMMA PageToServer ==
  ASSUME TypeOK, [Next]_vars
  PROVE  [ServerNext]_serverVars
<1>s. Today \in Days /\ Uploads \subseteq Slots
  BY PageAssumption
<1>1. CASE UNCHANGED serverVars
  BY <1>1
<1>2. ASSUME NEW s \in Slots, NEW m \in Media, AddMedia(s, m) \/ RemoveMedia(s, m) PROVE ServerNext
  BY <1>2, <1>s DEF AddMedia, RemoveMedia, ServerNext
<1>3. ASSUME NEW s \in Slots, UploadEnds(s) \/ RemoveEnds(s) PROVE ServerNext
  BY <1>3 DEF UploadEnds, RemoveEnds, ServerNext
<1>4. CASE Saved
  <2>1. save.cover \in Media \cup {None} /\ save.comment \in Comments \cup {None}
        /\ day[Today].comment \in Comments \cup {None}
    BY <1>s DEF TypeOK, ServerTypeOK
  <2> QED
    BY <1>4, <1>s, <2>1 DEF Saved, ServerNext
<1>5. CASE OtherDevice
  BY <1>5, <1>s DEF OtherDevice, ServerNext
<1>6. CASE ServerSteps
  BY <1>6 DEF ServerSteps, ServerNext
<1>7. CASE Arrives \/ Reopen \/ NotSaved
  BY <1>7, <1>1 DEF Arrives, Load, Reopen, NotSaved
<1>8. ASSUME NEW c, TypeComment(c) \/ Save(c) PROVE UNCHANGED serverVars
  BY <1>8 DEF TypeComment, Save
<1>9. ASSUME NEW m, SetCover(m) \/ RemoveItem(m) PROVE UNCHANGED serverVars
  BY <1>9 DEF SetCover, RemoveItem
<1> QED
  BY <1>s, <1>1, <1>2, <1>3, <1>4, <1>5, <1>6, <1>7, <1>8, <1>9 DEF Next, PageStep, vars

-----------------------------------------------------------------------------
(* The page: its own state *)

PageTypeOK ==
    /\ form \in Form
    /\ items \in [Media -> {"none", "uploading", "failed"}]
    /\ attached \subseteq Uploads
    /\ media \in Seq(Media) \cup {NotLoaded}
    /\ record \in Records
    /\ form.filled <=> HasRow(record)
    /\ save \in [on : BOOLEAN, cover : Media \cup {None}, withComment : BOOLEAN,
                 comment : Comments \cup {None}]

\* The row the page shows is a row the server has.
RowExists == HasRow(record) => day[Today].exists

PageInv == IInv /\ PageTypeOK /\ RowExists

LEMMA PageTypes == TypeOK <=> ServerTypeOK /\ PageTypeOK
BY DEF TypeOK, PageTypeOK, Form, Records

LEMMA ServerRecordType ==
  ASSUME ServerTypeOK
  PROVE  ServerRecord \in Records /\ (HasRow(ServerRecord) <=> day[Today].exists)
BY PageAssumption DEF ServerRecord, ServerTypeOK, Records, HasRow

LEMMA LoadKeeps ==
  ASSUME PageInv, Arrives
  PROVE  /\ PageTypeOK'
         /\ HasRow(record') => day[Today].exists
         /\ form.filled => form'.comment = form.comment /\ items' = items
<1> PageTypeOK /\ ServerTypeOK /\ RowExists
  BY DEF PageInv, IInv
<1>1. PICK list \in Seq(Media) \cup {NotLoaded}, r \in Records :
        /\ Load(list, r)
        /\ HasRow(record) => HasRow(r)
        /\ HasRow(r) => day[Today].exists
  BY ServerRecordType, PageAssumption DEF Arrives, PageTypeOK, ServerTypeOK, RowExists
<1> DEFINE newList == list # media
           newRow == HasRow(r) /\ r # record
           new == AfterRender(form, list, newList, r, newRow)
<1>2. /\ media' = list /\ record' = r /\ form' = new
      /\ items' = IF new.filled /\ ~form.filled THEN NoItems ELSE items
      /\ UNCHANGED <<attached, save>>
  BY <1>1 DEF Load
<1>3. newList \in BOOLEAN /\ newRow \in BOOLEAN /\ form \in Form
  BY DEF PageTypeOK, HasRow
<1> HIDE DEF newList, newRow
<1>4. /\ new \in Form
      /\ new.filled <=> form.filled \/ (newRow /\ HasRow(r))
      /\ form.filled => new.comment = form.comment
  BY <1>3, FormRendered
<1>5. new.filled <=> HasRow(r)
  BY <1>1, <1>4 DEF newRow, PageTypeOK
<1> HIDE DEF new
<1>6. items' \in [Media -> {"none", "uploading", "failed"}]
  BY <1>2 DEF PageTypeOK, NoItems
<1> QED
  BY <1>1, <1>2, <1>4, <1>5, <1>6 DEF PageTypeOK

LEMMA ReopenKeeps ==
  ASSUME PageTypeOK, Reopen
  PROVE  PageTypeOK'
<1>1. Blank \in Form /\ ~Blank.filled
  BY DEF Blank, Form
<1> DEFINE new == AfterRender(Blank, media, TRUE, record, TRUE)
<1>2. new \in Form /\ (new.filled <=> HasRow(record))
  BY <1>1, FormRendered DEF PageTypeOK
<1> HIDE DEF new
<1>3. /\ form' = new /\ items' = NoItems /\ attached' = {} /\ save' = NoSave
      /\ UNCHANGED <<media, record>>
  BY DEF Reopen, new
<1>4. /\ NoItems \in [Media -> {"none", "uploading", "failed"}]
      /\ NoSave \in [on : BOOLEAN, cover : Media \cup {None}, withComment : BOOLEAN,
                     comment : Comments \cup {None}]
  BY DEF NoItems, NoSave
<1> QED
  BY <1>2, <1>3, <1>4 DEF PageTypeOK

LEMMA PageTypesKept ==
  ASSUME PageInv, [Next]_vars
  PROVE  PageTypeOK'
<1> PageTypeOK /\ ServerTypeOK
  BY DEF PageInv, IInv
<1>1. CASE Arrives
  BY <1>1, LoadKeeps
<1>2. CASE Reopen
  BY <1>2, ReopenKeeps
<1>3. ASSUME NEW c \in Comments \cup {None}, TypeComment(c) PROVE PageTypeOK'
  BY <1>3 DEF TypeComment, PageTypeOK, Form
<1>4. ASSUME NEW m \in Media, SetCover(m) PROVE PageTypeOK'
  BY <1>4 DEF SetCover, PageTypeOK, Form
<1>5. ASSUME NEW s \in Uploads, NEW m \in Media, AddMedia(s, m) PROVE PageTypeOK'
  BY <1>5 DEF AddMedia, PageTypeOK
<1>6. ASSUME NEW m \in Media, RemoveItem(m) PROVE PageTypeOK'
  BY <1>6 DEF RemoveItem, PageTypeOK
<1>7. ASSUME NEW withComment \in BOOLEAN, Save(withComment) PROVE PageTypeOK'
  BY <1>7 DEF Save, PageTypeOK, Form
<1>8. CASE Saved \/ NotSaved
  <2>1. save' = NoSave /\ UNCHANGED <<form, items, attached, media, record>>
    BY <1>8 DEF Saved, NotSaved
  <2> QED
    BY <2>1 DEF PageTypeOK, NoSave
<1>9. ASSUME NEW s \in Uploads, UploadEnds(s) PROVE PageTypeOK'
  <2> DEFINE m == reqs[s].file
  <2>1. UNCHANGED <<media, record, save>> /\ attached' \subseteq attached
    BY <1>9 DEF UploadEnds
  <2>2. items' = items \/ \E e \in {"none", "failed"} : items' = [items EXCEPT ![m] = e]
    BY <1>9 DEF UploadEnds
  <2>3. form' = form \/ (m \in Pictures /\ form' = [form EXCEPT !.cover = m])
    BY <1>9 DEF UploadEnds, FormWithPicture
  <2>4. form' \in Form /\ form'.filled = form.filled
    BY <2>3, MediaAssumption DEF PageTypeOK, Form
  <2>5. items' \in [Media -> {"none", "uploading", "failed"}]
    BY <2>2 DEF PageTypeOK
  <2> QED
    BY <2>1, <2>4, <2>5 DEF PageTypeOK
<1>10. CASE UNCHANGED pageVars
  BY <1>10 DEF pageVars, PageTypeOK
<1> QED
  BY <1>1, <1>2, <1>3, <1>4, <1>5, <1>6, <1>7, <1>8, <1>9, <1>10
     DEF Next, PageStep, RemoveMedia, RemoveEnds, ServerSteps, OtherDevice, vars

LEMMA RowStays ==
  ASSUME PageInv, [Next]_vars
  PROVE  RowExists'
<1>1. CASE Arrives
  <2>1. day' = day
    BY <1>1 DEF Arrives, Load, serverVars
  <2> QED
    BY <1>1, <2>1, LoadKeeps DEF RowExists
<1>2. CASE record' = record
  <2>1. day[Today].exists => day'[Today].exists
    BY PageToServer, DayStays, PageTypes, PageAssumption DEF PageInv, IInv
  <2> QED
    BY <1>2, <2>1 DEF PageInv, RowExists, HasRow
<1> QED
  BY <1>1, <1>2
     DEF Next, PageStep, Reopen, TypeComment, SetCover, AddMedia, RemoveMedia, RemoveItem, Save,
         Saved, NotSaved, UploadEnds, RemoveEnds, ServerSteps, OtherDevice, pageVars, vars

LEMMA PageInitInv == Init => PageInv
<1> SUFFICES ASSUME Init PROVE PageInv
  OBVIOUS
<1>1. IInv
  BY InitInv DEF Init
<1>2. ~HasRow(record)
  BY DEF Init, HasRow
<1>3. PageTypeOK
  BY <1>2 DEF Init, PageTypeOK, Form, Records, Blank, NoItems, NoSave
<1> QED
  BY <1>1, <1>2, <1>3 DEF PageInv, RowExists

LEMMA PageNextInv == PageInv /\ [Next]_vars => PageInv'
<1> SUFFICES ASSUME PageInv, [Next]_vars PROVE PageInv'
  OBVIOUS
<1>1. [ServerNext]_serverVars
  BY PageToServer, PageTypes DEF PageInv, IInv
<1>2. IInv'
  BY <1>1, NextInv DEF PageInv
<1> QED
  BY <1>2, PageTypesKept, RowStays DEF PageInv

LEMMA PageAlwaysInv == Spec => []PageInv
BY PageInitInv, PageNextInv, PTL DEF Spec

\* The page and the server it talks to stay well-typed, and the form counts as filled
\* exactly when the day's row has arrived, in whatever order the queries answer and
\* the two effects run (initializedDateRef).
THEOREM PageTypeCorrect == Spec => []TypeOK
BY PageAlwaysInv, PageTypes, PTL DEF PageInv, IInv

\* The page and another device with it do to the server what DayMedia lets requests
\* do: all that is proved of the server holds behind the page (handleSave,
\* handleAddMedia, handleRemoveMedia).
THEOREM PageImplements == Spec => ServerSpec
<1>1. Init => ServerInit
  BY DEF Init
<1>2. PageInv /\ [Next]_vars => [ServerNext]_serverVars
  BY PageToServer, PageTypes DEF PageInv, IInv
<1> QED
  BY <1>1, <1>2, PageAlwaysInv, PTL DEF Spec, ServerSpec

\* What the user has written in a filled form, and the uploads shown in it, survive
\* every answer of a query (the two effects of DayPage).
THEOREM PageKeepsWriting == Spec => WrittenStays
<1>1. ASSUME PageInv, [Next]_vars
      PROVE  [form.filled /\ form'.filled /\ (media' # media \/ record' # record)
                => form'.comment = form.comment /\ items' = items]_vars
  <2>1. CASE Arrives
    BY <1>1, <2>1, LoadKeeps
  <2>2. CASE media' = media /\ record' = record
    BY <2>2
  <2> QED
    BY <1>1, <2>1, <2>2
       DEF Next, PageStep, Reopen, TypeComment, SetCover, AddMedia, RemoveMedia, RemoveItem, Save,
           Saved, NotSaved, UploadEnds, RemoveEnds, ServerSteps, OtherDevice, pageVars, vars
<1> QED
  BY <1>1, PageAlwaysInv, PTL DEF Spec, WrittenStays

=============================================================================
