# TimeFlux: specifications, model checking and proofs

TimeFlux is a personal timeline: a NestJS backend over PostgreSQL
(`src/be/src`), a Next.js web client and an Expo mobile client that share the
packages under `src/fe/packages`. These modules specify the parts of it whose
correctness depends on the order in which things happen, or on what happens to
a date between the form it is typed into and the page that shows it. TLC checks
them on small instances; TLAPS proves the most important properties for every
value of the constants.

Paths without a directory below are files of `src/be/src`.

## 1. The system

| component | state | operations | what makes it hard |
|---|---|---|---|
| periods of a chapter (`event-groups`) | `event_groups`, `event_periods` | create, update, close, delete a period; delete the chapter | reads and checks before a SERIALIZABLE transaction, partial updates |
| chapters, categories, day states | their rows, the foreign keys between them | create, file, delete | counting before creating or deleting; quotas of a tier |
| tier cache (`subscriptions.service`) | an in-memory map | `getTier`, `invalidateTierCache`, `assertResourceLimit` | a read stored in the cache after an invalidation |
| Paddle webhooks (`subscriptions/webhook.*`) | `webhook_events`, `subscriptions` | one handler per event type | repeated, concurrent and reordered deliveries; failures between the steps |
| plan changes (`subscriptions.service`) | `subscriptions`, the state at Paddle | cancel, reactivate, change plan | two systems written one after the other while webhooks arrive |
| refresh tokens (`auth.service`) | `refresh_tokens` | login, refresh with rotation, logout, clean up | find, delete and create without a transaction |
| Google sign-in (`auth.service`) | an in-memory map of one-time codes | callback, exchange, clean up | eviction, expiry, restart, a code used twice |
| sessions of the client (`packages/api`, token stores) | tokens in memory, in React refs, in browser storage | request, retry after a 401, sign out | several requests and tabs using one single-use token |
| media and days (`media`, `days`, `s3`) | `days`, `day_media`, objects in S3 | send, add, delete, choose a cover, save a day | rows and objects changed in several steps, any of which may be the last |
| page of a day (web) | a form, the items being uploaded, two queries | type, save, upload, remove, reload | effects that fill the form whenever a query answers |
| timeline, analytics | none | queries by instants, week grid, rows and bars | time zones, both ends of a range |
| memories, weekday insights, profiles, support, health, rendering | none, or a single row | reads and pure functions | see section 6 |

Requests reach the backend over HTTP and run concurrently in one Node process;
they meet in PostgreSQL and, for the tier cache and the sign-in codes, in
memory. Files go from a device to S3 directly, with a presigned URL, and their
rows are added afterwards. Paddle calls the backend through webhooks and is
called by it. The client retries a request once after a 401, with a refreshed
token. The page of a day reads two queries and writes through the same API as
any other device of the user.

What makes each of them correct is stated in section 3, at the run that checks
it; `PROJECT.json` lists the hazards the properties are for, at their lines.

## 2. The modules

| module | what it specifies | uses |
|---|---|---|
| `EventPeriods` | the periods of one chapter under concurrent requests | |
| `ChapterCalendar` | what those periods promise: the abstract calendar | |
| `Subscriptions` | one user's subscription: webhook handler, user requests, Paddle | |
| `RefreshTokens` | the refresh tokens of one user: `AuthService` over `refresh_tokens` | |
| `SignIn` | the one-time codes of a Google sign-in | extends `RefreshTokens` and implements it |
| `Sessions` | browser tabs, their stores and the 401 interceptor | composed with `RefreshTokens` |
| `TierCache` | a user's tier and the cache every quota check reads it through | |
| `Resources` | categories, day states, chapters and days: quotas and deletions | extends `TierCache` |
| `DayMedia` | the days of a user at the server: their rows, their media, their covers, the objects | |
| `DayPage` | the web page of one of those days, and another device | extends `DayMedia` |
| `Timeline` | periods as they are entered, stored, found, sent and laid out | |
| `…Proofs` | theorems about the module of that name | |
| `MC…` | the sets and the symmetry TLC runs with | |

A definition whose comment begins with "Fault" is what a plausible bug would make of
the definition after it; put in its place, it breaks a property that the code keeps.
No specification uses one.

### EventPeriods

`live`, `start` and `end` are the `event_periods` rows of one chapter, `chapter`
says whether the `event_groups` row exists, and `reqs` holds what each request
in flight has read and decided. A handler is two actions. `Begin…` is
everything before the transaction: it looks up the row, applies
`assertNotTooFarInFuture`, merges the dates of the request with those of the
row, and compares them. `Commit…` is the SERIALIZABLE transaction with its
checks (`NoOtherActive`, `FitsClosed`) and its write, which touches only the
columns the request names; PostgreSQL makes it atomic or aborts it (`Abort`).
`DatabaseAccepts` is what the schema itself enforces: the partial unique index
(`OneActiveIndex`) and the CHECK on the dates (`DateOrderCheck`), each of a migration of
its own. `deleteGroup` is not a transaction: its count is
`BeginDeleteChapter`, its cascading delete `CommitDeleteChapter`.

Dates are local days `0 .. LastDay`, and `Tomorrow` is the last day
`assertNotTooFarInFuture` accepts. The user's timezone stays the same; titles,
comments and the response are left out. A period's identity is not used again.

### Subscriptions

`row` is the user's row in `subscriptions`, `stored` the table `webhook_events`,
`paddle` the truth at Paddle and `sent` the events it has emitted. A delivery is
four actions, `Receive` (insert the id, or find it), `Process` or `ProcessThrows`,
`Mark` (the `finally` clause) and `Respond`; `Drop` ends one between any two of
them. The user's requests are split at every call to Paddle and every write.
`registered` users always have a row, because `register` creates it in the same
transaction as the user and `getSubscription` upserts it before a checkout.
`subscription.imported` is handled as `created`. Events without a user id or
with an unknown price are left out (the checkout always sends both), as is
`currentPeriodEnd`. Paddle is external: `Checkout`, `Billing` and `PortalChange`
are what the code relies on, and an unanswered event is delivered again. `applied` and
`late` are histories, which no step reads: the events that reached the row, and the
subscriptions an upgrade of which `changePlan` wrote although the row had them canceled
by then, or was linked to another.

### RefreshTokens and SignIn

`rows` is the table `refresh_tokens`. Tokens are numbered as they are issued
and `session` says which login each goes back to. `refresh` is three statements
without a transaction: `FindToken`, `DeleteToken`, `CreateToken`; any of its
calls may `Break` off, after which the caller sees a failure. Callers may
`Present` any token that was ever issued. Deleting a row by id fails when it has
gone (Prisma's P2025); the rotation depends on that. `Logout` is
`deleteMany` by hash, `CleanUp` the deletion `createRefreshToken` does not wait for.

`SignIn` adds what lies between Google and the browser's first tokens. A
callback creates a session (`GoogleLogin`) and stores a code for it (`StoreCode`);
the two are apart because the first is awaited and callbacks overlap. The browser
exchanges the code (`Exchange`), perhaps late or again. `Kept` is the eviction of
the oldest fifth, `Tick` the minute a code lives, `CleanUpCodes` the interval,
`Restart` the loss of the map. Only clients that have got a token present it
(`held`). Deleting and inserting a code happen in one synchronous stretch of Node,
so they are one action.

### Sessions

A tab has its pair of tokens in `storage` (localStorage, common to the tabs),
`memory` (the zustand store) and `ref` (the React refs the API client reads,
copied by `Effect`). A request is `sent`, may meet the expiry of its access token
(`AccessExpires`, 15 minutes), and then `waiting` for `refreshPromise`. The tab
that asks for a refresh is a caller of `RefreshTokens` (`Server!Present` and
`Server!Return`). `SignOut` is `onUnauthorized` with the page load it starts.
`Refreshed` is one action because the continuations of one promise run in
consecutive microtasks. The logout button calls the store only, so there is no
call to the server's `logout`. All tabs belong to one user and log in anew.

### TierCache and Resources

A tier is asked for in one step when the cache has it (`Hit`) and in two when it
has not: `Miss` reads the row, `Fill` stores what was read, and the row may change
and the entry be dropped between them. `ChangeTier` and `InvalidateTierCache` are
the write of a webhook or plan change and the call that follows it. `Resources`
runs requests over it: `CountRows` or `CountChapters` counts, `AssertResourceLimit`
asks and compares, `InsertRow` or `InsertChapter` writes. `missed` is how the model
has PostgreSQL's SERIALIZABLE isolation: a transaction whose count does not include a
row committed meanwhile cannot insert. Chapters are counted in no transaction, so
nothing of the kind stops `InsertChapter`. A deletion counts uses (`CountUses`)
and deletes in the same transaction (`DeleteRow`). `ref` has, for every chapter,
its category and, for every day, its state; `UpdateGroup`, `DeleteGroup` and
`UpsertDay` are the single statements that change it.

### DayMedia and DayPage

A file is sent off for a day (`SendFile`; `home` says which), becomes an object
(`PutObject`) and then a row (`InsertMedia`), after which the first picture is made the
cover (`SetMainMedia`) by a statement outside the transaction, on the strength of the
day's row as it was. `deleteMedia` is `DeleteMedia`, `ClearMainMedia`, `DeleteById`,
`DeleteObject`; the row goes before the object. `BreakOff` ends a request between any two
steps. `UpsertDay` writes the cover it is given, and accepts any media of the user: the
service looks the id up among all of them and never asks for the day. What the schema
adds is external: the unique index of `main_media_id` (`NoOthersCover`) refuses a cover
another day has, and its foreign key takes a deleted row from whichever day has it for a
cover (`CoverCleared`).

`DayPage` is the form over it. `Load` is the answer of a query, or of both in one
render, and runs the two effects in the order React does (`AfterRender`): the first
takes a cover from the list of media (`TakeCover`), the second fills the form from
the day's row, or clears it (`Reset`), and what the second takes back of the first
makes the first run again. `UploadEnds` and `RemoveEnds` are what the handlers do when
their awaited calls return, after which the queries may answer anew. `attached` says
which uploads belong to the page that is open: a page that was left and opened again
knows nothing of those that go on. Files may be picked while others are being uploaded
(`Uploads` may have several requests). `SetCover` offers videos as well as pictures. A
page is open for one day, `Today`; `OtherDevice` changes that day and others through the
server.

### Timeline

A period is entered as dates and kept as instants of the user's zone, in quarters of
a day (`Stored`); `first` and `last` remember what was entered, and the code never sees
them. `FindPeriods` selects by instants, `GetTimeline` and `GetWeekTimeline` send
dates, `BuildWeekGrid`, `MonthWeeks` and `Bar` lay them out, `DetailDays`
(`getGroupDetails`) and `CategoryDays` (`getMoodOverview`) select the days whose moods are
counted, `PeriodCovers` decides whether media may be filed under a period. The state
is the zone, the beginning of the user's time and the periods; the rest are
functions of them.

## 3. What TLC checks

| run | instance | what it shows |
|---|---|---|
| `periods_concurrent` | 2 periods, 2 requests, 3 days | one active period at most and ordered dates under every interleaving; closed periods overlap only after a stale merge |
| `periods_sequential` | 3 periods, 1 request, 4 days | without interleaving, no overlap at all, and the abstract calendar is implemented |
| `webhooks_in_order` | 2 subscriptions, 4 events, 1 dropped delivery or request, plan changes | every event is answered and applied, and the settled row is Paddle's |
| `plans_any_order` | 2 subscriptions, 4 events, 1 error, 1 dropped delivery or request | a paid tier in the row is one Paddle has reported |
| `webhooks_lost_event` | 2 events, 1 error | violation: an event marked as processed although it failed is lost |
| `sessions_one_tab` | 1 tab, 2 requests, 2 calls, 4 tokens | every request ends; only an expired refresh token signs the user out |
| `sessions_two_tabs` | 2 tabs, 1 request each, 3 tokens, 1 failure | localStorage is never behind a tab of the same session |
| `sign_in` | 2 calls, 3 tokens, 1 failure, a map of 2 codes that live one tick | rotations stay apart; the map keeps its bound and its recent codes; what a code stands for is unused |
| `resources` | 2 requests, 2 categories, 3 chapters, 1 day state, 1 day, an entry of 1 tick, limits 1 / 2 / none | quotas hold, chapters pass theirs by less than the requests under way, no deletion takes a use along |
| `day_media` | 2 days, 2 pictures, 1 video, 3 requests, 1 failure | a row never outlives its object, a cover never its row; a day with a picture has a cover |
| `day_page` | 1 day, 1 picture, 1 video, an upload and a removal, 1 comment | what is written stays; every upload ends |
| `timeline` | 1 period, 16 dates, 5 zones from UTC−12 to UTC+12 | every view shows the dates that were entered, and counts their moods |

All runs but `webhooks_lost_event` pass. It violates `AnsweredMeansApplied`, which
`webhooks_in_order` checks without database errors: `markProcessed` runs in a
`finally` clause (`subscriptions/webhook.service.ts:60`), so an event whose processing
failed is marked as processed, and the retry that Paddle makes is answered without
effect.

**Bounds.** Two requests are enough for every conflict between period handlers,
because each has one transaction and two conflict only through what one reads
before it; three days are enough for touching, nested and crossing periods. Two
refresh calls with three or four tokens allow two sessions, or a session refreshed
twice or three times with two calls in each other's way. A second request in a tab
is what the shared promise is for, a second tab what the shared storage is. A map of
two codes is full while a third callback is under way, and evicts one of them. Two
overlapping creates meet at limits 1 and 2, and chapters, of which there are three,
do pass theirs. Two pictures and a video allow a second picture while the first is
being made the cover, and a day whose first media is no picture; the third request
deletes. With two days each can take the other's picture for its cover, and delete it.
Four events are the shortest way to a plan change that takes a cancellation back first
(checkout, cancellation, clearing, change), and let a subscription end and another begin.
One period is enough for the timeline because its views treat periods one
by one, and sixteen days have three Mondays, so a period can begin and end inside,
outside or at the edge of a week. Zones are whole
quarters of a day: only whether their midnight falls on the same date of UTC matters.

`TokensLeft` in `Sessions` bounds the tokens ahead of time: it stops logins and
new requests, never a refresh under way, so the bound does not end a behaviour in
the middle of what the liveness property follows. `MaxBreaks` and `MaxDrops` bound
failures, `MaxChanges` the changes of a tier, `MaxEvents` what Paddle reports.

**Fairness** is assumed in three runs. In `webhooks_in_order` Paddle repeats an
unanswered delivery, and Node goes on with a handler whose awaited calls return.
In `sessions_one_tab` requests get an answer (axios ends them one way or
another), promises that are settled run their continuations, and the server gets
on with its calls. In `day_page` one weak fairness condition covers the upload: its
calls return, successfully or not, and the handler goes on. Nothing is assumed of
Paddle's billing, of the user, of React's effects, of queries or of anything that
fails or expires.

**Restrictions of single runs.** `sessions_one_tab` sets `PromptEffects` (React runs
the effects of a commit before the next answer arrives), excludes reloads in the
middle of a refresh (`Abandon`) and failures (`MaxDrops = 0`): without each of them
the user may be signed out, which is what the code does and nothing in the
repository denies. So may a second tab that presents a token the first has spent.
`sessions_two_tabs` makes none of these assumptions. `AnalyticsAgree` speaks of UTC
and the zones east of it, `OfferedIsAccepted` of UTC and the zones west of it: in the
others the code does differ, as section 4 says. `day_page` has no failures of its
own beyond refusals, because `day_media` has them, and one upload at a time on one day:
the items of a second upload are apart from those of the first, and `PageKeepsWriting` and
`PageTypeCorrect` are proved for any number of uploads and days. `UploadsEnd` is checked for
one. `SettledRowMatches` excepts rows to which an upgrade was written late (`late`).
`plans_any_order` leaves the portal out: what a user does there they can ask of the
backend as well. It has one delivery at a time, in any order; the theorem has any number.

## 4. Differences between code and documents that no run shows

Found while modelling; a run for each would repeat the model of a passing run.

- Two updates of a period, one of each date, can store a pair nobody validated, and
  two closed periods come to overlap (`event-groups/event-groups.service.ts:294`, `:315`;
  the comment at `:400` says "Check overlap + update atomically to prevent race
  conditions", `PROJECT_OVERVIEW.md:57` that true overlap is rejected). `periods_concurrent`
  shows that nothing else lets an overlap in.
- Of two racing closes the later moves the end that the earlier stored (`:384`). A
  closed period may be created over an active one, which cannot be closed after that
  (`:268`).
- `deleteGroup` counts periods and deletes in two statements (`:203`): a period created
  between them goes with the chapter, which `PROJECT_OVERVIEW.md:50` excludes.
- A cancellation applied between the Paddle call of `changePlan` and its write leaves a
  canceled row with a paid tier (`subscriptions/subscriptions.service.ts:295`; the comment
  at `:293` calls the write safe). `SettledRowMatches` has this as its exception. `canceledAt` comes back when a cancellation's event
  follows a reactivation, and no event clears it (`webhook.service.ts:154`;
  `subscriptions.service.ts:187`, `:266`).
- `changePlan` writes its tier to the user's row (`subscriptions.service.ts:295`) without looking
  at the subscription the row is linked to by then; if a webhook has linked it to another one
  since the request began, that one is shown with a tier Paddle gave to the first only.
  `PaidTierFromPaddle` therefore asks for a tier Paddle has reported of the subscription of
  the row or in agreeing to a plan change.
- Nothing orders webhooks (`webhook.service.ts:156`). An older event applied after a newer one
  puts its tier and status back, and a late `created` links the row to a subscription that
  has ended, after which the events of the new one find no row and are lost, as above.
- A webhook repeated before the first delivery is marked is processed twice
  (`webhook.service.ts:47`), harmlessly: the handlers write what the event says.
- The deletion of a category that meets a new use fails with a serialization error, which
  `categories/categories.service.ts:106` says the client retries; React Query retries
  queries and no mutations here.
- `validatePeriodForDay` compares dates of UTC with a period's local midnights: east of
  UTC it accepts the day before a period and refuses its last day
  (`media/media.service.ts:71`, against the comment that heads it). West of UTC the
  analytics take the date of a day for the day before (`common/utils/weekday-insights.ts:64`,
  `analytics/analytics.service.ts:147`), so days are counted and named one off.
- In a browser west of UTC `groupTimelineHorizontal` starts its rows a day early, against
  the comment at `src/fe/packages/domain/src/timeline.ts:152`, and loses the last row when a
  range ends on a Monday. The server sends no active period that starts after the range, so
  the span of a bar stays positive.
- The page of a day (`src/fe/apps/web/src/components/day-form/day-page.tsx:197`) clears the
  form as long as the day has no row, and again when the row is created by an upload: a
  comment typed before that is lost. If list and row arrive together the cover shown is not
  that of the day; the page does not read `mainMediaId`. A save before the row has arrived
  writes the empty comment over the stored one, and a mood tap on the mobile page
  (`src/fe/apps/mobile/app/timeline/day/[date].tsx:147`) does the same. A cover that was
  deleted stays selected, and further saves are refused.
- Two `addMedia` that both see no cover both choose one, and the later wins.
- `deleteMedia` deletes the row and then the object (`media/media.service.ts:197`), as its
  comment says and `RowHasObject` needs. `PROJECT_OVERVIEW.md:438` has "delete (clear cover,
  S3 before DB)", and the test at `media/media.service.spec.ts:329` is called "should delete
  from S3 before deleting from DB" while it expects the opposite (`:343`). Done in that order a
  failure between the two would leave a row whose object is gone.
- `upsert` accepts media of another day for a cover (`days/days.service.ts:98`), which
  nothing in the documents mentions. Of two days that want one picture the second is refused
  by the unique index, with an error the service does not expect. If another day takes a new
  picture between the transaction of `addMedia` and the automatic choice of the cover
  (`media/media.service.ts:137`), the choice is refused and `addMedia` answers with an error,
  although the media has been added. When the picture is deleted, `clearMainMediaIfMatch`
  looks at its own day only, and the foreign key clears the other.

## 5. What is proved

There are eight proof modules, and no step without a proof. Every invariant and every
action property of the passing runs is stated by a theorem. All the modules assume are the
named assumptions on the constants (`DayAssumption`, `TokensAssumption`,
`SubscriptionsAssumption`, `CodesAssumption`, `SessionsAssumption`, `CacheAssumption`,
`ResourcesAssumption`, `MediaAssumption`, `PageAssumption`, `TimelineAssumption`): numbers
are numbers, sets of ids are finite, markers such as NULL are no ids. A theorem that needs
more names it as its hypothesis: `Sequential`, `OneAtATime` and `OneTab` are what a run of
theirs sets its constants to.

`EventPeriodsProofs`, for any number of periods, requests and days: type
correctness, `AtMostOneActive`, `DatesOrdered` and `OverlapOnlyFromStaleMerge`,
and, when only one request is served at a time, `NoClosedOverlap` and the
refinement of `ChapterCalendar`. The inductive invariants are `Constrained`
(what the database constraints keep), `CloseWritesEnd` (the columns a close
names) and `SequentialInv`, which adds that what the one request in flight has
read is still what the row holds. They rest on `DayAssumption`.

`RefreshTokensProofs`, for any number of calls, tokens and failures: type
correctness, `OnlyNewestUsable` and `RotationsApart`, from `TokensAssumption`.
The inductive invariant is `RotationInv`. `OnlyNewestUsable` alone is not
inductive: a new token is the newest of its session, but an older one could
still be in the table when it is created. `RotationsApart` says there is none
while a call is between delete and create; it is kept by `DeleteToken` because
the presented token was the session's only row, by `OnlyNewestUsable`, and
because a call that is already between the two would have left no row.

`SubscriptionsProofs`, for any number of subscriptions, events, deliveries, errors and
interruptions, in any order: type correctness, and `PaidTierFromPaddle`. The row takes a
paid tier from an event, or from a plan change that has gone through at Paddle and was
reported there (`RequestInv`); events are never taken back (`Emitted`).

What settles after webhooks is proved for `OneAtATime`: Paddle holds an event back until the
one before it is answered, one delivery is handled at a time, and the database does not fail
while it is. Interruptions and repeated deliveries remain, without bound. `webhooks_lost_event`
shows what one database error does; with deliveries side by side or out of order, a late one
links the row to a subscription that has ended, and the next event of the new one finds no
row. The invariant, `InOrderInv`, has a witness in place of a recursive definition: a
function from numbers to rows that begins with the row of a new user and goes on with
`Processed` (`RowsAfter`). Paddle's every step extends it by one row, which agrees with Paddle
again (`ChangeTold`, `AllTold`); the server's steps move the row in the table along it
(`Progress`): answered are the first events, applied the same or one more, and that one may
be applied a second time (`AppliedTwice`). Every event therefore finds the row by its
subscription, which is `AnsweredMeansApplied` (`AnswersApplied`), and once all is answered the
row is the last of them: linked to the subscription Paddle has (`RowLinked`) and equal to what
Paddle says (`RowMatches`). A plan change may write its tier ahead of the events, so `Progress`
lets the tier of the row differ as long as an event that writes a tier is still to come.
`PlanTold` is why one is: when Paddle agreed it sent such an event, and every row after that
event which is linked to the subscription has the new tier until the subscription ends.

`SignInProofs`, for a map and a lifetime of any size: `SignIn` implements
`RefreshTokens` (`StepRefines`: every step is one of its steps or leaves the tokens
alone), so `OnlyNewestUsable` carries over; and `WaitingUsable`. The latter needs
`HandOver`: a token whose code is waiting, or yet to be stored, has been seen by no
client, and every step that takes a row away is about a token that has been seen or
has expired. `CodesBounded` and `CodeSurvives` count. `RoomInv` says that the codes and the
callbacks about to store one are few enough; a full map loses at least one code because a
finite set of codes has an oldest (`OldestCode`), and a code outlives an eviction as long as
no more than the four fifths that are kept were stored after it (`SurvivorKept`).

`SessionsProofs`, for any number of tabs, requests and calls: type correctness, and the
refinement of `RefreshTokens`, which carries `OnlyNewestUsable` over to the client. With it
goes `StorageNewest`, from `AnswersInv` and `PairsInv`: a new pair is known to nobody but the
call that made it until the answer arrives, and no pair in a store, a ref or an answer is
newer than the one in localStorage unless it is on its way to it. `TabStaysSignedIn` states
`StaysSignedIn` for `OneTab`: one tab, prompt effects, no reload in the middle of a refresh and
no failed call, as `sessions_one_tab` has it. Its `SignedInv` says that the token the tab is about
to present is in the table unless it has expired, because what has replaced it has been
copied to the ref before the next 401 is handled.

`ResourcesProofs`, for any number of requests, ids and limits: `WithinQuota`,
`ChaptersBounded`, `UsesSurviveDeletion`. `CacheInv` says that whatever is cached or
read was granted at some time; `CountInv` that a create which has missed no commit has
counted at least the rows there are, so its insert adds one to a number a granted
tier allows. `ChapterRoom` is the strengthening for chapters: for every limit above
the granted ones, the chapters and the requests that were let through under that limit
are together fewer than the limit and all requests. A request that passes the
check moves from one side of the sum to the other, an insert moves one back.

`DayMediaProofs`, for any days, media, requests and failures: type correctness, which says
that a cover is a row of some day and the cover of one day; `RowHasObject` from `ObjectsInv` (a
file on its way has one request and no row; an object is given up only after the row
is gone) and `PicturesHaveCover` from `CoverInv` (as long as nobody interferes with a day, a
picture is a row only with a cover or with a request that is about to choose one, and no
other day has its picture for a cover). `DayPage` implements
`DayMedia` (`PageImplements`), so both hold behind the page. Type correctness of the page
includes that the form is filled exactly when the page has a row; it takes `RowExists`, that
a row the page has seen is still at the server. `WrittenStays` then follows from what the two
effects do to a form (`FormRendered`), in either order and when the first runs again.
`PageAssumption` asks only that `Today` is a day and that the uploads of the page are among
`Slots`.

`TimelineProofs`, for any horizon, number of periods and set of zones: everything the
`timeline` run checks. The inductive invariant `Faithful` says
that each period is what `Stored` makes of dates that were entered; the rest is
arithmetic of days and quarters (`PeriodsFound`, `WeekAround`, `BarCovers`) and, for the rows of a
month, of Mondays: a day stands in the row of the last Monday up to it, or in the first row
(`RowsCover`).

**Only model-checked.** All liveness (`RequestsEnd`, `EventuallyAnswered`, `UploadsEnd`), since
liveness under fairness and ENABLED are out of the prover's reach. So is induction over data,
and RECURSIVE operators, of which there are none here. `NoClosedOverlap` with its refinement,
the three properties of settled webhooks, `StaysSignedIn` and the two properties of zones
that leave one hemisphere out are proved under the hypotheses named above or with the
exceptions they state; without them TLC has counterexamples, which are behaviours of the code.

## 6. Not modelled

- Of the modelled components: titles, colours and other text; the price cache and the
  checkout; `updateMediaPeriod`, the location of a day and the quota of media (a refusal
  in `DayMedia`); the mobile page of a day; which queries a mutation invalidates
  (`packages/hooks` forgets some, such as the usage shown beside a subscription, which
  stay old for a stale time); `useInfiniteTimeline`, whose pages share a day and which no
  page uses; the year and month cards of `timeline-zoom.ts`; browsers west of UTC.
- The cache of presigned URLs keeps an entry for one hour of the URL's twenty-four: there is
  no order of events in which it serves one that has ended.
- Averages, deviations and the other weekday statistics are floating-point numbers, and
  memories are look-ups by date; both are functions of what one query returns.
- Completing the onboarding writes tokens it took before a request
  (`onboarding-provider.tsx:27`). In `Sessions` it would be one more writer of the store;
  nothing in the repository says what should hold then.
- Profiles are single rows; error mapping, guards and DTO validation are stateless, and a
  refused request is a guard of the modelled handlers; recommendations, support and
  health keep no state here. Deployment matters in that one backend process runs.
- The bulk of the lines of the repository is rendering, styles, generated API types,
  translations, seed data and the landing pages. They keep no state that the order of
  events could spoil, and no definition stands for them.

`PROJECT.json` lists every component with its status.

## 7. Plan

| module | next | why |
|---|---|---|
| `Sessions` | a second user on one browser, the onboarding's writes | both are hazards without a property |
| `DayPage` | the mobile page, whose mood taps carry the comment | a hazard without a property |
