# practice-time in TLA+

A verification development for practice-time, a service in which a parent plans
weekly practice assignments for students, records their practice sessions and
sees progress, XP and achievements. The server is a NestJS application on
PostgreSQL (through TypeORM, isolation level READ COMMITTED) with an S3 bucket
for uploaded files and a socket.io gateway for live notices; the client is a
React application on RTK Query. Paths below are relative to the repository.

Every module is translated from the source. `PROJECT.json` maps each definition
to the lines it stands for, lists the TLC runs, a mutant for every checked
property, the hazards of the code and the theorems.

## 1. Inventory

| Component | State it keeps | Operations | Talks to | What makes it correct | Module |
| --- | --- | --- | --- | --- | --- |
| Practice sessions, `src/practice-sessions` | `practice_sessions`; triggers derive the local date from the zone snapshot | create, update, remove, lists | publishes `practice-session.*` in process after the commit | a date is derived with the zone of the recording; a session belongs to the student of its item | `Rewards` |
| Practice progress and XP, `src/practice-progress` | `daily_practice_xp_awards` (one per student and date) | award on an event; summary = repair INSERT + one large SELECT | subscribes to session events | XP for practised days only, each once, every one in the end; the summary misses none | `Rewards`, `PracticeRules` |
| Achievements, `src/achievements` | `student_achievements` (one per student and key) | evaluateStudent: facts, INSERT ... RETURNING, announce; list | subscribes to session and progress events, publishes `achievement.unlocked` | only earned keys, announced at most once and in the end once | `Rewards`, `RewardPromises`, `RewardLedger` |
| Item completions, `src/achievements/assignment-item-completions.service.ts` | `assignment_item_completions`, one active row per item | complete, reopen | complete publishes `assignment-progress.changed` | refused for a cause only, true answers | `ItemCompletions` |
| Assignments, `src/student-assignments` | an assignment and its tree: notices, sections, items, resources | create, update, remove, publish, archive, cancel, duplicate | reads students; cascades to resources, completions, sessions; publishes nothing | status, timestamps and tree are consistent; published content is stable; copies are independent | `AssignmentLifecycle`, `Rewards` |
| Assignment resources, `src/assignment-resources` | `assignment_item_resources` | createUpload, createLink, remove, signed URL | advisory lock per content, bucket | a row has its object; no object without a reason | `ResourceAssets` |
| Object storage, `src/object-storage` | the bucket | put, delete, signed URL | | outside of every transaction | `ResourceAssets` (partly) |
| Students, `src/students` | `student`: owner, zone, is_active, columns | create, update, deactivate, lists | read by everything | a save changes what its caller meant; a deactivated student stays so | `Students` |
| Achievement gateway, `src/achievements/achievements.gateway.ts`, `frontend/src/features/achievements` | rooms; toast of the page | authenticate, subscribe, emit; reconcile on connect | `achievement.unlocked`, REST list | a browser knows every unlock it was told of; none is shown twice | `AchievementDelivery` |
| Authoring page, `AssignmentAuthoringPage.tsx` | draft, uploaded ids, saved assignment, status bar | edit, save, retry uploads, publish, leave | assignments, resources | one assignment; each file once, below its item; what is stored is what was drawn | `AssignmentAuthoring` |
| Player page, `PracticePlayerPage.tsx` | timer, toggle, cached progress | start, pause, reset, finish, toggle, select | sessions, completions, summary | no second of practice lost or counted twice; the page says what is so | `PracticePlayer` |
| Accounts, `src/auth`, `src/users` | `users`, tokens | signup, login with throttle, JWT validation, update | all requests | a client acts as the user it shows | `Accounts` (partly) |
| Client cache and stored token | RTK Query cache by tags; localStorage | fetch, invalidate, sign in, log out | REST | what is shown converges, and is its user's | the three page modules (partly) |
| Other pages | forms of students, lists | add, edit, deactivate, list | students, achievements | a form saves once | `Accounts`, `AchievementDelivery` (partly) |

Not modelled, because they keep no state or only render: the request pipeline
(`src/common`), configuration and scripts (section 6).

### What is hard here

* **Events after the commit, kept nowhere.** A request commits, then calls
  `Subject.next`; both subscribers start asynchronous work and swallow its
  errors. A crash loses the event; the summary repairs XP, a listing repairs
  achievements (`docs/achievement-delivery.md`).
* **Two statements, two snapshots.** The summary inserts and then reads; an
  evaluation reads and then inserts; `complete` inserts and then selects.
* **Check, then write, without a lock.** All commands on assignments, resources
  and students; TypeORM's `save` then writes a whole stale entity back.
* **Two stores.** The bucket takes no part in transactions.
* **Two definitions of one thing.** Streak and completion are computed by two
  independent SQL queries; drafts are validated by the page and by the DTOs.
* **Calendars.** A session keeps the zone it was recorded in while "today"
  follows the zone the student has now.
* **Answers that are lost.** The browser cannot tell a request that failed from
  one whose answer went missing, and says "not saved" of both.
* **One token, many tabs.** Requests read localStorage; the page shows its own
  state. Cached lists, delayed invalidations and sockets each lag differently.

`PROJECT.json` lists the hazards at their lines, each with the property that
catches it.

## 2. Modules

| Module | Models | Used by |
| --- | --- | --- |
| `PracticeRules` | calendar, streak islands, weekly figures, item progress, achievement facts and rules as operators | `PracticeRulesCheck`, `Rewards` |
| `PracticeRulesCheck` | a ledger growing row by row, to compare the rules | `MCPracticeRules`, `PracticeRulesProofs` |
| `Rewards` | sessions, XP, completions, weeks, achievements, their events, faults | `MCRewards`, `RewardPromises`, `RewardsProofs` |
| `RewardPromises` | what arrives without another request, under fairness | `MCRewardPromises` |
| `RewardLedger` | the abstract promise about rewards | `Rewards` (`Promise`) |
| `AssignmentLifecycle` | the commands on assignments and their trees | `MCAssignmentLifecycle`, `AssignmentLifecycleProofs` |
| `ResourceAssets` | upload rows, bucket and advisory lock | `MCResourceAssets`, `ResourceAssetsProofs` |
| `ItemCompletions` | complete and reopen, statement by statement | `PracticePlayer` |
| `PracticePlayer` | the practice page composed with the completions | `MCPracticePlayer`, `PracticePlayerProofs` |
| `AchievementDelivery` | gateway, hook, toast and cached list | `MCAchievementDelivery`, `AchievementDeliveryProofs` |
| `AssignmentAuthoring` | the authoring page and what its requests leave behind | `MCAssignmentAuthoring`, `AssignmentAuthoringProofs` |
| `Students` | the student commands, statement by statement | `Accounts` |
| `Accounts` | tabs, token, session, list and forms composed with the students | `MCAccounts`, `AccountsProofs` |

**PracticeRules.** A session is a record of its row. Instants are ticks, a zone
an offset in ticks, `LocalDate` what `AT TIME ZONE ... ::date` computes (no
daylight saving: a zone is a constant offset). Minutes are not rounded, seconds
are kept. `SummaryStreak` and `RuleStreak` share the islands of consecutive dates
and differ, as the two queries do, in which island counts as current.

**Rewards.** The tables are the variables `planned`, `drafts`, `cancelled`,
`sessions`, `awards`, `unlocked`, `done`, `zone`, `active`; `requests`, `awarding`
and `evaluations` hold what lives in the process only. `Create`, `Correct`,
`Remove` and `Complete` commit and leave a request with an event to publish.
`Reopen` does not, although the code means it to: TypeORM answers a raw UPDATE ...
RETURNING on PostgreSQL with the rows and their number, so that `rows.length` is
never 1. `Plan` (create and duplicate), `Edit`, `Discard`, `Issue` and `Cancel` are
the commands on assignments as far as the facts depend on them; they publish
nothing, and an item that is deleted takes its completions along and leaves its
sessions without an item (`ItemsDeleted`). An assignment is a record of its
student, first day and items. `Publish` starts an XP insert (unless a session was
deleted) and an evaluation; `ReadFacts`, `InsertUnlocks` and `Announce` are the
parts of `evaluateStudent` between its awaits; `RepairAwards` and `ReadSummary` the
two statements of the summary. `AwardFails`, `EvaluationFails`, `SummaryFails` and
`Crash` are the faults. `ledger`, `everDone`, `everPlanned`, `notices` (and `live`
in a request) are history variables, written and never read by an action but for
the bound on rows and the freshness of ids. Two concurrent inserts of one XP row
are one element of `awarding`, since ON CONFLICT DO NOTHING makes them
interchangeable.

**RewardPromises** adds the fairness and one history variable: `untold` holds the
rules that a change without an event has satisfied, until an event of the student
is committed or the rule no longer holds. There are three such changes, and they
are all: of the student's zone, of the date (where a move to the west has dated a
session ahead), and of the weeks. A week planned or moved over sixty minutes that
are already recorded satisfies `weekly_60_minutes`, and nobody is told until the
next session, completion or listing. `RewardsArrive` says that whatever else
satisfies a rule is rewarded.

**AssignmentLifecycle.** A row is a record with its nested rows; items are folded
into their section, because every command treats the items of a section alike. A
nested row is named by the batch of its INSERT and its position. A command is two
steps, `Check` (which keeps the row it read) and `Save`, `Remove`, `Update`,
`Attach` or `Detach`; `Create` and `Duplicate`, whose INSERT cannot conflict with
what was read, are one step. `Save` is what TypeORM's `save` does with a loaded
entity: every column and nested row that differs is written back, missing ones
are inserted again, and a nested row the entity does not know makes the save fail
(`KnowsNested`, external).

**ResourceAssets.** Rows name an object by its digest. The steps of `createUpload`
and `remove` are split at every await: check, lock, put or delete, count, erase,
commit, and `Abort` may come anywhere: the database is rolled back, the bucket is
not. `Duplicate`, `Save` and `Drop` are what the commands of the assignments do to
upload rows, without the lock. `torn` and `abandoned` are history. hashtext is
taken as injective: a collision only makes two contents wait for each other.

**ItemCompletions.** The table is the number of open completion rows of one item
(`open`), `phase` and `present` what the assignment's commands do around it. A
request is checked (`Check`), then inserts under the partial unique index
(`Insert`) and, when the INSERT was skipped, selects (`Select`), or closes
(`Close`). Between any two of these the assignment may be cancelled, published,
or lose the item to an edit (`Restate`, `ReplaceItem`). A request's `raced` is
history: which of a closing of the week and another's reopening came between its
statements.

**PracticePlayer.** `running`, `elapsed`, `message` and `save` are the state of
the mounted workspace, which selecting another item or going offline throws away
while a request goes on (`orphan` for a session, the client `Left` for a toggle:
one of each at most). `shown`, `due` and `fetch` are the cached summary: a tag is
invalidated at once, the refetch waits until no request is pending. Going offline
drops the seconds on the timer, a second counted while a save is on its way is
wiped by its answer, and a save whose answer is lost is repeated by hand;
`history` remembers which of these happened, and the properties say that nothing
else goes wrong. The note of a session shares the fate of its seconds.

**AchievementDelivery.** `Serving` is the server: an evaluation unlocks, the event
is emitted to the sockets joined at that moment, a subscription looks the student up
and then joins, or is refused (`NotSubscribed`): the hook listens for no exception,
so that such a connection stays open without its room. The hook connects,
invalidates the list at once, subscribes, and reconnects up to `Attempts` times (as
many after a drop, and after the first connection that failed); `Drop` and `Restart`
take connections, `wire` what is on its way. The list is the cache entry of the
rewards page. `docs/achievement-delivery.md` lines 29 and 30 ask the client to fetch
the list, then subscribe, and to compare event ids; the hook does neither, and the
two safety properties say what still holds without it.

**AssignmentAuthoring.** The draft is edited while a save runs on the draft as it
was at the click (`run`). `Save` sends the request; its uploads follow one by one,
matched to the saved items by position in the draft grouped by area
(`UploadStarted` to `Uploaded`), then the publication. Each request may fail or
lose its answer. `Accepts` is the DTO validation and `ValidDraft` the page's, both
over the classes of values they tell apart. What a reader may not expect, and the
properties except by name: a retry does not validate the draft and takes files
from the form as it is now (`history.drifted`); a retry after a lost publish
answer is refused, since the assignment is no draft any more; a file whose
answer was lost finds its position taken by itself on every retry; six
rules the page does not know: names and locations of notices have at most 255
characters, URLs at most 2048, an https URL must be one to validator.js (a host
with a domain, no blank), practice days are whole, and on update a title has at
most 255 characters, which " (copy)" can pass. Years have four digits, and the
size of a whole request is not limited.
`Drafts` and `StoredWeeks` are all forms and all stored weeks, of any length;
`AuthoringAssumption` asks of the drafts and weeks an instance starts from what
the code gives them: local ids made by `crypto.randomUUID`, primary keys, and the
unique index on a resource's position.

**Students.** `update` and `deactivate` are three steps: `findOne`, the comparing
read of TypeORM's `save`, and the UPDATE of the columns that differ (`Written`,
external). `ZoneOf` is the DTO's initializer: `UpdateStudentDto` inherits
`timeZone = 'UTC'`, so an update without a zone resets it.

**Accounts.** `storage` is the token all tabs share, `token` and `user` what each
has in its store, `me` the request that restores the user. Requests carry
`storage`, pages show `user`. Any error of `/auth/me` clears the token for all
tabs. Forms keep the row they were filled with (`base`) and send all fields; a
failed save says that nothing was saved and leaves the form open.

## 3. Runs

| Run | Question | Bounds |
| --- | --- | --- |
| `rules` | do the two queries agree, with each other and with counting? | one week of two items that ends on day 2, up to 4 rows on days 0 to 5, dated up to one day ahead; 72,000 states |
| `rewards` | requests, evaluations, zones, clock and one fault, against the abstract ledger | one student, 2 requests, 2 evaluations, 2 row versions, 2 zones half a day apart, 3 half days, three weeks to plan with an item of either kind, under `Bounded`; 416,000 states |
| `rewards_liveness` | does everything arrive? | no faults, 2 zones, one request and one evaluation at a time, 3 sessions of an hour, a week with a task, under `CalmSpec`; 11,000 states |
| `rewards_westward` | (violation) streak shown and streak rewarded | 3 sessions, eastern to western zone |
| `lifecycle` | overlapping commands, copies included | 2 assignments, 2 requests, 2 values of details, 2 positions, one notice place, 3 batches, under `Bounded`; 2.3 million states |
| `lifecycle_published` | (violation) is published content immutable? | one assignment, one position |
| `assets` | lock, bucket and failures | 2 contents, 3 requests, 2 rows |
| `assets_copies` | (violation) copies and the last reference | 1 content, 2 requests, 2 rows |
| `player` | seconds, toggles and the cache | three weeks: 2 seconds of practice; a task with another device; both kinds with 1 second; 3 clients, one fault; 1.0 million states |
| `delivery` | what a browser learns of unlocks | 2 keys, 2 connections, one reconnection attempt, 2 faults; 421,000 states |
| `authoring` | saving, uploading, publishing and retrying | 2 typed drafts, one stored one, a new page; one edit, one fault; 43,000 states |
| `accounts` | tabs, token, stale rows and forms | two tabs of one account; a tab and an API caller with one fault; two accounts in two tabs, with one save or one failure; 382,000 states |

`MCRewards!Bounded` and `MCAssignmentLifecycle!Bounded` are CONSTRAINTs:
disjunctions that hold two of three things still while the third is free (requests
overlap, with the fault; the clock and zones move; weeks are planned and edited, their
items practised or completed, and nothing is paid), or keep either one assignment with its details and
positions, or several with one place for each kind of row. States beyond are reached
and checked but not continued. Liveness is not checked under a CONSTRAINT:
`MCRewardPromises!CalmSpec` conjoins to every step that it ends in a behaviour of
one of two kinds, one session that is corrected or deleted while the zone changes
and a week is planned, or sessions day after day with the week and its task; the
clock stands. It disables commands of clients only, never a step that fairness is
assumed of. With three days in a row, an hour and a task, every rule but that of
seven days can become satisfied, and a completion that publishes nothing is found
out.

Why these bounds are enough for the cases that matter. Two evaluations suffice for a
double announcement and two requests for every race between a check and a write; a
third request in `assets` lets a copy run beside an upload and a removal. Two row
versions let a session be corrected or two sessions share a day. Three batches let a
tree be created, replaced and attached to while a request holds the old one. Four
rows give every pattern of islands with a gap, and day 5 lies beyond yesterday of
each. No run has the rows for a streak of seven days, and `rewards`, with two row
versions, none for one of three: there the streak keys rest on the theorem
`UnlocksAreEarned`, while `rewards_liveness` reaches the one of three days. The two
differ in their constant alone. Two seconds let one be saved while the other is
counted. Two connections let one be closed while events of the other travel, and two
faults a drop after a restart. One edit may fall before the save, during it or
before a retry; the typed drafts have areas in an order that grouping changes,
several files, a link between them and a file the server refuses. `accounts` needs
two saves for one to overtake the other.

`CHECK_DEADLOCK FALSE` is set where clients stop at a bound (all runs but `player`
and `delivery`, which always can go on and are checked for deadlock).

### What the violations show

* `StreakShownIsRewarded`: the summary counts an island that ends *yesterday or
  later*, the rule one that ends *today or yesterday*. After a move to a western
  zone the last session may be dated tomorrow: the summary shows a streak that
  the achievement does not see until the calendar catches up.
* `PublishedContentIsImmutable` (`docs/api-contracts.md`): an update, upload or
  removal that saw the draft still writes after a publish committed.
* `ReferencedObjectsExist` (`docs/development/README.md`): a duplicate copies an
  asset key without the lock under which a removal counts its references, and may
  insert its row after the object was erased.

The properties beside them say how far the promise does hold: `IllegalNeedsRace`
(such a change is made only by a request whose row changed after it was read),
`UploadedRowsReadable` (rows of uploads, as opposed to copies, keep their object
unless a removal was rolled back after erasing it), `StreaksAgree` (without a date
ahead of today the two streaks are equal).

### What the passing runs except

Several properties hold "unless ...". Each exception is a cause the code lets
happen, met in a counterexample and recorded by a history variable where it
happens:

* `OnlyMeant`: a save overwrites what its caller did not mean when the row was
  written between its reads (which also revives a deactivated student), when the
  form was filled before another change, or when the request has no zone.
* `OneProfile`, `NothingTwice`, `OneAssignment`: after a lost answer the same
  form makes a second row, though it said that nothing was saved.
* `ActsAsShown`: after another tab signed in as somebody else, a tab goes on
  showing its user while its requests are the other's.
* `NothingLost`: a reset, leaving the workspace (or the network), or a second
  counted during a save.
* `OnlyRaces`: a toggle is refused because the item has gone, the week is closed or,
  of complete, another request reopened the item after the INSERT was skipped; and a
  closed week's item changes by a request that had been checked before.
* `RewardsArrive`, a part of `PromisesArrive`: a change of the zone, the date or the
  weeks that no event follows.
* `IllegalNeedsRace`, `NothingLeaks`: a command in between; a failed upload, a cascade.
* `JoinsAgain`: the connection or the subscription was refused, or the attempts
  are used up; a page that is refused its subscription goes on without a sign.
* `StaleByOthers`, `ShownSettles`: other devices, failed fetches, and, for the
  latter, toggles that overlap for ever.

### Fairness

Every liveness run assumes that code goes on and requests are answered or fail,
never that a person acts.

* `rewards_liveness`: the event loop keeps running: a request that committed
  publishes, since no await stands between commit and publication but the end of
  the transaction; statements in flight are answered (`Award`, `ReadFacts`,
  `InsertUnlocks`, `ReadSummary`), and `Announce` is a loop without awaits. These
  are weakly fair. `Publish` is strongly fair only because the model bounds the
  evaluations in progress, which the code (`mergeMap`) does not. No client, clock
  or repair is assumed to do anything, and the run has no faults: with a crash the
  properties are false, as the documentation says.
* `player`: `Toggling`, `Saving`, `LeftBehind` and `Fetching` are weakly fair:
  requests in flight end, and an invalidated tag is fetched when none is pending.
* `delivery`: `Serving`, `SaveAnswered`, `Fetching` and `Connecting` of every
  connection are weakly fair: the client library retries by its own timer.
* `authoring`: `RunStep`, the asynchronous function that save and retry run.
* `accounts`: `Restoring` of every tab: the request for the user ends.

## 4. Proofs

Eight modules of proofs, checked from nothing by tlapm, for all values of the
constants that satisfy the named assumptions. Every invariant and every action
property that a passing run checks is a theorem, and so is the refinement.

* `PracticeRulesProofs` (assumes `CheckAssumption`):
  - `StreaksAlwaysAgree`. With no date ahead of today, `SummaryStreak` and
    `RuleStreak` are both the length of the run of dates that reaches today or
    yesterday: the islands cut a finite set of dates where one is missing, one
    island at most ends on a day, and the latest ends last.
  - `CompletionAlwaysAgrees`, item by item.
  - `FiguresAlwaysAddUp`. `SecondsOf` is a fold over a set: it does not depend on
    the order of the rows, and is additive, so the seconds of two weeks or of the
    items are those of the sessions on both sides.
  - `BookOK` is the invariant: the ledger is a finite set of sessions with whole
    seconds and dates. Facts about every finite set are proved without an induction
    theorem: a family of counterexamples would have a smallest member
    (`SmallestSet`), which loses an element and is none after all.
* `RewardsProofs` (assumes `RewardsAssumption`, `TicksPerDayAssumption`):
  - `Typing`.
  - `AwardsAreJustified`. `awards \subseteq Practised` is not inductive: an award
    comes from an insert in flight, which comes from an unpublished event or an
    uncommitted repair. `PayableIsPractised` adds that all of these are practised
    already, and that live sessions are in the ledger.
  - `AnnouncedAtMostOnce`. `NoticesOwned` adds that the rows an evaluation has
    inserted and not announced are in the table, have no notice yet, and belong
    to no other evaluation.
  - `UnlocksAreEarned`. `KeysAreEarned` adds the keys an evaluation has read from
    the facts and not inserted yet: what was live when they were read, weeks included,
    is in the history for ever, and every fact grows with the rows and weeks it is
    computed from. A row that loses its item stays in the history as it was, and keeps
    its student and date (`DeletedRows`, `PlanningFacts`).
  - `SummariesReconcile`: awards only grow, so the dates that were live when the
    repair began stay covered by its own rows or by committed awards.
  - `Implementation`: each action maps to `Practise`, `Pay`, `Unlock`, `Announce`
    or a stutter of `RewardLedger`, under the two invariants above.
* `AssignmentLifecycleProofs` (assumes `LifecycleAssumption`):
  - `LifecycleTyping`.
  - `AssignmentsStayConsistent`. A save writes back what a request read, so the
    induction carries `SeenConsistent`: the rows that requests hold are as
    consistent as the table's, and of a status their command admits.
  - `IllegalChangesAreRaces`, from the same invariant, action by action.
  - `CopiesAreIndependent`. `Apart`: a batch belongs to one assignment, whether
    it occurs in the table or in the copy a request holds, and is smaller than
    the counter.
* `ResourceAssetsProofs` (assumes `AssetsAssumption`):
  - `AssetsTyping`.
  - `UploadsStayReadable`, by `LockExclusive` (one holder per key) and
    `HolderKnows` (what a holder found when it counted still holds).
  - `ObjectsAreAccountedFor`, by `IdsNameKeys` (an id has one key, in rows and
    requests) and `Accounted`.
* `PracticePlayerProofs` (assumes `PlayerAssumption`):
  - `PlayerTyping`.
  - `TogglesRace`. `Underway` is what the claim needs of a request on its way: one
    whose INSERT was skipped finds a completion unless a reopening was recorded, and
    one that is checked found the week open unless a closing was.
  - `SecondsAreRecordedOnce`. `recorded <= practised` needs every place a second
    can be in: `SecondsCounted` adds up rows, the save and the orphan on their
    way and the part of the timer that no save has been given.
  - `SecondsAreNotLost`. `SecondsKept`: until one of the three causes, a save on
    its way carries exactly what the timer shows.
  - `AnswersAreTrue`. `AnswersHold` extends the claim from what the page says to
    what an answer on its way will make it say.
  - `CacheIsExcused`. `CacheFollows`: a value read for the cache is the server's,
    or a request is pending that will fetch it again.
* `AchievementDeliveryProofs` (assumes `DeliveryAssumption`):
  - `DeliveryTyping`.
  - `ListIsInformed`. `Sources` (what travels is unlocked, what is unlocked was
    earned) and `Informed` (a read that no invalidation follows has all the
    browser was told of).
  - `ToastsAreShownOnce`. `Single` (only the page's connection is open), `Unseen`
    (what is on it was announced, not shown, and is on it once) and `Shown`.
* `AccountsProofs` (assumes `StudentsAssumption`, `AccountsAssumption`):
  - `AccountTyping`.
  - `SavesAreMeant`. `Sound`: `Meaning` ties a body to the form it was filled
    with, `Holding` the copy and the columns to write to the row in the table.
  - `TabsActAsShown`. `Aligned`: a tab without a user has no list, form or
    request, one that is not foreign has only its user's.
  - `OneStudentPerForm`. `Counted`: what a form has created was answered, or the
    form is closed.
* `AssignmentAuthoringProofs` (assumes `AuthoringAssumption`): first lemmas on the
  data, then an invariant in parts, `AuthoringInv`.
  - Order and groups: a finite set of numbers has one ascending list
    (`OrderListsAll`), so `Grouped` puts every entry of the form at one place of
    one group (`EntriesGrouped`, `SameEntry`).
  - Edits: whatever is added, removed, moved or changed, each entry after an edit
    comes from one before and one at most is new or changed (`EditOrigins`);
    hence ids stay distinct and below the next fresh one (`DraftEdited`).
  - Opening: the items of a stored week one after the other (`FlattenParts`), each
    row at its position, are a form of the page (`FormOfWeek`).
  - `OneAssignmentPerPage`. `SavesFirst`: a save runs only while nothing is known
    to be saved, and uploads and publications only once something is.
  - `FormsAreTyped`. `Typed0`: the form, what was sent and what a run holds are
    forms with distinct ids, and a run has grouped its own.
  - `ValidatedDraftsAccepted`: section by section and item by item of the request
    of a typed form.
  - `CurrentFilesStayStored`. `Current`: what the form shows as stored has a row in
    the assignment it was opened on, and a save on its way sends it along.
  - `DoneIsAsDrawn`. `Mirror`: until a retry runs on a changed form, each row of the
    saved assignment is that of an entry of the form sent, at its place, and a
    missing one is of a file neither uploaded nor lost. A retry may only have
    changed a file still to be sent, and such forms have one mirror
    (`MirrorsShape`). `Sending` says where the upload loop is: when it is over,
    nothing is unsent. `Known` gives an id one kind in forms and rows, `Originals`
    a retained upload the file it was first stored with.
  - `FilesGoWhereChosen`, from `Mirror` and `Sending`.
  - `UploadsGoOnce`. `Once`: an id has one place in every assignment, but for one
    whose answer was lost, or which replaced a stored file, once the form has
    been changed besides.

  The attempt to prove these corrected the properties twice. `DoneAsDrawn` took a
  retry for unchanged when the form was what the save had sent; a file replaced,
  uploaded on a retry and then replaced back made it false, so a form is now
  compared with the last one sent and with what is uploaded already. `NoFileTwice`
  left out a stored upload that is given a new file and moved after the save: a
  retry sends the file to the new place, and the retained row stays at the old one.
  Both take two edits, and the run, which allows one, had not met them. The
  invariants also hold with two edits and two faults, on five million states.

Only model-checked: liveness under fairness (`PromisesArrive`, `ShownSettles`,
`JoinsAgain`, `Restored`, `RunsEnd`), which the prover does not handle. No module
declares a RECURSIVE operator.

## 5. Limits

* In `Rewards` a check of status is one step with the statement that follows;
  `ItemCompletions` has the race, for one item, without the events. Two weeks of one
  student with the same first day and no items are one.
* `AssignmentLifecycle` takes reads of an assignment as one snapshot (the code
  joins everything in one statement) and an update as one transaction whose
  statements see the same rows; details are one value.
* `ResourceAssets` handles upload rows one by one.
* `Rewards`, `AssignmentLifecycle` and `ResourceAssets` have one owner; ownership
  is checked in `Accounts`, for students.
* In `PracticePlayer` `practicedAt` is the client's clock and is left to `Rewards`.
* `AchievementDelivery` evaluates at once what `Rewards` splits, and has one page.
* In `Accounts` a page is not reloaded, signed out of or left (by the link back to
  the students or the shell's navigation) while its save is under way.

## 6. Not modelled

* Sign-up, whose one-account rule is a constraint of the database; note that
  `docs/api-contracts.md:27` describes a bootstrap check the code does not make.
  The login throttle (a timer per address), hashing, the expiry of tokens and
  updates of users: each is local to one row or one request.
* Signed URLs and their expiry; file signatures and URL formats beyond the
  classes that `AssignmentAuthoring` tells apart.
* The request pipeline, configuration, migrations' mechanics and scripts: they
  map one value to another or do not run with the system.
* The dashboard, the shell, the viewer, the metronome and translations: they
  render or sound what was fetched.

## 7. Plan

All modules planned so far are written: rules, rewards, lifecycle, assets, then
completions with the player, delivery, students with accounts, and authoring; all
their safety properties are proved. What would add most next:

* the announcements of `AchievementDelivery` as an implementation of those of
  `RewardLedger`, with its proof;
* the facts about single steps that liveness rests on and the prover can handle: a
  request in flight stays until it is answered, a repair leaves no date unpaid, an
  upload loop has a file less to send after each answer;
* the page of a form left during its save, in `Accounts`, and a merge of two trees at
  different positions as a race of its own, in `AssignmentLifecycle`.
