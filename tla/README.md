# Life Ledger, specified

TLA+ models of Life Ledger, a two-user expense ledger written in Go: a SQLite
file, a set of HTTP handlers over it and a free-text entry syntax. TLC checks the
modules on small instances and TLAPS proves the main invariants for every value
of the constants.

## 1. The system

| Part | Source | State it keeps | Operations |
| --- | --- | --- | --- |
| Entry syntax and kind rules | `internal/expense/{parse,intent,expense}.go` | none | `Parse`, the Intents (plain add, add payback, edit expense, edit income), `Submit`, `EntryLine`, `Editable` |
| Shared balance | `internal/expense/balance.go` | none (derived) | `SharedBalance` |
| Store | `internal/store` | three tables: `expense`, `income`, `forgiveness` | one SQL statement a call, auto-committed; `income.linked_expense_id` is a foreign key with `ON DELETE CASCADE` |
| Ledger handlers | `internal/server/server.go` | the locals of a request; hidden fields in a box | add, add payback, edit (open and save), delete |
| Forgiveness handler | `internal/server/forgive.go` | as above | forgive, undo |
| Pages and preview | `internal/server/{view,server}.go` | the lists of a page being read | day-grouped lists of the two tabs, balance banner, live preview |
| Login guard | `internal/auth` | the limiter's map; a signed cookie in the browser | log in, slide the cookie, log out |
| AFK dispatch | `internal/afk`, `.github/workflows/afk{.md,.lock.yml}` | branches and labels on GitHub; the jobs of each run | decide run, skip or refuse, and the branch; claim, agent, safe outputs |
| Dashboard | `cmd/dashboard` | the page being built | list issues, list pull requests, write the page |
| Updater | `deploy/minipc/guest/life-ledger-update.sh` | the binary, its predecessor, two digests | poll, swap, restart, check, roll back |
| Nightly backup | `deploy/minipc/guest/life-ledger-backup.{sh,timer,service}` | remote snapshots, healthchecks.io | snapshot, gate, upload, prune, ping |
| Publish and cleanup | `.github/workflows/{ci-cd,ghcr-cleanup}.yml` | the `:latest` tag, image versions | check and move, prune |
| Server main | `cmd/life-ledger` | the signing key | open the database, build the guard, listen |
| hashpw, provisioning, web assets | `cmd`, `deploy`, `web` | none | run once, or static |

How they interact: a browser window posts a line to a handler; the handler loads
what the line is about from the store, builds an Intent, lets `Submit` parse the
line and choose the record, and calls the store once more to write it. Handlers
share nothing but the store. Each request runs in a goroutine, no call is inside
a transaction, and between a page and the next click the user's browser holds
rowids in links and hidden fields. The updater restarts the process at any
moment; the backup reads the file, and its snapshots are what a lost file is
restored from. The dashboard reads what the dispatch's runs write on GitHub.

What is hard, in order of weight:

1. *Interleaving.* Read, decide, write are separate statements. Two windows (two
   users, or two tabs of one) interleave between any two.
2. *Identity.* The tables' key is a rowid without `AUTOINCREMENT`: the rowid of
   the newest row is given again after that row is deleted, while an open box or
   a request in flight may still name it.
3. *Long legal sequences.* Adds, paybacks, edits and cascades must keep a record
   in its table, its tab and with its payer.
4. *Days.* The edit box shows a year-less `DD/MM`, re-read some later day.
5. *Cents.* Halved expenses, rounding, forgivenesses of a rounded figure, amounts
   too large for an `int`.
6. *Jobs that fail half-way.* A night's backup, an update, a workflow run stop after
   any command, and the next one starts from what they left.

`PROJECT.json` lists each hazard at its line, with the properties that cover it.

What makes each part correct: the *entry rules* never turn one kind of record
into another; the *balance* comes to zero when it is forgiven or settled as shown;
the *store* never has a payback without its parent; the *handlers* write the
record the user was looking at or none, keep Carla inside the Shared tab, and
leave old records alone; the *forgiveness handler* never forgives more than is
owed; the *pages* list every record exactly once; the *guard* lets at most five
attempts a minute through and keeps a session as long as it is used; the *updater* always has a good
binary to go back to; the *backup* always has a sound, recent snapshot or has raised
the alarm; the *dispatch* loses no ticket and ends every run; the *dashboard* never has work in
progress for review.

## 2. The modules

| Module | Models | Built on |
| --- | --- | --- |
| `Entry` | the Intents, the save gates and kind rules of `Submit`, the record a line becomes | |
| `Balance` | `SharedBalance` | |
| `Tables` | a SQLite table: `Put`, `Drop`, the next rowid | |
| `RecordBook` | **abstract**: the book the two users are promised, its records known by the order they were entered in | `Entry`, `Balance`, `Tables` |
| `Ledger` | the three tables and the handlers that write them, one step per store call | `Entry`, `Balance`, `Tables` |
| `LedgerProperties` | the properties of `Ledger`, and the refinement mapping to `RecordBook` | `Ledger` |
| `LedgerProofs` | types, links and kinds of the ledger, proved; lemmas about the sums of `Balance` | `LedgerProperties` |
| `BookProofs` | what a window knows of the record it writes, and the refinement to `RecordBook`, proved | `LedgerProofs` |
| `Pages` | a home page read in three lists while the handlers write: which tab lists what, the day totals, the balance above | `LedgerProperties` |
| `PagesProofs` | the theorems about a page | `Pages`, `BookProofs` |
| `EntryDate` | the calendar, date tokens, the edit window, the days that can be read back | |
| `EntryText` | `Parse` over a line's tokens, the arithmetic of an amount, the canonical line | |
| `EntryBox` | one record, entered and opened in an edit box, while days go by | `EntryDate`, `EntryText` |
| `EntryProofs` | the theorems about lines, amounts and days | `EntryBox` |
| `LoginBudget` | **abstract**: so many attempts per client and window | |
| `LoginLimit` | the limiter's map, its windows and its sweep | refines `LoginBudget` |
| `Session` | the signed cookie, slid on every page, and the browser that keeps the last one delivered | |
| `Guard` | a login through the limiter into a session, restarts and changed keys | `LoginLimit`, `Session` |
| `GuardProofs` | the theorems about the limiter and the sessions | `Guard` |
| `Publish` | the publish jobs of the pushes to main, `:latest`, the weekly prune | |
| `Updater` | the guest's update script, command by command, with power cuts | |
| `Deploy` | a push on its way to the service: both of them over one registry | `Publish`, `Updater` |
| `DeployProofs` | the theorems about publishing and updating | `Deploy` |
| `Dispatch` | `Decide`, the branch ladder and the workflow runs that act on it | |
| `Dashboard` | the panels, graph and branches a page shows, at any moment of the runs | `Dispatch` |
| `DispatchProofs` | the theorems about the dispatch and the dashboard | `Dashboard` |
| `Backup` | the nightly backup, command by command, the database file and the remote | |
| `BackupProofs` | the theorems about the backup | `Backup` |
| `MCLedger`, `MCEntryBox`, `MCGuard`, `MCDispatch` | symmetry, and the days, lines and tickets that are tried, for TLC | |

### How `Ledger` reads the code

*State.* `expenses`, `incomes`, `forgivenesses` are the tables, rowid to row. A
row's `createdAt` is the ordinal of its insertion in its table: the code's
timestamp, made distinct, is the identity that survives edits (ADR-0001).
`entered` counts insertions and stamps it. `recycled` is history only: a rowid
was given a second time. `windows[w]` is what a browser window shows (`idle`, an
open `box`) or where its request has got to, holding the handler's locals. `seen`
is the `createdAt` of the record the window shows: no handler reads it; the
properties compare it with what is written.

*Steps.* One action per store call, with what the handler does up to the next.

| Action | Code |
| --- | --- |
| `StartPayback`, `AddPlain`, `AddFromBox` | `handlePaybackStart`; `handleAdd` under `plainAdd`, under `addIntent` |
| `InsertExpense`, `InsertIncome` | `Store.Create`, `Store.CreateIncome` with its foreign key |
| `OpenExpense`, `OpenIncome` then `OpenParent` | `handleEditForm`; `loadIncome` reads an income and then its parent |
| `SaveExpense`, `SaveIncome` then `SaveParent` | `handleEditSave` up to `Submit`'s result |
| `UpdateExpense`, `UpdateIncome` | `Store.Update`, `Store.UpdateIncome` (which never writes the link) |
| `RequestDeleteExpense`, `RequestDeleteIncome` then `DeleteParent` | `handleDelete`'s load, for Carla's scope |
| `DeleteExpense`, `DeleteIncome` | `Store.Delete` with its cascade, `Store.DeleteIncome` |
| `ListExpenses`, `ListIncomes`, `ListForgivenesses`, `InsertForgiveness` | `handleForgive` |
| `DeleteForgiveness` | `handleDeleteForgiveness` |
| `DaysPass` | the clock `Editable` reads (`internal/expense/expense.go`) |
| `Abandon` | the user leaves the box; a store error; a cancelled request; the process killed |

A refused GET (404, 403) leaves the window where it was. A browser's Back to an
old box is a second window. A kill is an `Abandon` of every window, one after the
other: nothing else lives in memory. A line is its sigil, its amount (or
`Malformed`, for any line `Parse`'s own save gates refuse) and the day its date
token resolves to. `editable` holds the days still inside the edit window: `DaysPass`
takes some out at any moment, between two calls of one request too, and which days
those are is the subject of `EntryBox`, which follows one record and the box
opened on it.

*Left out.* Description, account, raw text and `updated_at`, which no rule reads;
parse errors of a form or a path (400, 404), which change nothing.

### How the other modules read theirs

*`Pages`.* `page` holds the lists read so far. `TabExpenses`, `TabIncomes`,
`PaybacksOn` and `Cost` are `tabRecords`, `bucketIncomes` and the totals of
`groupByDay`, as operators over any two lists, since the lists of one page may come
from different states. The order of the rows, wording and the preview are left out.

*`EntryDate`, `EntryText`, `EntryBox`.* A day is a triple; `Date` is Go's `time.Date`,
with the overflow of a day or a month into the next. A token is a record of its form
(a number with its sigil, whole part and decimals; a date; an account; a word) and a
line a sequence of them: which characters make a token is formatting. `Parse` is the
fold of `Take` over the line, `Units` the arithmetic of `amountMinorUnits` in `W`-bit
integers, with `Atoi`'s largest int for a number that is too long and the wrap-around
of the product; `Exact` is the reference it is compared with. In `EntryBox` the user
leaves the line of the box as it is and saves it some day.

*`LoginLimit`, `Session`, `Guard`.* `Allow` is one step: it holds the mutex. In
`Session` a response is in flight until the browser delivers it, in any order;
`session` and `lastUse` are history, what the user believes. A cookie is its payload,
its day and the secret that signed it; cryptography is outside. `Guard` has one clock
for both: the limiter's in instants, the session's in days of `DayLength` instants. A
login is `Allow`, and `Issue` only if it was permitted; the middleware never asks the
limiter; a restart forgets the attempts, and the sessions only with another key. One
browser is followed, the other clients only try passwords.

*`Updater`.* One action per command that changes a file or the service. `mv` is
atomic; `cp`, `>` and `install` may leave half a file behind when the power goes,
and what `mv` put in place is on disk. The database is there, so that systemd
starts the service. Whether a build answers `/health` is chosen once per build.

*`Publish`.* Pushes are numbered in merge order, so "built from a descendant" is
"greater". A package version is an image; pruning it takes its tags with it. A
concurrency group has one running and one waiting place, and a job that comes to
wait cancels the one there: GitHub's default, on which `NewestPushIsPublished` and the
`ExcessRunsQueue` of `Dispatch` bear. The job that is about to move `:latest` reads what
it was built from; when that read fails (`ci-cd.yml:169-170` drops the error), or the
image names no commit of the branch, the job moves it all the same. `overlooked` is
history: such a read hid a newer push from the job of an older one. In `Deploy` a digest
is a version, and a download fails once its version is pruned (`Gone`).

*`Dispatch`.* A run is a row of jobs, each on its own machine; the labels and the
branches on GitHub are all they share. It is started by the `afk` label, by any other
label (the trigger does not ask for its name, the jobs do) or by hand: its `kind`. Its
phases are `queued` (for the group of its issue; a manual run has a group of its own),
`claiming` or `refusing`, `waiting` for and being the `agent`, `parked` for and in
`finalizing`, and `done`, `failed` or `cancelled`. Of the runs queued in one group the
oldest goes first, and the next to come cancels one that is still waiting for its turn.
A label call that is followed by `|| true` may or may not take effect; one that is not,
fails the run, and so does the comment of a refusal, with `afk` taken off already. After
the claim the generated activation may fail, or find the day's credits spent
(`Activates`). `Joins` and `Leaves` are a concurrency group: one place to run, one to
wait. `safe_outputs` runs whenever the agent's job ended and threat detection succeeded,
the agent's failure included. It carries out what the agent asked for, one request at a
time (`Push`, `Unclaim`, `Review`, in any order), and may end, well or not, before or after
any of them (`FinalizeEnds`): the agent may ask for nothing, and nothing checks what it
asked for. The group it runs in is written per branch, but its expression names an output
of a job it does not need and is the same for all runs, and so it is in the model. The
slug of a branch is formatting, the agent's work a single step.

*`Dashboard`.* What a page shows is a function of one call of `gh`, the list of issues, so
it is defined on any state; `failed` are the tickets with `afk:failed`, which only this page
reads, and every action of `Dispatch` is extended by what it does to it. `headings` are the
tickets that name their blockers under a heading, as the dispatch reads them, and not on
one line, as the page does. The pull requests and the workflow runs come from later calls,
each shown as it was at its own; they are left out.

*`Backup`.* One action per command of the script that takes time; `today` may change
between any two. `day` and `snap` are the script's variables, `due` what the timer
owes, `good` and `alarm` what healthchecks.io knows, `saved` is history. A database
file is told apart by what the gate can see (`zero`, `blank`, `ledger`, `damaged`).
Assumed of the world: a run passes one midnight at most and is over before the next
03:00; healthchecks.io mails at the end of period and grace at the latest; the setup
has put a first snapshot on the remote. `rclone delete --min-age 7d` goes by the
upload's time, so what is exactly `Window` days old may be kept or not.

## 3. What is checked

All runs use two TLC workers and end within about two minutes.

| Run | Bounds | Shows |
| --- | --- | --- |
| `LedgerBook` | 1 window; 2 expenses, 2 incomes, 1 forgiveness | `Ledger` implements `RecordBook`; a forgiveness lowers the balance by its amount, and is at most that; a settlement of the balance shown leaves the odd cent at most; a box that outlived the edit window is refused |
| `LedgerRace` | 2 windows, symmetric; 2 expenses, 1 income | in every race of two requests: a payback has its parent, and keeps it; kinds and tables are never mixed; until a rowid is given again a write reaches the record its author was shown, and Carla's scope and the book hold |
| `Pages` | 1 window and a page; 2 expenses, 2 incomes | the Shared tab shows nothing of the other one (until a rowid is given again); the two tabs together cost each day what it cost; the balance is that of the rows under it |
| `EntryBox` | 20 Feb 2024 to 5 Mar 2025, every date of the years around; lines of up to 4 of 11 tokens; 11 bits | the box says what is stored; the amount is the one typed; an unchanged edit keeps an ordinary record's day, whatever day it is saved on; a typed `DD/MM` is recent |
| `Guard` | 3 clients, 2 attempts, sweep at 2, 8 instants, days of 2, age 1, 2 keys, 1 response at a time | the limiter implements `LoginBudget` and a flood is swept; a session lasts exactly as long as it is used |
| `Deploy` | 2 pushes, 1 rerun, 2 versions kept, 1 power cut, 1 failed download, any failed reads of `:latest` | unless a failed read hid the newer one, no older push is installed over it; the binary is whole; without a power cut a bad image is rolled back; a good `:latest` ends up served |
| `Dispatch` | 2 tickets, one blocked by the other, each fit or not; 3 runs, 1 of them manual | no labelling is left without a label, an answer, or a run that failed or was handed to `safe_outputs`; the dashboard never has work in progress for review; every run ends |
| `Backup` | 6 days, the 4th a 1st, window 3, 2 faults | nothing unsound is uploaded; failed nights cost no snapshot; names are true; an old newest snapshot means a mail; a missed night is made up |

Bounds on rows count the rows *ever* inserted, which is what makes rowid reuse
happen: with two expenses ever, one can be deleted and its rowid given to the
other. One window is a single user who does one thing at a time but may keep a box
open for as long as they like; two windows give every interleaving of two requests.
What the properties compare fits in these bounds: a parent and its successor in the
rowid, a payback and its sibling, an edit and the delete or add it races. One
amount is enough for odd half cents (a Shared expense of one cent), and two
paybacks of one cent over-repay it. A single day suffices in `Ledger`: that days
differ is `EntryBox`'s subject, whose calendar holds a 29 February, its anniversary, a
year's end and the last day of the edit window of each day it starts with. Its tokens
hold a zero, a cent's leading zero, a rounded third decimal, each sigil, two accounts,
two dates and two numbers that wrap around in 11 bits, one to below zero and one to a
small amount; four tokens put any of them before and after the others. In `Guard` four
windows and four days fit in the time, and three clients are one more than the sweep's
threshold. Two pushes and a rerun are three builds of two commits, in either order,
and two versions kept make the prune bite. Three runs put a labelling behind another of
its ticket, with a third, of any kind, before, between or after, or beside them on the
other ticket; and since one run may be by hand, two may be at work on one ticket. A
blocked ticket does all that one without a blocker can, since a blocker's state may be
unreadable, and so `MCDispatch` tries it alone. Six days are two windows of the prune: two
nights may fail in a row before it, across or after the month's end, and a good one follow.

`EntryBox`, `Guard`, `LateSlide`, `Deploy`, `Dispatch` and `Backup` may stop: their
time, pushes or runs are used up.

### What the code does not do

Four runs are expected to fail. Each states what a document or a comment says:

| Run | Says | What happens |
| --- | --- | --- |
| `ConcurrentForgive` | ADR-0016: never above the balance at that moment | two forgivenesses in flight are checked against the same balance |
| `StalePaybackBox` | `server.go:375`: a payback whose parent is gone is a 409 (`GoneParentIsRefused`) | the parent's rowid has passed to the next expense, and the payback goes to it |
| `UnreadableDay` | `parse.go:23`: a line without errors is safe to store | `32/12/9999` and `0/1/0000` are stored as days of five digits or below zero, which no read can parse: every list fails from then on |
| `LateSlide` | `guard.go:136`: logout clears the cookie, ending the session | the response to a page asked for before the logout arrives after it, and the middleware has put a fresh cookie on it |

A module's type invariant is a run's property where a proof or a mutant needs it
(`Ledger`, `Dispatch`); the others state the types of the variables for the reader, and
those of `EntryBox`, `Pages`, `LoginLimit`, `Deploy` and `Backup` are proved.

Further claims are stated beside the others and are not part of a run that passes;
TLC refutes each within seconds under the bounds given:

| Property | Says | Refuted with |
| --- | --- | --- |
| `EditKeepsPayerAndTab` | ADR-0015: an edit keeps the record's payer and kind | `MCLedger`, 2 windows, 2/0/0: an edit in flight overwrites the record that got the rowid |
| `SettlesTheBalance` | CONTEXT.md: one-tap "Settle up" | `MCLedger`, 1 window, 2/0/0: an odd half cent leaves one cent the other way |
| `SharedPageIsScoped` | CONTEXT.md:20: Carla "sees only the Shared tab" | `Pages.cfg`: a rowid is given again between the lists, and a private payback shows under the old Shared expense |
| `EveryIncomeIsShown` | ADR-0015: the two tabs list every income | `Pages.cfg`: a payback of a settlement, by address or by a reused rowid, is in neither tab |
| `EditKeepsDate` | ADR-0008: every editable item renders drift-free | `EntryBox.cfg`: 29 February becomes 1 March; a future day becomes last year's |
| `ShortDateIsPast` | `parse.go:274`: the most recent occurrence at or before today | `EntryBox.cfg`: with a month of 13 or more, or a day past the year's end, a year back is not enough |
| `AmountNeverWraps` | `parse.go:229`: converts to minor units | `EntryBox.cfg`: a number of more than W bits is stored as a small amount |
| `BadImageIsRolledBack` | ADR-0011:11: if `/health` fails it rolls back to the previous binary | `Updater`'s `FairSpec`, 2 images, 1 power cut, no outage: after a cut behind line 35 the binary on trial is the one to roll back to, or its digest is in `failed.digest` and it stays |
| `MoveRefusesToGoBack` | `ci-cd.yml:122`: the move step refuses to go backwards | `Publish`, 2 pushes: the read of `:latest` fails, and the older push's job goes on to move it (line 179: "fail toward publishing") |
| `LatestIsNewestBuild` | `ghcr-cleanup.yml:5`: `latest` sits on the newest build | `Publish`, 2 pushes, no rerun: the older push is built last |
| `NewestPushIsPublished` | `ci-cd.yml:14`: a push publishes because code changed | `Publish`, 3 pushes: an older push takes the newest one's waiting place |
| `NoTicketTwice` | `system.md:531`: the per-issue group prevents the same issue being dispatched twice | `Dispatch`, 1 ticket, 2 runs, 1 of them manual: a run by hand has a group of its own, and works on a ticket beside the run of its label |
| `ExcessRunsQueue` | `system.md:538`: excess runs queue | `Dispatch`, 3 tickets, 3 runs: a third run cancels the one waiting for the agent's place, whose ticket stays `afk:running` with nobody behind it |
| `LabelIsNotLost` | `system.md:25`: an agent wakes on the label | `Dispatch`, 1 ticket, 3 runs: the event of another label cancels the run of `afk` that waits in the issue's group, and the ticket stays `afk` with no run to come |
| `ClaimIsHeld` | `system.md:184`: `afk:running` means a run in progress | `Dispatch`, 1 ticket, 1 run: the agent is skipped because the day's credits are spent, or asks for nothing; the run ends well and the label stays |
| `OneBranchPerSpec` | `system.md:248`: tickets under one spec converge onto one branch | `Dispatch`, 2 tickets of a spec, 2 runs, `BranchLines = {"none"}`: no ticket without a `Branch:` line ever opens the shared branch (`system.md:517` calls this emergent) |
| `FinalizeWaitsForItsBranch` | `afk.md:113`: finalize is serialized per resolved spec branch | `Dispatch`, 3 tickets, 3 runs, `BranchLines = {"own"}`: the group's branch is empty (`afk.lock.yml:1808-1820`), so runs of any branch wait for, and cancel, each other |
| `BlockedTicketWaits` | `system.md:292`: a blocked ticket is skipped | `Dispatch`, 2 tickets, 1 blocker, 1 run: a blocker's state that cannot be read counts as closed |
| `FailedRunIsShown` | `system.md:175`: `afk:failed` marks a run that failed | `Dashboard`, 1 ticket, 1 run: nothing in the repository sets the label, and a failed run's ticket stays in the in-flight panel |
| `GraphShowsBlockers` | `render.go:66`: an edge for a blocker that must close first | `Dashboard`, 2 tickets, 1 blocker, 2 runs: the page does not read blockers under a heading |
| `DashboardNeverDrifts` | `main.go:117`: the branch is what a run would use | `Dashboard`, 1 ticket of a spec, 1 run: the page gives `Decide` no spec |
| `LedgerNeverStartsEmpty` | `life-ledger.service:5`: a missing DB never silently starts empty | `Backup.cfg`: the night's `sqlite3` makes the file, and the assertion of the service holds |
| `NoBlankUploaded` | `backup.sh:36`: the gate is against an "empty or unmigrated DB" | `Backup.cfg`: a file migrated and without a record passes |
| `MonthEndsAreKept` | ADR-0014: month-ends forever | `Backup.cfg`: a run of the 1st that fails, or is made up on the 2nd, leaves the month without one |

Unless the table says more, those of `Dispatch` and `Dashboard` take no manual run, no
parent spec and one cleared `task` label.

Some of the properties that hold say less than their name: `WritesWhatWasSeenUnlessRecycled`,
`CarlaStaysInSharedTabUnlessRecycled` and `KeepsTheBook` end with the first rowid given
again; `AmountIsTheOneTyped` is about numbers that fit an `int`, and leaves those that wrap
around to `AmountNeverWraps`; `RestsOnCheckedImage` is about an updater whose power stays on,
and leaves a cut between the swap and its record to `GoodLatestIsServed` and
`BadImageIsRolledBack`; and a night's run that is cut halfway is not made up
(`NightIsMadeUp` is about a night whose run never began), which only
`RecentOrAlarmed` notices. `NoTicketIsForgotten` accepts a run that was handed to
`safe_outputs` as an answer: the code promises no more, and whether its ticket shows one
is `ClaimIsHeld`.

ADR-0015:15 says that odd cents "round half up", while `balance.go` rounds half away
from zero, as its own comment says; `Rounded` follows the code.

Every property of a passing run has a mutant in `PROJECT.json`: a definition of the
code changed the way a slip would (a missing cascade, an edit window not asked
again, a sweep that renews live windows), defined before the original and marked
`Bug`.

*Fairness.* `Updater` and `Deploy` assume weak fairness of the script's steps: the
timer fires every five minutes for as long as the guest is up, and every command of
the script ends (`curl` and the twenty tries are bounded). Nothing is assumed of
pushes, jobs, failures or power cuts. `Dispatch` (`DashFairness`) assumes that while some
job may move, one does: GitHub starts a job whose group is free, and stops one at its time limit.
`EveryRunEnds` holds once nobody labels any more, which `MaxRuns` brings about.
`Backup` assumes that power comes back, that systemd starts what the timer owes and
that a command of the script ends; no day has to come and nobody has to restore.
Everything else is a safety property: a user may leave any box for ever, and nothing
in the ledger waits for a handler to end.

## 4. What is proved

Every theorem is for any value of the constants, from the named assumption of the
component's module (bounds are naturals, amounts are positive, a prune window has
two days or more). Where a theorem has one more hypothesis it is in its statement,
and it is there because TLC refutes the property without it (section 3); the two of
`EntryProofs` only say what a line and a day are.

### The ledger

`LedgerProofs`, from `EntryAssumption` and `LedgerAssumption`:

- `TypeCorrect`: `Spec => []TypeOK`, one lemma per group of actions. The leaves
  are facts about tables (`Put`, `Drop` and overwriting keep them) and about what
  `Submit` builds (`SubmittedRows`: a line that is not refused gives a row).
- `IntegrityCorrect`: `Spec => []ReferentialIntegrity`, which is inductive with
  `TypeOK`: the foreign key guards the insertion, the cascade the deletion, and
  an update keeps the link.
- `KindsCorrect` and `EditKeepsKindCorrect`. `ExpenseKinds` is not inductive: what
  is stored was pending in a window before, and an update's row was built from the
  row loaded. The strengthening is

      KindsInv == ExpenseKinds /\ \A w : IsPendingKind(windows[w])

  where every pending row is legal and every pending update is of its own kind.
  `EditedExpense` and `EditedIncome` are the heart: the kind rules of `Submit` send
  an edit back to the table it came from, with a legal row if the record was one.
- `ParentCorrect`: `Spec => PaybackKeepsParent`, a step property, from `TypeOK` and
  `ReferentialIntegrity`. `IsNextRowid` never gives a rowid in use, so a payback's
  parent cannot be replaced while the payback lives, and the cascade takes the
  payback with it.

`BookProofs` follows a record from the moment a window is shown it to the moment it is
written. `Alone` says that there is one window; `recycled` that a rowid has been given
a second time. What a window remembers of a record stays true in either of two
cases, for two reasons: a lone window is the only one that deletes; with others, a
rowid not given again is either still the record's or nobody's. Hence

    KnowInv == UnlinkedSettlements /\ (Alone \/ ~recycled => \A w : Knows(windows[w]))

where `Knows` is `Seen` (the rowid the window holds is that record's, or free),
`Agrees` (a pending update keeps kind, payer and tab; a looked-up income has the link it
had) and `Scoped` (what Carla is about to change is in the Shared tab). It needs
`AllStamped`: no rowid is above the count of rows ever entered, and no two rows have one
`createdAt`.

- `SeenCorrect`: `Spec => []WritesWhatWasSeenUnlessRecycled`, and `WritesWhatWasSeen` for
  good when there is one window; `CarlaCorrect`,
  `Spec => []CarlaStaysInSharedTabUnlessRecycled`.
- `BookCorrect`: `Spec => KeepsTheBook`, for any number of windows. The mapping indexes
  the tables by `createdAt`; `PutByCreation`, `DropByCreation` and
  `OverwriteByCreation` say that an insertion, a cascade and an update of the tables are
  those of the book, and with `KnowInv` the row that changes is the one the book's
  action names.
- For one window (`ASSUME Alone`): `FrozenCorrect`, `Spec => OldRecordsAreFrozen`;
  `ForgivesCorrect`, `Spec => ForgivesAtMostTheBalance`; and `BookSpecCorrect`,
  `Spec => BookSpec`, the whole refinement, forgivenesses and rowids given again
  included. The last two need `FreshLists`: what the forgiveness handler has listed is
  what is stored. `ForgivesCorrect` is an equation, the amount recorded being exactly what
  the balance falls by: a forgiveness moves the rounded figure, whatever the half cents.
  Two windows forgiving at once refute both (`ConcurrentForgive`).

`LedgerProofs` ends with what those need of the sums. A sum is a fold, defined by `CHOOSE`
of a function that satisfies an equation. `SumsUnique` and `SumsExist` show there is
exactly one, by taking a smallest set on which it would be something else (subsets of
a finite set are well founded: no induction theorem is instantiated). From there a
`Total` may be split, emptied, compared or carried along a bijection, and
`OwedRekeyed` says that Carla owes the same whether the tables are read by rowid or by
`createdAt`.

`PagesProofs`, about a page read in three lists between other steps:

- `PagesTypeCorrect`, and `ScopedCorrect`, `[]SharedPageIsScopedUnlessRecycled`, from
  `ListedInv`: an expense that was listed is the one still under its rowid, and as
  shared as it was then, by `Agrees`.
- `BannerCorrect` and `DaysCorrect`: `[](Alone \/ ~recycled => BannerAgreesWithRows)`, and
  the same of `DaysCostWhatWasPaid`. Both are about sums over lists of different
  moments. What they need is that no settlement has a payback (`Unlinked`), which does
  *not* hold once a rowid is given again; `TabCosts` then splits the net cost of an
  expense over the tabs, and `DaysAddUp` adds it over a day.

### The entry line

`EntryProofs`, from `EntryTextAssumption` (an `int` has some bits; that half of `2^W` is a
natural is part of it, since the provers know nothing of powers). Two hypotheses say
what a caller gives: `LinesAreTyped`, that what is entered is a line of tokens, of any
number and in any order, whose numbers are naturals (those `MCEntryBox` tries are); and `FirstDay \in Days`, that the
system starts on a day of the calendar.

- `BoxCorrect` and `AmountCorrect`: `[]BoxSaysWhatIsStored` and `[]AmountIsTheOneTyped`, from

      TextInv == /\ typed # <<>> => the text is what Parse makes of typed
                 /\ box # <<>>   => box is the EntryLine of the text and the day

  `Parse` is a fold, hence a `CHOOSE` again: `ParseSteps` turns it into one `Take` per
  token, and `Climbs` carries a fact from each position to the next. Three facts go
  along a line: what is read so far is well formed (`TakeIsParsed`), its amount is the
  first positive one (`TakesTheFirst`), and the words of a canonical line pile up in the
  description (`TakesTheWord`), since the amount in front of them is positive and so no
  number among them is taken for it. `AmountIsExact` is the arithmetic: nothing wraps
  around when the number fits.
- `RecentCorrect` and `EditCorrect`: `[]ShortDateIsRecent` and `EditKeepsOrdinaryDate`, for
  every day of every year, from `today` and `stored` being `Days`. `DayIs` says that every
  number is that of one date on the calendar (an era, a year of it, a month: `YearFits`,
  `MonthFits`), `InYear` and `OneYear` where a year begins and ends, `RealOrder` that dates
  of one year are in the order of their months and days, and `OtherYear` that they are so
  in any other year, but for a 29 February. `ShortReadsBack` puts them together: a day
  inside the edit window is the only one its `DD/MM` can mean.
- `EntryTypeCorrect`: whatever the numbers of a date token, the day stored is one of the
  calendar (`ResolvedDays`). That it can be read back is another matter (`UnreadableDay`).

### The login guard

`GuardProofs`, from `LoginLimitAssumption`, for any `Clients`, limit, window, threshold and
time bound:

- `TypeCorrect`: no count passes the limit and no window ends beyond the horizon.
- `BudgetCorrect`: `Spec => BudgetSpec`, the whole refinement, step by step. The
  sweep is the point (`SweepKeepsLive`): it drops elapsed windows only, so the live
  windows, which are all that `LoginBudget` sees, change by the attempt alone
  (`FreshWindow`, `SpentWindow`, `SameWindows`), and by `Tick` as `Lapse` says.
- `FloodCorrect`: `Spec => FloodIsSwept`, from the finiteness of the map
  (`FiniteStep`): a map below the threshold grows by one client at most, and a map
  at the threshold is left with live windows only (`SweptToLive`).
- `GuardBudgetCorrect`: both hold of the composed system, since every step of `GuardSpec`
  is one of the limiter's or leaves it alone.
- `LastsCorrect`: a session lasts exactly as long as it is used, for a browser with one
  response on its way at a time (`MaxInFlight = 1`: with two, an older cookie may be the
  last delivered). `CookieInv` relates the cookie to what the user believes, and
  `ResponsesInv` the cookie in flight to what he will believe once it arrives, whatever
  becomes of the key meanwhile.

### The deployment

`DeployProofs`, from `DeployAssumption`: `TypeCorrect`, `BinaryCorrect`, `RestsCorrect`,
`LatestCorrect` and `ForwardCorrect`. The invariant is

    IInv == PublishInv /\ FilesInv /\ ServiceInv /\ ForwardInv

`PublishInv` is about the workflows alone: the group lets one job build, check and move,
so the version it built is the last there is and what it saw of `:latest` still holds
when it moves it, unless the read failed. `LatestCorrect` and `ForwardCorrect` hold until
a failed read has hidden a newer push (`overlooked`). Two of its parts are there for the
others: a run never builds more
often than it is started (`BuildsInv`, which bounds the versions), and `:latest` is
missing only after a prune took it (`tagPruned`). `FilesInv` is why a torn file is harmless: it is
written anew before it is used. `ServiceInv` follows the script: as long as the power
stays on, a checked image runs or is kept to go back to. `ForwardInv` connects the two:
what the script has downloaded was once `:latest`, and for as long as the registry
has it, `:latest` is on something as new (`Behind`).

### The dispatch and the dashboard

`DispatchProofs`, for any tickets, labels, branch lines, blockers and numbers of
runs, from `DispatchAssumption`: `TypeCorrect`, `ForgottenCorrect` and, of the page,
`WorkCorrect`. `NoTicketIsForgotten` is not inductive: a run that is about to strip `afk`
must know that no other labelling of its ticket rests on that label. The invariant is

    IInv == /\ TypeOK /\ OtherIsIdle /\ OneInGroup
            /\ PendingIsNewest /\ OlderFirst /\ NoTicketIsForgotten

A labelling is `Pending` while its run has not decided, or was cancelled before it could. Its
ticket is under `afk`, so nobody labels it again and it is the newest (`PendingIsNewest`);
an older run of the ticket is at work only while it is pending (`OlderFirst`), so whoever
takes `afk` off is the newest itself or, `OneInGroup`, not in the way. Runs by hand are
outside the group; where one is, it answers for the ticket (`ByHand`).

`StepFacts` is what every action does, proved action by action: to the runs (`RunsStep`: a
new one waits, a run gets its turn only when its group is free, phases go forward) and
to the labels (`LabelStep`: who takes one off, and that he answers for a ticket left
without any). The rest follows from those two.

A step of the dashboard is one of the dispatch or leaves it alone (`RunsAsDispatched`), so
the dispatch's invariant holds there. `WorkIsMarked` strengthens `WorkIsNotForReview`: a
ticket that runs of its labels work on carries `afk:running`, which only the one of them
that has got to `safe_outputs` takes off.

### The backup

`BackupProofs` proves, for any calendar of `MaxDay` days, any `Firsts`, a prune
window of two days or more and any number of faults, from `BackupAssumption`, the six
invariants of the run: `TypeCorrect`, `SoundCorrect`, `DailiesCorrect`,
`LastDaysCorrect`, `NamesCorrect` and `RecentCorrect`. None but the first is inductive:
what reaches the remote was decided some commands earlier. The strengthening is

    IInv == TypeOK /\ Run /\ Remote /\ GoodIsKept /\ AlarmInTime

where `Run` is what the script in progress knows (the run passed one midnight at most,
so its snapshot is of today or yesterday; past the gate it is sound; once uploaded it
is on the remote; `$day` names it truly), and `GoodIsKept` that the night of the last
success ping, or one after it, is still there. There is a lemma per action;
`MonthsFollow` is the fact about the calendar that names a month-end.

### Only model-checked

- Liveness, which needs fairness and `ENABLED`: `GoodLatestIsServed`, `NightIsMadeUp`,
  `EveryRunEnds`.
- `SettlementLeavesAtMostACent`, and what the table of section 3 refutes.

## 5. What is left, in order

1. The migrations of an older database: the four scripts are run once, in order, by
   goose, each in a transaction of its own.

### Not modelled

Templates, style and wording, and the order of rows on a page; the live preview, which
changes nothing and which no save reads; the comments, run links and HTML of the
dashboard; the characters of tokens and of slugs; the commits of a branch; cryptography;
`hashpw`, which prints a hash; provisioning, which is run once by hand. A retried add
(the redirect was lost) is a second record: nothing in the code tells it from a second
purchase.
