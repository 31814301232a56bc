# LIMS: a verification project

TLA+ models, TLC runs and TLAPS proofs for the laboratory information
management system in this repository: a Django backend (`src/backend`) with a
JSON API, an older server-rendered channel over the same tables, and a Next.js
frontend (`src/frontend`). A factory user commissions experiments on wafers, a
manager approves, the laboratory receives the wafers, batches them into WIPs,
dispatches the WIPs to machines and records results.

Everything here is translated from the source; documents are quoted only where
the code disagrees with them.

- [The system](#the-system)
- [The modules](#the-modules)
- [What the runs check](#what-the-runs-check)
- [Bounds, symmetry, fairness](#bounds-symmetry-fairness)
- [Where code and documents disagree](#where-code-and-documents-disagree)
- [What is proved](#what-is-proved)
- [What is not modelled](#what-is-not-modelled)
- [Noted while modelling](#noted-while-modelling)
- [Plan](#plan)

## The system

| Component | State | Operations | Interacts with |
|---|---|---|---|
| Commissions (`apps/commissions`) | requests, their experiment set, samples (wafers) with their own selections, approval log | create, patch, submit, approve, return, reject, ship, cancel, close, delete draft; receive, reject receiving, report lost, void, return a sample | creates the progress rows of the laboratory; is completed by its cascades |
| WIPs and dispatches (`apps/wip`) | WIPs and their wafers, dispatches, results, progress rows with verdicts | create, add samples, dispatch, complete, abort; start, unload, record result, report exception, redispatch, abort a run; the automation endpoint | reads requests and the catalogue; moves samples and requests |
| Catalogue (`apps/experiments`, `apps/equipment`) | experiment types, recipes, machines with capacity, status and capabilities | create, update, soft-delete | guards of requests, WIPs and dispatches |
| Timer and sweep (`wip/services.py`) | `auto_complete_at` of a running dispatch | `roll_auto_complete_at`, `finalize_due_dispatches` at the head of each status-reporting read | ends runs that nobody unloads |
| Legacy web channel (`apps/web/views.py`) | none of its own | a second set of handlers for most of the above | the same tables, with weaker guards |
| Accounts (`apps/accounts`) | users, roles, refresh tokens | login, refresh with rotation, logout | role checks of every handler |
| Reports (`apps/reports`) | none | utilisation, results of the runs, statistics of the requests, trend | reads dispatches, progress rows and requests |
| API client (`lib/api/index.ts`) | the two tokens and the profile in localStorage, `refreshInflight` per tab | `call`, `doRefresh`, login, logout; renames the statuses | the JSON API |
| Areas (`app/`, `lib/navigate.ts`) | the address, the page that is mounted | layouts that admit by the stored profile, login form, sign-out, navigation, menus | the client, the pages |
| Pages (`components/`) | what each page last read | cards, tabs, tiles, links and buttons computed from it; one call per button, then a re-read; a timer on the page of a running dispatch | the client |
| Catalogue forms | what was loaded when the form was opened | one call, or two for a machine | the client |

Every handler that changes something runs in one database transaction
(PostgreSQL, READ COMMITTED): it locks the row it is about to move
(`select_for_update`), re-reads it, looks the action up in a transition table,
writes the target, and runs the cascades before it commits. Nothing runs in the
background; the only clock is `auto_complete_at`, read by the sweep. Nothing is
polled: a page is read when it is opened and after an action of its own, and
the page of a running dispatch sets one timer.

What makes the system hard to get right:

- **Cascades are the only doors.** A request enters `in_progress` and
  `completed`, a wafer `completed`, and a WIP (usually) `completed`, only
  because some other handler's cascade noticed that its condition had become
  true. A check missing from one of the paths strands the row for good.
- **A wafer's experiments live in three tables** (the request's set, the wafer's
  own selection, the progress rows), read by initialisation, WIP validation and
  wafer completion separately, while patches rewrite the first two.
- **A run can be ended by four actors**: the operator, the automation endpoint,
  the browser's timer and the sweep.
- **Batches overlap.** A wafer may be in several WIPs, even of one type; a WIP
  may hold wafers of several requests, may grow while it is on a machine, and
  may be dispatched again after it has completed.
- **Cancellation and retirement do not cascade.** Requests are cancelled and
  experiment types retired under work that is going on.
- **Some reads are not locked**, and locks are not taken in one global order.
- **Every page decides for itself** on renamed and merged statuses what a row's
  progress is, which tab it belongs to, which buttons it offers and where its
  links lead, and a page may have been read, in parts, some time ago.
- **A session lives in two places**: tokens and profile in the browser, rows at
  the server, changed by calls that are lost, late or repeated.

What makes each component correct:

- *Requests* are never stranded and never completed early; what was asked for
  cannot change once it has been submitted; their owner sees a fixed plan,
  verdicts that only accumulate, and completion in the step that settles the
  last wafer.
- *Wafers* are completed only when measured for the whole selection, and are
  never left in the laboratory with nothing to do.
- *Batches* are on one machine at a time and are closed when their work is
  done; every wafer in a batch gets its verdict from the run.
- *Sessions* have one row, present no token twice, and every call settles.
- *Reports* count every instant of a machine once, and every verdict once.
- *Pages* agree with each other and with the server: what is offered is
  accepted, what can be done is offered, links land, tiles count what their
  list holds.

`PROJECT.json` lists the components, the hazards with their lines, and for each
definition the lines it models.

## The modules

| Module | Models |
|---|---|
| `LimsStatus` | the status enums and both `state_machine.py` tables: records from an action's name to its sources and target |
| `Catalog` | `experiments/api.py`, `equipment/api.py`; `EditedTypes` and `EditedEquipment` are the rows that staff edit during a run |
| `Commissions` | `commissions/api.py`, `commissions/services.py`: one action per handler, with its cascade |
| `Wip` | `wip/api.py`, `wip/services.py`: one action per handler, with its cascade; the timer and the sweep |
| `Lims` | the composition of these, and its properties |
| `RequestPromise` | the abstract specification of one request |
| `LimsInv`, `LimsSafety` | the inductive invariant, the proofs, and that `Lims` refines `RequestPromise` for each request |
| `WebChannel` | the handlers of `web/views.py`, beside those of the API on the same tables |
| `Transactions` | the handlers at the grain of SQL statements, with row locks and READ COMMITTED visibility |
| `TransactionsProofs`, `CascadeProofs` | its proofs: what the row locks give for single rows, that the cascades miss nothing, and over what calls may wait for each other |
| `Session`, `SessionProofs` | `lib/api/index.ts` (`call`, `doRefresh`, login, logout) and `accounts/api.py` as one system over a lossy network |
| `Shell` | the login page, the layouts that admit or redirect, sign-out; extends `Session` |
| `Reports`, `TrendChart` | the utilisation reports over the life of the runs; the results list, the quick ranges and the drawn trend |
| `ReportsProofs` | that busy time is counted once, that the past does not change, that the reports add up and fit their chart |
| `Pages` | what pages and lists show and offer, as functions of the tables |
| `Screens` | pages as clients: opened, read in parts, pressed, answered or not, with the timer; extends `Pages` and `Lims` |
| `ClientProofs` | that the pages are clients of `Lims`, and what their reads by parts show |
| `CatalogForms` | the forms over the catalogue, with the edit of a machine in two calls |
| `ChannelProofs` | what survives when the legacy pages run beside the API, and the form of a machine |
| `Routes` | from a link to an address, and from an address to the page drawn and the menu item marked |
| `LabViews`, `RequestViews`, `Site` | the cards and links of every page of the three roles; `Site` is all of them at one moment |
| `SiteProofs` | that the pages agree, for every value of the constants |
| `MC...` | instances: symmetry, and for `Transactions` the calls that race and the states they start in |

**State of the core.** A table is a function from ids to what is modelled of
the row: `reqStatus`, `sampleStatus`, `wipStatus`, `dStatus` are status
columns, with `"none"` for an id that has no row; `owner`, `wipSamples`,
`dWip`, `dEquip` are foreign keys; `reqTypes`, `chosen`, `capable` are the
many-to-many tables; `sesStatus`, `sesVerdict`, `sesDispatch` are the columns of
`SampleExperimentStatus`. `results` is the set of dispatches that have an
`ExperimentResult` row (it is one-to-one). `dTimer` abstracts
`auto_complete_at` to unset, in the future, and elapsed.

**Steps of the core.** A handler is one step: the lock it takes first and the
transaction around it make it appear so to every other handler that locks the
same row. Each action contains all that the transaction writes: `ReceiveSample`
moves the wafer, runs `check_all_samples_received` and, when that fires, makes
the progress rows; `UnloadDispatch` completes rows, rolls verdicts, completes
wafers and checks their requests. The cascade operators are given the statuses
the handler has already written, because the code saves before it checks.
`finalize_due_dispatches` commits one transaction per due dispatch, so
`FinalizeDueDispatch` takes one dispatch. `complete_dispatch_run` runs the
wafer cascade twice when its WIP finishes; the second finds nothing
(`CascadeIdempotent` in `LimsSafety`), so the action runs it once.

**Where a handler is not one step.** `create_wip` validates its samples before
its transaction, `delete_draft_request` checks a status it has not locked, the
cascades count rows that others are about to commit, and the unload reads the
wafers of its batch. `Transactions` models this: a call is a program of
statements (`Lock`, `Refer`, `Update`, `Move`, `Set`, `Check`, `Commit`), a
statement sees what is committed when it starts and what its own transaction
has written, and locks have PostgreSQL's three modes that matter here (`FOR KEY
SHARE` of an insert's references, `FOR NO KEY UPDATE`, `FOR UPDATE`). A circular
wait is broken by refusing one of the calls. `NoConflictingWrites`,
`CascadeSeesAll`, `LastRunCompletesWafer`, `BatchGetsVerdict`, `RunEndsOnce` and
`OneActiveRun` say that what the core takes for granted survives at this grain,
with two exceptions: the stale write of `create_wip` (a finding), and the draft
that is deleted after it was submitted.

**The refinement.** `RequestPromise` is the life of one request with the
laboratory hidden: its status, its types, the plan of each wafer, what is
reported, measured and disposed of. `Lims!Promise(r)` instantiates it with the
tables reduced to that; `Promised` says that each step of `Lims` is a step of
the abstract request, or leaves it alone, for every request at once. It is
checked as a property and proved.

**Pages.** `Pages`, `LabViews` and `RequestViews` are functions of the tables:
a page read at this moment. They cover the renaming of the statuses in
`lib/api/index.ts`, the tabs of the lists, the cards and tiles of the
dashboards, the progress drawn for a request and for a wafer, the buttons with
their conditions, and the links. `Screens` adds what a tab does with them: it
shows what it last read (`seen`), reads by parts (`left`, `got`), offers what
`seen` says, calls the API, and reads again after a call that succeeded; a call
may be carried out and its answer lost. `Site` compares what the pages of the
roles tell of one batch, run or wafer.

**Data left out.** Who calls (some user of the role always can), titles, notes,
urgency, timestamps but those of the reports, the approval log (append-only,
read by nobody's guard), which recipe of a type a dispatch runs, and the values
of results. Ids of deleted draft samples may be taken again: nothing else
refers to a sample of a draft (`LabWorkNeedsRequest`).

Some definitions have a *mutated form* before them: the definition with a
plausible bug in it (a lost early return, a missing status, a lost filter). They
are not part of any specification; each shows that a property of a run notices
the bug.

## What the runs check

`CHECK_DEADLOCK FALSE` is set everywhere: with finite sets of ids the
laboratory's work does come to an end, the calls of a race end, and the clock
of the reports stops; then nothing is left to do. Progress is stated as liveness
(`ShownRunEnds`, `CallsSettle`, `RedirectsSettle`) or as a state that always has
a way on (`NobodyIsStuck`, `WaferCanBeWorked`).

| Run | Instance | Checks | It shows |
|---|---|---|---|
| `lims_batches` | 1 request, 2 wafers, 2 types, 2 WIPs, 2 dispatches, 1 machine of capacity 2 | `NoStrandedWip`, `CountsAgree`, `VerdictsCounted`, `BatchIsLinked`, `OverviewsAgree`, `ProgressForward`, `PhaseNeverGoesBack` | overlapping batches, re-runs, aborts and late joiners leave no batch open, and the owner's, the manager's and the laboratory's pages and the report of the runs tell the same of them |
| `lims_requests` | 2 requests, 2 wafers, 1 type, 2 WIPs, 1 dispatch, capacity 1 | `Inductive`, `NoStrandedRequest`, `FlowsAgree`, `LinksLand`, `LockedAfterDraft`, `Promised` | the inductive invariant; requests sharing batches live as promised; every link leads where it says; the three drawings of a request's progress agree |
| `catalog` | the catalogue starts empty: 1 machine, 2 types, 1 request, 1 wafer, 1 WIP, 1 dispatch, the forms and the legacy pages | `SelectionWithinRequest`, `SavedIsStored`, `DispatchFormMatches` | retiring types, recipes and machines under work; the two calls of the machine form; the form of a dispatch against the gates of the server |
| `channels` | both channels; 1 request, 2 wafers, 1 type with its recipe, edited during the run, 2 WIPs, 2 dispatches | `CompletedWaferMeasured`, `WaferCanBeWorked`, `VerdictTraceable` | the weaker guards of the legacy pages do not break what the API relies on for wafers and verdicts |
| `races` | any two of 27 calls about one request and its batches, any three about a run or about a request, from the states of `MCStartDbs` | `NoConflictingWrites`, `CascadeSeesAll`, `OneActiveRun`, `CirclesOnlyOverBatches`, `LastRunCompletesWafer`, `BatchGetsVerdict`, `RunEndsOnce` | the row locks make the cascades see each other; a circular wait arises only over wafers or requests, never over a run, a WIP or a type |
| `races_stale` | two `create_wip` and an `abort_wip` | `WafersMoveLegally` (violated) | see below |
| `session` | 1 tab, 2 calls, 2 token pairs, the pages of the three roles | `SessionInv`, `OneRowPerSession`, `NoTokenPresentedTwice`, `ScreenFitsProfile`, `CallsSettle`, `RedirectsSettle` | the single-flight refresh keeps a rotation without locks sound; sign-in, sign-out and redirects fit the stored profile |
| `session_logout` | 1 tab, 1 call, 2 pairs | `LogoutRevokes` (violated) | see below |
| `reports` | 2 runs, 2 machines, 2 days of 3 ticks | `BusyTimeIsExact`, `ReportsAddUp`, `TrendWithinScale`, `PastIsFixed` | busy time is counted once however runs touch, nest and are cut by days; the reports add up; days that are over stay as they are |
| `screens` | 1 tab with all pages, 1 request, 1 wafer, 2 types, 2 WIPs, 2 dispatches | `OfferedIsAccepted`, `NobodyIsStuck`, `ResultsAreShown` | the conditions of the buttons fit the guards of the server in every state that the pages can bring about |
| `screens_runs` | 2 tabs, one with the page of the run, 1 lost call, with fairness | `ShownRunEnds` | a run that is shown as running ends by the page's timer and the sweep, nobody pressing anything |
| `screens_close` | as `screens`, 1 type, 1 WIP, 1 dispatch | `MarkCompleteCloses` (violated) | see below |

The other safety properties of `Lims` (`TypeOK`, `OneActiveDispatch`,
`CompletedRequestSettled`, `LabWorkNeedsRequest`) are conjuncts of `Inductive`,
those of `Session` of `SessionInv`.

Three properties say what they leave out. `OfferedIsAccepted` is about the pages
that a list leads to, in the state in which they are read, and says of two buttons
that they are refused wherever they are offered: "Mark Complete" (the finding of
`screens_close`) and "Abort WIP", which reaches no handler (below). `NobodyIsStuck`
does not follow a returned request or one with a wafer that was refused at
receiving, for which the pages offer no way on. Batches are aborted by the legacy
pages and other clients of the API only, which `Screens` leaves out. `OverviewsAgree`
sets apart the manager's tile of the work in progress, whose list opens on
another tab.

## Bounds, symmetry, fairness

**Bounds.** The sets of ids bound every module: no action of the core has a
counter. Two wafers with two types give every selection (one, the other, both,
inherited), wafers with different selections in one request, and batches that
overlap in a wafer but not in a type. Two WIPs give a wafer in two batches, of
one type or of two. Two dispatches give a run and its replacement on one WIP
(redispatch, abort and retry, a run after a completed one), and two runs side
by side. Two requests give a WIP across requests and a wafer freed by one and
taken by the other. `Verdicts` is one value where no property distinguishes
pass from fail: `random_verdict` influences nothing else. The proofs cover every
instance.

- `MaxPairs` bounds the token pairs the server issues. Two is a login and one
  rotation, or two logins; what comes of longer chains is covered by
  `SessionProofs`, for every number.
- `MaxLost` bounds the reads and the timer's calls that are lost; calls behind
  buttons may be lost any number of times. It is 0 where pages are compared with
  the server, 1 in `screens_runs`: with an unbounded number nothing could be
  promised of a page that is not reloaded.
- `FirstPages`, `OtherPages` are the pages that a tab has. In `screens` one tab
  has all of them, as the sole actor: what others do in between is what the same
  tab does on other pages (the legacy pages and
  other clients of the API are in `WebChannel` and `Lims`). In `screens_runs` a second tab keeps the page of the
  run while the first does everything else.
- `EditedTypes`, `EditedEquipment` keep the catalogue as seeded where they are
  empty. Everything is edited in `catalog`, the type and its recipe in `channels`.
- `Quiet` in `CatalogForms`: forms are used before the first request is filed;
  the calls they make do not look at requests.
- `Days = 2`, `DayLength = 3`: the smallest lengths with an instant inside a day
  that is neither its begin nor its end, runs across midnight, and days before
  and after. The chart's last 30 days are then cut to the days there are.
- `Races`, `StartDbs` list which calls are made side by side and in which state
  of the tables: for each cascade the states in which it is one step away.

**Symmetry.** Ids are model values. A run uses the permutations of the sets that
start alike and that no definition tells apart; the runs with a liveness
property use none.

**Fairness.** No user is assumed to press anything.

- `ShellFairness`: the browser settles every fetch, with an answer or a network
  error, its event loop runs what waits for it, and React runs the effects of
  what it has mounted. Expiry of tokens, visits and sign-ins are not fair.
- `ScreensFairness`: the browser answers what a page has asked for, fires the
  timer that a page has set, the endpoint sweeps before it answers a read, and
  time passes. Weak fairness is enough: a due run stays due until somebody ends
  it, and a page's read stays under way until it is answered.

## Where code and documents disagree

| Run | Says | Does |
|---|---|---|
| `races_stale` | `wip/services.py:187`: "callers always pre-validate via validate_samples_for_wip so the transition is valid in practice" | `create_wip` validates without a lock, outside its transaction; a wafer that another call has moved on in between is written back to `processing` |
| `session_logout` | `accounts/api.py:48`, `accounts/models.py:31`: logout revokes the refresh token, deleting its row revokes the session | when the access token has expired, the logout's 401 is answered by a refresh that exchanges the very token which the repeated call then names; the new token's row stays |
| `screens_close` | `MgrRequestDetail.test.tsx:141`: "an in-progress request can be marked complete via api.requests.close" | the server closes completed requests only, and no page offers the button for one |

**"Abort WIP" never works.** `LabWipDetail.tsx:52` calls `api.wips.abort`, which
posts to `/wips/{id}/abort` (`lib/api/index.ts:860-866`), as
`src/backend/prds/DESIGN.md:649` writes it and `lib/api/resources.test.ts:841`
pins it. The route is `/{wip_id}/abort/` (`wip/api.py:383-385`), the proxy forwards
the path as it is (`app/api/[...path]/route.ts:17-18`), and Django redirects no
POST to the address with the slash, as the comment at `lib/api/index.ts:922-923`
says of another call. It is the only button of a WIP with an active run, and is
always refused; the tests mock the server. `Screens!WipCall` therefore has no such
call, and no page brings a WIP to `aborted`.
`api.wips.complete` has the same address without a slash; no page calls it.

Disagreements with `src/backend/prds/PRD.md` met while modelling, each plain
from the code:

- line 78, completed means all experiments done *and their results registered*:
  the cascade of the *unload* completes wafer and request
  (`wip/services.py:322`), the result comes later, or never.
- line 188, cancelling aborts the request's samples and WIPs with it:
  `commissions/api.py:606-638` changes the request row only.
- lines 36 and 242, a WIP's wafers do not exceed the machine's capacity:
  `wip/api.py:185-229` adds wafers to a WIP that is on a machine without looking
  at it, and pending runs are not counted.
- lines 141 and 153, experiments are mandatory and verified at submission:
  `commissions/api.py:370-379` accepts an empty list in a patch, and
  `submit_request` verifies nothing.
- lines 152 and 167, a returned request is edited and submitted again; line 213,
  wafers with an exception are followed up: the API can, no page of the frontend
  offers it.
- line 290, types that are no longer used may be retired: nothing checks the
  uses, and batches of a retired type go on.

## What is proved

For every value of the constants that satisfies the assumptions
(`CatalogAssumption`, `NilAssumption`, `WipAssumption`: the seed lies within
the id sets, capacities are positive, and `Nil` is not an id), and without
finiteness of any set but `Dispatches` and `Equipments` in the reports
(`ReportsAssumption`), which list, sort and add them up:

| Theorem | Statement |
|---|---|
| `LimsSafety!TypeCorrect` | `Spec => []TypeOK` |
| `LimsSafety!OneRunAtATime`, `NoWipIsStranded` | `Spec => []OneActiveDispatch`, `[]NoStrandedWip` |
| `LimsSafety!CompletedIsSettled`, `NoRequestIsStranded`, `SelectionsAreWithin` | `Spec => []CompletedRequestSettled`, `[]NoStrandedRequest`, `[]SelectionWithinRequest` |
| `LimsSafety!LabWorkWaits`, `VerdictsAreTraceable`, `CompletedIsMeasured`, `HeldWafersHaveWork` | `Spec => []LabWorkNeedsRequest`, `[]VerdictTraceable`, `[]CompletedWaferMeasured`, `[]WaferCanBeWorked` |
| `LimsSafety!InductiveHolds` | `Spec => []Inductive` |
| `LimsSafety!SelectionIsLocked`, `ProgressIsForward`, `FinishedIsFinal` | `Spec => LockedAfterDraft`, `ProgressForward`, `FinishedStays` |
| `LimsSafety!RequestsArePromised` | `Spec => Promised`: the refinement of `RequestPromise` |
| `TransactionsProofs!TransactionsTypes`, `WritesNeverConflict`, `RunsTakeTurns` | `Spec => []TypeOK`, `[]NoConflictingWrites`, `[]OneActiveRun` |
| `TransactionsProofs!RunsMoveLegally` | `Spec => RunEndsOnce` |
| `CascadeProofs!NoRequestWaits` | `Spec => []CascadeSeesAll` |
| `CascadeProofs!EveryWaferGetsItsVerdict`, `LastMeasureCompletes` | `Spec => BatchGetsVerdict`, `LastRunCompletesWafer` |
| `CascadeProofs!LocksAreOrdered` | `Spec => []CirclesOnlyOverBatches` |
| `SessionProofs!SessionInvHolds`, `SessionsHaveOneRow`, `TokensArePresentedOnce`, `RetriesAreAuthorised` | with one tab: `Spec => []SessionInv`, `[]OneRowPerSession`, `[]NoTokenPresentedTwice`, `[]RetryIsAuthorised` |
| `SessionProofs!ShellKeepsSessions`, `PagesFitTheProfile` | with one tab: `ShellSpec => [](SessionInv /\ NoTokenPresentedTwice)`, `[]ScreenFitsProfile` |
| `ChannelProofs!BothChannelsInductive`, `MeasuredOnBothChannels`, `WorkOnBothChannels`, `TraceableOnBothChannels` | `ChannelsSpec => []ChannelInductive`, `[]CompletedWaferMeasured`, `[]WaferCanBeWorked`, `[]VerdictTraceable` |
| `ChannelProofs!ChannelsUndoNothing` | `ChannelsSpec => LockedAfterDraft /\ ProgressForward /\ FinishedStays` |
| `ChannelProofs!SavedFormIsStored`, `SelectionBesideForms` | `FormsSpec => []SavedIsStored`, `[]SelectionWithinRequest` |
| `ClientProofs!PagesAreClients`, `PartsFitTogether` | `ScreensSpec => Spec`, `[]ResultsAreShown` |
| `SiteProofs!ProgressIsDrawnAlike`, `DoneIsDoneForAll`, `VerdictsAreCountedOnce` | `Spec => []FlowsAgree`, `[]CountsAgree`, `[]VerdictsCounted` |
| `SiteProofs!ChipsLeadToWork`, `RolesSeeAlike`, `LinksLeadWhereTheySay` | `Spec => []BatchIsLinked`, `[]OverviewsAgree`, `[]LinksLand` |
| `SiteProofs!PhasesGoForward` | `Spec => PhaseNeverGoesBack` |
| `ReportsProofs!RowsAreWellTimed`, `BusyTimeIsCounted` | `Spec => []ReportsInv`, `[]BusyTimeIsExact` |
| `ReportsProofs!PastStaysFixed` | `Spec => PastIsFixed` |
| `ReportsProofs!ReportsTellOneStory`, `ChartFitsItsScale` | `Spec => []ReportsAddUp`, `[]TrendWithinScale` |

**The argument for the core.** The inductive invariant is taken in three
layers, each kept by every step given the layers below.

1. *Dispatches* (`DispatchInv`): dispatch rows belong to WIP rows, one is
   active, no WIP is left open. `MovedDispatch` is the one lemma about a
   handler that moves a dispatch: either it has not ended, or
   `maybe_auto_complete_wip` looked at the WIP with the new status.
2. *Requests* (`RequestInv`): samples belong to requests, wafers of unshipped
   requests are untouched, and no request is stranded or completed early. The
   WIP handlers are abstracted to `LabStep` (a wafer only moves on, and a
   request completes exactly when its last wafer does), so that the layer needs
   one lemma for all of them. The facts about unshipped wafers are what makes
   the invariant inductive: without them a wafer of a draft could be anything.
3. *The laboratory's rows* (`LabInv`): the progress rows of a wafer are exactly
   its selection (`RowsMatchSelection`), and a batch's wafers have selected its
   type and have a row for it (`BatchesMatchSelection`). With
   `LockedAfterDraft`, proved from layer 2, this is what carries
   `CompletedWaferMeasured`: the wafer completes when all its *rows* are
   completed, and the rows are its selection. `OpenRows` derives
   `WaferCanBeWorked` from the rest. `CascadeIdle` shows that the cascades of
   `complete_wip`, `record_result` and `abort_dispatch` never complete a wafer:
   it is always the unload that does.

**The argument for both channels.** The legacy pages break three conjuncts of
`Inductive`: they start a second run of a batch (`OneActiveDispatch`), end the
last run without looking at its WIP (`NoStrandedWip`), and dispose of wafers
without the check of their request (`NoStrandedRequest`). The lemmas about the
laboratory's rows are therefore stated from `KeptInv`, what is left of the
invariant without these, and `ChannelInv` adds the one fact that the pages rely
on and the API does not: a wafer that no request owns has no selection
(`FreeUnchosen`), since `request_create` makes none. Most pages call the API's
services and are handlers of `Lims` (`ChannelSteps`); for the five that are not,
`LabStep` and the abstract step of a request are shown again.

**The refinement.** From `Inductive` each handler's step is shown to be one of
the abstract request's: the handlers of the request itself map to the action of
their name, everything of the laboratory to `LabWork`, and what touches other
rows only to a stutter.

**The argument for transactions.** The theorems hold for any number of calls,
over any tables that the handlers could have left (`TablesAssumption`: foreign
keys point to rows, wafers and types are finitely many, and the id of a dispatch
is none of the words that a progress row may hold instead; `RacesAssumption`:
finitely many calls, no two of which make the same WIP row; `StartAssumption`:
requests have wafers, and the tables have what `Lims` shows of the states
between handlers, `Consistent`). The invariant is about the list of statements
that a call has left. It comes in three layers.

1. `TxInv`: whatever a call has written, it holds the lock for, and whatever it
   will write, it holds the lock for or will take it first (`ListLocked`,
   `WrittenLocked`). Two calls therefore write no row together, and what a call
   has tested under a lock stays true until it commits, because every other
   writer needs that lock: that is `StartTested`, `InsertTested`,
   `ReplaceTested` and `JoinTested`, from which a commit is shown to leave one
   active run. A run's row that does not exist yet cannot be locked: its WIP's
   row stands for it. The statements for a set of rows are put together in an
   order that nobody specifies; `OneOrder`, `EachInOrder` and `BothLocked` show
   that each order has its locks in front.
2. `CascadeInv`: a cascade reads rows it has not locked. For each row that a call
   has written and that a cascade is about, either the check is still among the
   statements left, or the call holds the lock of the row the check would write
   and the check, made again, would still do nothing (`Looked`, in `Waits` and
   `Measures`; for a run's verdicts, `Verdicts`). Each other call's commit keeps
   this, because whoever could make the answer stale needs the same lock
   (`OthersWaits`, `OthersMeasures`, `OthersVerdicts`). At a commit nothing is
   left, so the checks have been made and hold of what is committed.
   `InSequence` is what is needed of the order of the statements, and is shown
   of each handler's program; `Written` and `Joins` say that a wafer goes to
   work only when its request is in the laboratory, which keeps a request that
   is being shipped apart.
3. `OrderInv`: of the locks that a call still asks for, each is one it has
   (`Already`), or a row of a request that is in the laboratory or of its wafers
   (`LabRow`), or a dispatch, a WIP or a type that it asks for in this order while
   it holds only rows of earlier tables (`InTurn`); and a call about a request
   takes the rows of that request alone, and refers to a type only while it begins
   the work on it (`Begins`). A handler's own steps keep this (`StepOrders`), and
   so do the commits of the others (`OthersOrder`). Suppose a circle has a call
   that waits for a dispatch, a WIP or a type. If it waits in turn, whoever blocks
   it holds a row of that table, so that it waits for a row of a later one or of
   the laboratory, and from the latter no call leads back (`NoCircleInTurn`,
   `LabWaitsInLab`). If it begins the work on a request, what it holds are rows of
   that request, which is not yet in the laboratory, and those whom it waits for
   wait for none of these (`NoCircleToBegin`). Both use `CircleWithin`: a circle
   that meets a set which "waits for" does not leave lies in it. The conjunct
   `BatchesInLab` of `Consistent` is for this layer: the wafers of a batch belong
   to requests in the laboratory, as `LabWorkNeedsRequest` says of
   `Lims`.

**The argument for sessions.** `SessionInv` adds to the properties where each
pair is: the one in the store, the one on its way from a login and the one on
its way from a refresh are different and not yet exchanged (`StoreIsFresh`,
`RefreshIsFresh`, `LoginIsFresh`), one refresh is under way (`OneRefresh`), and
between the read of a row and its rotation no other row of that session appears
(`RowsOfRefresh`). The assumption `OneTab` is needed: localStorage is shared by
tabs and `refreshInflight` is not, and with two tabs TLC finds one token
presented twice.

`ShellInv` is about the screens: a page that is shown admits the role in the
stored profile. It is kept because the one tab that can change the profile loses
its page in the same step.

**The argument for the pages.** What a page draws is a function of the tables, so
most of the agreement follows from `AllInv`. What the pages need beyond it is
`SiteInv`, kept by every step beside it:

- the wafers of a request travel together (`WafersTravel`), without which the
  dots of a request, the phase of its wafers and the manager's lifecycle would
  part in the middle of a shipment (`FlowsAgree`);
- a wafer of an aborted batch is not worked on any more (`AbortedIsSetAside`),
  without which the chip of an experiment could lead nowhere while the wafer
  waits (`BatchIsLinked`);
- a run on its machine has a deadline (`RunsAreTimed`), without which a card
  would count down by an estimate of its own (`OverviewsAgree`).

`PhaseNeverGoesBack` follows from `WaferMove`, the table of what any step may do
to a wafer. `CountsAgree` compares runs with progress rows, and `VerdictsCounted`
needs that a verdict keeps the run that gave it. `LinksLand` goes through the
addresses: for each kind of link the path that `navigate.ts` writes is matched
against the routes segment by segment, with ids that are no route's word.

**The argument for the clients.** `PagesAreClients` needs that a page calls the
API on rows of the right kind whatever it last read; that its parts were read at
different moments does not matter for it. `ResultsAreShown` does depend on the
moments: `TabsGood` ties what a tab has got to the tables as they are now by what
can only grow (a run that was unloaded stays so, its verdicts stay, a result that
exists stays), and `RunsAreJudged` says that the wafers of an unloaded run have
their verdict. The API alone does not give that, as a wafer may join a batch
after its run: it holds because no page offers the call.

**The argument for the forms.** The edit of a machine is two calls, either of
which may fail or lose its answer, and other writers in between: `FormInv` says,
for each state of the list of calls still to be made, which part is stored as it
was listed and which as it was typed. The second call may be left out because
then the typed capabilities are the listed ones, and these are still stored
unless the form counts them among the parts it is `unsure` of. The properties of
requests hold beside the forms because each call of theirs writes the catalogue
only, which keeps the whole invariant of `Lims` (`CatalogStepKeeps`).

**The argument for the reports.** The library's induction theorems take an
operator as a parameter, which no installed prover can instantiate; `SetInduction`
states induction for a *set* of numbers and follows from the well-foundedness of
`<`. With it:

- any finite set of runs can be sorted by their intervals (`CanBeSorted`), so that
  `Sorted` has a value, and the loop over them has one (`LoopEnds`);
- the loop invariant is `MergedSoFar`: what is done and the current interval
  together count the instants covered so far, and what is done lies before the
  current interval. That the intervals are sorted by their starts is what lets a
  later one touch the current one only (`MergeNext`);
- the rows are well timed (`RowsWellTimed`): a run that has begun has its times,
  and only one that is completed has a `completed_at`, after its beginning. So the
  instants of the sorted intervals are those at which some run has the machine.

`PastIsFixed` needs no sum: a report depends on its runs only by the machine and
the interval of each (`SameRows`), and what may still be written to a row of a
run that has not failed (`RunsGoOn`) is a time that the end of the window cuts.

`ReportsAddUp` exchanges a sum over days with one over machines. `SumOfParts`
makes the fold of `SumFunction` the size of a union of disjoint sets, so that both
sums count the same pairs of a machine and an instant (`MachineInstants`), an
instant being on one day only (`OnOneDay`). `TrendWithinScale` bounds these sets
by the machines' instants of a day, and goes through the labels by the step
between them (`NextTick`). Two conditions of the property came out of its proof:
with no machine at all nothing is drawn at the top, and a range of 30 days in
which machines were only kept busy by runs begun before it has no busiest day. The
checked instance has two days and machines.

**Only model-checked.** Liveness under fairness (`ShownRunEnds`, `CallsSettle`,
`RedirectsSettle`) and what uses `ENABLED` (`OfferedIsAccepted`,
`NobodyIsStuck`, `DispatchFormMatches`) are out of the prover's reach.

## What is not modelled

- `types.gen.ts` (generated), the presentation kit, styling, and components that
  no route draws.
- The proxy route, the admin site, seeds and management commands, migrations,
  observability and continuous integration: no state of the workflow.
- `update_recipe` and `update_experiment_type`, and PATCHes of titles, notes and
  urgency: they change only what no guard reads.
- The turnaround average and the requests-per-day metric of the reports, and the
  horizontal layout of the chart.
- Search, sorting and the urgency filter of the lists, and that a dashboard's
  cards are cut to their first rows.
- Reloading a tab, two overlapping reads of one page answered in the other
  order, and a login whose answer is lost.
- The sign-in and account switching of the legacy channel, which are the session
  framework's.
- Two browsers of one user: their sessions share no row.

## Noted while modelling

Behaviour that no document decides, and that a maintainer may want to know of.

*Backend.* Aborting a WIP leaves its pending or running dispatches as they are;
they stay under "Now Running". The API lets a wafer be in two open WIPs of one
type, and lets a dispatch be created on a completed WIP. A wafer that joins a
batch after its run was unloaded gets no verdict from it. `delete_draft_request`
may delete a request that has been submitted meanwhile, and wait in a circle with
a `ship` of it. `request_statistics`
lists drafts to the manager, and `GET /requests/{id}` returns drafts to
laboratory staff, although `commissions/api.py:232-233` says it never does.
Reports are not preceded by a sweep, so a swept run's end is the time of the
sweep; `dispatch_result_rows` omits runs that span the whole range; the busy
time of a run that failed ends with the row's last save. On the legacy pages,
void and return without the received check (`web/views.py:831`) can leave a
request in `sample_shipped` for good.

*Sessions.* After a refused refresh the tokens are gone but the profile stays:
every call fails, `/login` redirects home, and only "Sign out" leads out. A
logout that is answered after the next login clears the new tokens
(`lib/api/index.ts:497`), and a refresh under way at sign-out stores the old
user's tokens under the next profile.

*Forms.* A new request whose submit failed keeps no id, so pressing again files
a second one (`FabNewRequest.tsx:103`); a machine whose creation was not
answered is created twice. `AddDispatchModalInner.tsx:173` says that a machine
in maintenance may be submitted, which the server refuses.

*Pages.* "In WIP" of the sample list is always empty, as the client maps no
status to it. `LabWaferDetail.tsx:226` compares with `running`, which the API
never sends. After a re-run the page of the earlier run shows the newer verdict.
The manager's page links wafers that have not been shipped, and their page then
offers to receive them. The manager's "In Progress" tile leads to a list that
opens on "pending". `LabDispatchDetail.tsx:208` promises a step that an aborted
or completed WIP does not allow, and `pending_redispatch` stays under "Needs
Result" for ever. An unknown `?tab` crashes `LabDispatchList.tsx:39-41`; no link
makes one. A failed re-read turns the page of a run into "not found" without
buttons. The quick ranges of the reports go by the browser's date, the server by
UTC.

## Plan

Done, in this order: the core (`LimsStatus` to `LimsSafety`); the promise and
its refinement; the legacy channel; the transactions; sessions with their
proofs and the shell over them; reports and the chart; pages, screens, forms,
routes and the views of the three roles; then the proofs about transactions,
the shell, the site, the clients, both channels, the catalogue's forms, the
reports, and the circles of waiting calls.

Left:

1. Overlapping reads of one page, and reloads with a refresh under way.
2. A browser with two tabs: which of the properties of `Session` hold, and their
   proofs.
