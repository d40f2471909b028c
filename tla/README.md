# Jira dashboard pipeline: TLA+ models, checks and proofs

The program is a batch pipeline (`src/jira_dashboard/`) that copies issues from
Jira Data Center into Oracle, derives the history of every field, and keeps
enough state in the database to decide what the next run has to do again. It is
run by cron, hourly and once a day with `--daily`, one process per Jira instance,
under `flock -n` (`src/README.md:53-73`). Its design is written down in
`src/docs/design.md`; the numbers 5.x, R31 and Item 10 below are that document's and
the code comments' own.

The models are translated from the code. Where the code and what is said of it
differ, a run exhibits the difference (section 5).

## 1. Inventory

| Component | Code | State it keeps | Operations | What makes it correct |
|---|---|---|---|---|
| run of an instance | `pipeline/runner.py`, `cli.py` | phase of the run, projects left, flags still to raise, failures | catalog, per project sync / history / first_done / watermark, daily steps, two handlers | nothing committed is left behind without a flag that makes a later run repair it |
| search and page loads | `pipeline/sync_issues.py`, `repository/issue.py` | `TEST_JIRA_ISSUE`, `TEST_ISSUE_RAW`, `TEST_ISSUE_FIELD_VALUE`, `TEST_ISSUE_CHANGELOG` | search by watermark, page, hash skip, parse, upsert, commit per page | the watermark never passes an issue that is not stored |
| history derivation | `pipeline/derive_history.py`, `repository/history.py` | `TEST_ISSUE_FIELD_HISTORY`, `first_done_at` | intervals from a changelog, categories, replacement by chunk | intervals tile time, follow the changelog, end at what is seen of the current value |
| watermark and resync flag | `repository/sync.py` | `TEST_SYNC_WATERMARK` | read, write, request and clear a full resync | a request is withdrawn only when it was honoured |
| run audit | `repository/sync.py`, `runner.py`, `cli.py` | `TEST_SYNC_RUN`, `last_status`, exit code | start, finish, reclaim | the three accounts agree; a dead run does not stay RUNNING |
| connection, transaction | `db/pool.py` | the open transaction | commit, rollback, the read-only connection of a dry run | a dry run commits nothing |
| catalog | `pipeline/sync_catalog.py`, `repository/catalog.py`, `jira/fieldmap.py` | `TEST_JIRA_PROJECT`, `TEST_JIRA_FIELD`, statuses | upsert, detection of a changed key or value kind, whitelist | a change is followed by a full resync of the rows it outdates; names resolve to the right field |
| detection | `pipeline/detect_deleted.py` | `project_id`, `deleted_at`, `delete_reason` | scan, ask Jira, classify, relocate, mark | only what left is marked; what is shown is there |
| field profile | `pipeline/profile_fields.py` | `TEST_FIELD_PROFILE` | reset, count EAV, count columns, axis candidates | exact counts; the right axes offered |
| Jira client | `jira/client.py` | a request and its attempts | search, changelog, get_issue, retries, refusals | a failure is never taken for an empty answer; it always ends |
| parser | `jira/parser.py`, `jira/models.py` | none | JSON to rows, `truncate` | cut values still mean the same to those who compare them |
| schema | `db/ddl/*.sql`, `db/schema_map.py` | constraints | - | statements respect the constraints |
| doctor | `doctor/jira_checks.py`, `doctor/db_checks.py`, `cli.py` | the report, the exit code | checks A1-A12 of Jira, DB1-DB8 of Oracle | a verdict only on what was seen, and a true one; every check reported; the exit code agrees |
| capture, fake client, settings | `capture.py`, `jira/fake.py`, `config/` | none | fixtures, a test double, environment | not part of the pipeline's state |

The components interact through the tables, never through messages: a step
commits, the next one reads. What ties them is one chain of transactions
in `run_instance` (`runner.py`), and everything hard lies between its links:

* **crash and failure**: every repository function commits on its own, so a run
  can stop between any two of them, with an exception that a handler sees or
  with the death of the process, which nobody sees. What the next run redoes is
  decided by a watermark, a payload hash and a flag.
* **a moving source**: Jira is edited while pages are read, projects are
  renamed, fields are created, renamed and retyped, issues move between projects and
  become invisible, between any two requests of a run.
* **incomplete answers**: Jira caps pages, 10.3 does not page changelogs,
  requests are retried, searches may see an edit late.
* **stale state**: `since`, `full_resync`, the field catalogs and the category
  dictionary are read once and used for a whole project; the payload hash says
  what the payload was, not what the row is.
* **several instances**: their processes share `TEST_SYNC_RUN`.

PROJECT.json lists each of these hazards at its line with the properties for it.

## 2. Modules

Each component's module has an `MC` module with the values its configurations use, and mutated
operators (marked "Mutant") beside the ones they alter: they are the bugs the
properties are known to notice.

**SyncRun** is the core: one instance, the whole run from the lock to the exit.
An action is one transaction, or one step of Jira, of an administrator or of the
machine between two. `db` holds the committed tables, `tx` what the open transaction
sees; `Commit` is `conn.commit()`, which `ReadOnlyConnection` swallows in a dry run.

| Action | Code |
|---|---|
| `StartRun(d, asked)` | `cli sync [--dry-run] [--project]` taking the lock |
| `SyncCatalog`, `CatalogFails` | the catalog step with its commit and its handler (`runner.py`) |
| `RequestFullResync(p)` | one call of `request_full_resync` for a changed key or kind |
| `BeginProject(p)` | `read_watermark`, and the fields `sync_issues` fetches |
| `SyncPage`, `EmptyPage` | one page of `iter_search_pages` through its commit |
| `DryRunDone` | the rollback of a dry run's project |
| `DeriveHistory`, `UpdateFirstDoneAt` | one chunk of each of the two loops |
| `FinishProject` | `write_watermark` and `clear_full_resync` |
| `ProjectFails`, `AuthFails` | the two handlers around a project |
| `FinishRun`, `Crash` | the end of `db_conn`; the death of the process, or an exception where no handler stands |
| `EditIssue`, `RenameProject`, `ChangeKind`, `SetProjectEnabled` | Jira and the administrator |

A payload is represented by what identifies it, its `updated` time and its key;
a stored row by these and by the kind of the custom field it was parsed under.
History and `first_done_at` are represented by the row they were computed from, so
that "history is stale" is an inequality of two versions. Three history variables say what a death or an edit
costs, issue by issue: `torn`, what a process had loaded and not derived, until it is derived again;
`missed`, the outdated rows whose resync it had not requested yet, or that the whitelist let in too
late for one, until they are loaded again; `overtaken`, what an edit between two pages brought behind
the offset of the search before it was read (`Read`), until it is loaded again. No guard reads any of them.

**SyncRunInv** states the inductive invariant of SyncRun, **SyncRun_proofs** proves it and what follows.

**Mirror** is the abstract specification: what a reader of the tables is promised,
without searches, pages, transactions and watermarks. One project is `busy`, its rows are
loaded (`Load`), histories derived (`Derive`); then either nothing loaded is `behind`
(`Finish`), and only a project that mirrors Jira has its request withdrawn, or the
repair of the project is `asked` for (`GiveUp`). Only `Die` breaks the chain, for the issues in
hand, and a `Change` while a project is worked on, for issues of it that its search then passes over:
they are `lost` from then on, until they are worked off. `NothingForgotten` is what follows.
**SyncRunMirror** maps SyncRun to it: the committed tables are
the mirror, the flags what is asked, `changed` the work; a dry run works on
nothing. The second half of **SyncRun_proofs** proves the mapping and the promise.

The other components' properties stand at the end of their modules, their proofs in
**FieldHistory_proofs**, **Placement_proofs**, **Fetch_proofs**, **RunAudit_proofs**,
**FieldCatalog_proofs**, **FieldProfile_proofs** and **Doctor_proofs** (section 7). An inductive
invariant that a run checks stands with the properties, any other at the head of the proofs.

**FieldHistory**: one field of one issue over time. Jira edits it, with or
without a history, several at an instant; the server serves the first
`Inline` histories; `Collect` is the page commit, `DeriveHistory` and
`UpdateFirstDoneAt` compute intervals, categories and `first_done_at`. How the field is stored decides
what the derivation learns of its present value (`HasCurrent`, `Seen`, `Loaded`): a column that
`load_issue_states` reads; another column, of which it learns nothing; an EAV string, number or
date, of which it reads `val_str`; an array, of which it reads the first element (`Kinds`). `truth`, a history variable, is
what the field really was at the end of each instant. Values are texts, cut on
their way: 4000 bytes in the changelog, 1000 in `val_str`, 100 in a fixed column, and again
1000 in the history.

**Text** is `truncate`: strip, then the longest beginning whose UTF-8 fits the bytes. It
does not strip after the cut, so a text cut twice may lose a blank the first cut left.

**Placement**: in which project an issue is shown. The detection is taken apart
down to its Jira calls (`Scan`, `Check`, `MarkDeleted`), in one transaction `tx`;
a project's collection is one step. `away` and `stirred` are history variables the
properties speak of.

**Fetch**: one search, request by request: `Retry`, `Refuse`, `SearchAnswer`,
`PageDone`, and for each issue `TakeIssue` and the supplement `ChangelogAnswer`,
against a server that caps pages as it likes and issues that are edited meanwhile.

**RunAudit**: the rows of `TEST_SYNC_RUN`, `last_status` and the exit code, for
several instances whose processes run side by side and meet in `reclaim_zombies`,
which takes rows of any instance. A run is to sync any part of the instance's projects (`scope`): those
that are enabled, or the one of `--project`, or none. Steps succeed or raise; hours pass.

**FieldCatalog**: fields of Jira and of `TEST_JIRA_FIELD`, one issue's values and
changelog, and the resolution of a changelog item to a field: by `fieldId` where
Jira serves it, by the string as an id, by an unambiguous name. `Cut` is what the
catalog's 255 bytes keep of a name; the string of an item is looked up uncut.

**FieldProfile**: the three statements of a profile over tables that change
between profiles, and the axes read from the result.

**Doctor**: the two sections of the command. An action is one call of Jira with the checks
its answer decides, or one check of the database; what Oracle and Jira are like is
chosen freely, within what two checks or two calls have in common: the first page is kept
(`page`) and compared with later answers while issues are edited and deleted.
`Statements` is the DDL, `applied` the dictionary of a schema to which somebody applied it
by hand. `unseen`, `touched` and `told` are history variables.

Composition: Placement and RunAudit contain an abstraction of what SyncRun
details (a project's collection as one step; its success or failure as one choice).
SyncRun in turn takes the derivation, the resolution of fields and the fetching of
pages as steps that FieldHistory, FieldCatalog and Fetch take apart.

## 3. Passing runs

| Run | States | Shows |
|---|---|---|
| `SyncRun_faults` | 1.6M | Jira is edited at any time, between two pages too; anything may fail, the process may die, projects are enabled and disabled, an issue may not parse, searches may see an edit late: a stale history of a readable issue is flagged or about to be derived, unless a dying process had it in hand or an edit overtook the search for it (`HistoryDebt`), the watermark covers what it claims but for the latter (`WatermarkCovers`), a dry run leaves no trace (`DryRunLeavesNoTrace`), the inductive invariant holds (`IInv`), and every step is one of Mirror (`ImplementsMirror`) |
| `SyncRun_catalog` | 1.06M | renames and a kind that changes, runs of one project or both, failures: rows under an outdated key or kind that can be parsed anew are covered by a queued or requested resync (`CatalogDebt`); a resync is withdrawn only when done (`ClearedMeansRepaired`); once Jira rests, everything is eventually stored as it is, with its history, whatever the handlers met (`EventuallyMirrored`) |
| `FieldHistory_any` | 2.7M | histories missing, silent changes, ties, names too long, for a column that is read, one that is not, and an array: every value fits its column in bytes (`TypeOK`), intervals tile time (`HistoryTiles`), end at what the code sees of the current value, where it sees one (`EndsAtCurrent`), categories follow (`CategoriesFollow`). If nothing is lost the history is right at every instant but in the last interval of an EAV number, date or array, which bears NULL or the first element (`Faithful`), and `first_done_at` is the first (`FirstDoneIsFirst`) |
| `Placement_any` | 193k | whatever moves, vanishes or hides during a detection that may fail: what a detection knows between two calls (`DetectInv`), a marked issue really was away (`MarkedWasAway`), an undisturbed detection is exact (`DetectionIsExact`), and each issue is eventually shown where it rests and nowhere else (`EventuallyPlaced`) |
| `Fetch_any` | 24k | completeness at any page caps (`Complete`), one skip per edit at most (`SkipsBounded`), truncation told (`TruncationIsTold`), nothing sent from the beginning on is dropped (`OfferedIsKept`), termination (`Terminates`) |
| `RunAudit_pair` | 395k | what rows and statuses say at each step of a run, over all the projects or a part of them (`AuditInv`); no forgotten RUNNING row (`NoForgottenRun`); rows, `last_status` and exit code agree on the projects the run was to sync, and it has no row of another (`AuditAgrees`); SUCCESS only of a whole project (`SuccessIsWhole`); rows of dead processes are eventually closed (`EventuallyClosed`) |
| `FieldCatalog_any` | 280k | no item is attributed to another field (`NeverMisattributed`); unattributed only if ambiguous (`UnattributedIsAmbiguous`); nothing lost behind the hash (`SkipIsSound`); with `fieldId`, renames change nothing (`AttributionIsKept`) |
| `FieldProfile_exact` | 12k | every count exact (`ProfileIsExact`), every field with values offered (`NoAxisIsMissing`) |
| `Doctor_any` | 2.6M | whatever is denied or empty, a printed report has every check once, or only the refusal (`EveryCheckReported`); nothing unseen passes, and what may lack evidence by nobody's fault then only warns (`NothingUnseenIsJudged`); what A1, A3 and A4 say of the server is so, up to changes between the calls (`VerdictsAreTrue`); DB7 passes exactly if every statement was applied with its widths (`SchemaIsCompared`); the exit code agrees with what was printed (`ExitAgrees`) |

Where a property holds only in certain circumstances, these are part of it and read from
the state (a collection while the catalog was behind, a changelog that is complete,
an issue the token never lost sight of), so that the run explores the other
circumstances too. Section 5 lists them.

## 4. Bounds

The bounds are constants, each named in its module; guards use them, nothing else does.

* `MaxClock`, `MaxTime`, `MaxChanges`, `MaxItems`, `MaxEdits` bound what Jira does;
  `MaxFailures`, `MaxCrashes`, `MaxDeaths` what goes wrong. One failure or one
  death and a later run that meets the result are the shortest stories in which
  something is left behind.
* Two or three issues with `PageSize` 1 give searches of several pages and issues
  that shift across a page boundary; `Batch` 1 and 2 give several chunks per loop
  and one that is not full. In `SyncRun_catalog` there is one issue in each of two projects.
* `Overlap`, `Minute`, `Lag` are in ticks. With `Overlap = 1` and `Minute = 2` the
  truncation to the minute and the overlap both change the answer, and with a clock of 5
  (`SyncRun_faults`) the watermark passes issues: without the overlap `WatermarkCovers` fails
  there. `Lag` is how late an edit may become visible to a
  search: the code relies on the overlap for that. The run uses `Lag = 2 = Overlap + 1`,
  the largest that `WatermarkCovers` survives; a server later than that is beyond any overlap.
  In `SyncRun_faults` both issues are in the one project, so that searches have pages, an edit
  between two of them can bring the other issue behind the offset, and the clock goes on far enough
  for the watermark to pass what was skipped: without `overtaken` the run fails.
* Two projects are what `--project`, `CatalogDebt` and relocation need. Detection
  treats issues independently of each other, so one issue suffices in Placement.
* FieldHistory: two served histories give a first, an inner and a last boundary, a third
  is lost; two values of `created` put histories before and after creation. At most one
  silent change. `Sentinel` is the open end of the last interval, beyond every instant.
  The widths 3, 5 and 6 stand for 100, 1000 and 4000: one name of four characters and
  seven bytes is cut differently by each, in mid-character, and once behind a blank.
  Three kinds of storage stand for the six: `FirstText` gives the array a first element that is
  part of the whole, one that is all of it (an EAV string's case) and one that is NULL (a number's
  or a date's). The proofs cover the six.
* Fetch: one issue of three has a changelog longer than `Inline`; `Caps` has 0, 1 and 2.
* RunAudit: one instance with a project, which a run syncs or leaves out, and one with none, both
  with and without `--daily`; `Stale = 1` hour stands for the six of the code.
* FieldCatalog: two custom fields, one system field and three names, of which one is
  another when it is cut and one is the id of the system field, give every way of
  sharing a name; two items.
* Doctor: three issues and pages of one or two; changelogs of up to three entries and a window
  of two, of one or two times; one edit or deletion between calls. One statement of each
  kind that the code treats differently, one in a comment, two columns of one table; of the
  sequences and the views, which are looked up alike, a view. The proof covers both.

## 5. Where the code falls short of what is said of it

Three runs check one statement of the docs each and end in a counterexample
(PROJECT.json quotes the statement and its line):

| Run | What happens |
|---|---|
| `SyncRun_live_skip` | an edit during paging moves the issues after it one place forward; one is skipped and the watermark passes it (`NoEditOvertakes`, which is `WatermarkCovers` without `overtaken`) |
| `SyncRun_dead_history` | a process that dies after a page's commit and before the derivation leaves a history no later run repairs |
| `Placement_shown_again` | an issue marked DELETED that is collected again unchanged stays marked |

The circumstances below were met while modelling and checked with TLC by changing
the constants named or dropping the condition from the property; they have no run of their own.

| Property | Fails when | Because |
|---|---|---|
| `HistoryDebt`, `ImplementsMirror` | `LiveEdits = TRUE`, were `overtaken` not exempt | the shift above also happens in a full resync, which is then withdrawn though the issue it was for was not visited |
| `ClearedMeansRepaired`, `CatalogDebt` | `LiveEdits = TRUE` | a project renamed, or a kind changed, between the catalog step and the pages gives rows that are not what the catalog shows, until the next catalog step detects it |
| `HistoryDebt`, `ImplementsMirror` | an issue that does not parse, were it not exempt | nothing is derived for it, and a full resync is withdrawn all the same |
| `HistoryDebt`, `ImplementsMirror` | `MaxCrashes = 1`, were `torn` not exempt | `SyncRun_dead_history` above, until an edit or a resync brings the issue back |
| `CatalogDebt` | `MaxCrashes = 1`, were `missed` not exempt | a process that dies between the catalog's commit and `request_full_resync` loses the change (`runner.py:47-58`) |
| `CatalogDebt` | `Toggles = TRUE`, were `missed` not exempt | only enabled projects are flagged (`runner.py:64`), the comment above it says all |
| `WatermarkCovers` | without the exemption of unparsable issues | an issue that does not parse is not in the raw table either, and the watermark passes it (design.md:1216) |
| `Faithful` | two histories of one instant | neither sort orders them (`derive_history.py:56`, `history.py:146`) |
| `Faithful` | histories missing at the end | the current value takes the place of the last collected change, from that change's time on (`derive_history.py:83`) |
| `EndsAtCurrent`, `Faithful` | a number or a date of `TEST_ISSUE_FIELD_VALUE` | its `val_str` is NULL, with which the last interval is overwritten, however complete the changelog is (`history.py:134-138`, `derive_history.py:78-83`); the properties ask for NULL there |
| `EndsAtCurrent`, `Faithful` | an array (`labels`, `components`, `fixVersions`, custom ones), an option with a child | the row of `val_seq` 0 is one element of what the changelog bears as a whole, and overwrites the last interval in the same way (`derive_history.py:131-136`, `docs/onprem-runbook.md:405`); the properties ask for that element there |
| `EndsAtCurrent` | a column dimension `load_issue_states` does not read (`created`, `updated`, `resolutiondate`, `duedate`) | there is no current value to compare with, and the history ends where the changelog does (`history.py:214-225`, `tests/unit/test_derive_history.py:93-102`); the property says nothing of it |
| `EndsAtCurrent` | a cleared custom field | it has no row to compare with (`derive_history.py:78`); the property says nothing of it |
| `AuditAgrees` | a run narrowed by `--project`, or with projects that are disabled | it ends with exit 0 whatever the last status of the others is (`runner.py:67-73`, `cli.py:91-100`); the property speaks of the projects the run was to sync |
| `FirstDoneIsFirst` | the name of a status exceeds 100 bytes (34 Hangul syllables) | the last interval bears the cut name, which is not found among the uncut ones of `/status` (`derive_history.py:108`, `runner.py:45`): the category is `undefined`, `first_done_at` stays NULL. The comment at `parser.py:166-168` says that names keep their meaning when cut |
| `Faithful`, `EndsAtCurrent` | a text that fits no column is compared as a whole | the intervals hold what is left of it, two cuts in a row less than one; the properties ask for a beginning of it |
| `OfferedIsKept` | a server that answers with another part | the client drops as many histories as it has from the front of any answer (`client.py:115`) |
| `NeverMisattributed`, `SkipIsSound` | a field created between the catalog step and the issues | its namesake takes its items; its value is dropped though the hash is stored (`sync_issues.py:209`) |
| `NeverMisattributed` | a custom field whose name is the id of a system field, without `fieldId` | the string is looked up as an id first (`history.py:60`); the property exempts just this |
| `UnattributedIsAmbiguous` | a name longer than 255 bytes, without `fieldId` | the catalog holds it cut, the item bears it whole (`catalog.py:221`, `history.py:62`) |
| `NothingUnseenIsJudged` | A8, A9, A11, DB1, DB3, DB5, DB8, and A1 of an empty project | an empty answer is a FAIL there (`db_checks.py:208`, `jira_checks.py:56-84`), though R34 says that what was not seen gets a WARN; the property asks it of the others |
| `VerdictsAreTrue` (A1) | an issue edited or deleted between the two searches | the pages overlap on a server that pages, or are disjoint on one that does not (`jira_checks.py:100-103`); the property says exactly when |
| `NeverMisattributed` | a field renamed, or gone before any run saw it, and another given its name | names are those of today (`history.py:62`); with `fieldId` too, an id that is not in the catalog falls through to the name |
| `AttributionIsKept` | a renamed field, without `fieldId` | items that bear the former name are resolved anew, to NULL (`history.py:31`) |

Read from the code, not from a run: the comment at `client.py:99-103` says that A3 ends in
FAIL when a second call brings nothing new, the code says WARN; an issue deleted
between the search and A3's second call is a 404 that no handler catches, and ends the doctor
without a report (`SecondChangelog` models it); A6 is a FAIL on a server without custom
fields; a live process of another instance whose step takes
more than six hours is reclaimed (`sync.py:54`); an issue that moves to a disabled project
is MOVED_IN, not MOVED_OUT (`detect_deleted.py:55`, `catalog.py:177-180`), which
`Classify` models; an axis whose `issue_count` is 0 is still offered
(`profile_fields.py:59`), which `AxisCandidates` models.

## 6. Fairness

* SyncRun: `WF(Step)`, a run that is not killed goes on: it is a sequential
  program whose calls have timeouts. `SF(StartRun(FALSE, Projects))`: cron starts
  the plain run every hour. It finds the lock taken at times, so weak fairness would
  not do; that it finds it free again and again is what an hourly schedule gives.
  Nothing is assumed of dry runs, `--project`, failures or deaths, which are bounded.
* Placement: `WF(Detect)`; `SF(StartDetect)` and `SF(SyncProject(p))`. The daily
  run takes the lock with `flock -n` and is dropped when an hourly one holds it;
  strong fairness says that some day it is not.
* Fetch: `WF(Client)`: each request is answered or times out (`client.py`), and each
  page is worked through.
* RunAudit: `WF(Hour)`, `WF(Goes(i))`, `SF(Start(i))`: time passes, processes go on
  until they end or die, cron starts the next.

Temporal properties say "eventually always" of a system whose disturbances cease: failures,
deaths and Jira's changes are bounded, and `EventuallyMirrored`, whose renames are not,
is of behaviours in which Jira and the whitelist come to rest.

## 7. Proofs

All the safety properties the passing runs check, and the refinement, are theorems: they hold for
every value of the constants that the named assumptions of the modules allow, and so
for any number of issues, projects, fields and edits, where TLC tried two or three. Each
rests on an inductive invariant that TLC checked on the instances of the runs
before it was proved; there is a lemma for each action or group of actions.

### SyncRun

| Theorem | Hypotheses |
|---|---|
| `TypeCorrect`, `DryRunSafe`, `InvSafe`, `HistoryDebtSafe`, `AnEditCostsOne` | none |
| `Implements`, `TablesKeepThePromise`; `NothingIsForgotten`, of Mirror | none |
| `WatermarkCoversSafe` | `Punctual` |
| `ClearedMeansRepairedSafe`, `CatalogDebtSafe` | `Undisturbed` |

Failures, deaths, edits between two pages, dry runs, runs of single projects, the whitelist and issues
that do not parse need no hypothesis: `HistoryDebt` speaks of the readable issues that are neither
`torn` nor `overtaken`, `WatermarkCovers` of those that are not `overtaken`, `CatalogDebt` of those that
are not `missed`, `ClearedMeansRepaired` of those that parse. So a death costs at most the histories the
process had in hand and the requests it had yet to make, and an edit during a search at most one issue:
`AnEditCostsOne` says that no step adds two to `overtaken`, for an edit moves the issues behind it by
one place, so that only one can come to stand before the offset (`OnePasses`).
`Punctual` is `Lag <= Overlap + 1`, the design's own reason for the overlap; TLC refutes
`WatermarkCovers` beyond it. `Undisturbed` is `~LiveEdits`: Jira changes only between runs. The two
theorems that need it are about what Jira is now, which a rename or an edit under way falsifies (section 5).

`HistoryDebt` is not inductive: `FinishProject` withdraws the flag that covers a stale
row, and nothing in `HistoryDebt` says that the row was visited. `IInv` adds

* `Coverage`: the search has `Taken` every issue that parses and is ranked before the offset,
  unless it was overtaken, and does not stop before the end of the answer; so a full resync that is
  over has all that is stale in `changed`. It rests on `Rank` being a position (`RankStrict`,
  `RankBound`), on a page before the end not being empty (`PageNotEmpty`), a pigeonhole argument
  over the ranks, and on what an edit can bring before the offset being in `overtaken` (`InvEdit`);
* `Derived`: how far the two loops have come, so that at `mark` all of `changed` is fresh;
* `Existing`: `changed` holds only issues of the project, and an issue Jira does not have
  is fresh, so that "all Jira has" is "all that can be stale";
* `Committed` and `DryPath`: what is uncommitted belongs to a dry run, which
  never gets past the search, so the fields above may speak of `db`;
* `TypeOK` and `Stamps`: times lie beyond the overlap, so a new watermark is never below NULL.

The assumptions on the constants say that issues are a finite set of naturals, each in one project, and
that page size and batch are positive.

`WatermarkCovers` needs two more (`WatermarkInv`). `Clocked`: no watermark, and no newest time a search
has met, is nearer to the clock than the overlap, so that an edit made after a watermark was
written is within reach of the search that starts there. `Swept`: after a search what its query
matches is stored, was overtaken, or was edited so recently that the overlap reaches it.

`CalmInv` is what `Undisturbed` adds: `Current`, what was loaded is what Jira still has, under its present
key and kind; `Named`, past the catalog step names and kinds of the run are those of Jira, without
which a row that was repaired need not have the key that the catalog shows; nothing is overtaken.
`ClearedMeansRepaired` follows from it at the one action that withdraws a request
(`TakenIsRepaired`). `CatalogDebt` needs `Queued`, the
queue is empty unless a run stands between its catalog and its projects, and `OldDebt`, for a dry
run shows its own catalog to itself but requests nothing: what the committed tables owe was
owed before it. `SyncRun_catalog` checks it without deaths and with a fixed whitelist, for its liveness
property's sake; the proof covers both.

`Implements`: the initial states map (`InitMaps`); each action is, under `IInv`, one of Mirror
or a stutter (`StepMaps`, from a lemma for each group): an edit is `Change`, a page is `Load` of the issues
stored (`PageMaps`), a chunk `Derive` (`DeriveMaps`, `FirstDoneMaps`), `FinishProject` is `Finish` because
`Coverage` and `Derived` make the project `Repaired` (`FinishMaps`), a failure is `GiveUp`
(`FailedMaps`); what the mapping does not see is `Silent`. `Nobody` is assumed to be no project.
A death is `Die`: `lost`, to which `torn` and `overtaken` are mapped, grows by what of `changed` is not fresh.
`NothingIsForgotten` is proved of the abstract specification alone, by `MirrorInv`.
`TablesKeepThePromise` says the same of SyncRun's own tables, through the mapping.

### FieldHistory

`HistoryInvSafe`, and from it `WidthsSafe` (`TypeOK`), `HistoryTilesSafe`, `CategoriesFollowSafe`,
`EndsAtCurrentSafe`, `FaithfulSafe` and `FirstDoneIsFirstSafe`: for any alphabet, widths, values,
number of changes and of served histories, and each of the six kinds of storage. The argument is in four parts.

* *Texts.* `Truncate` gives the longest beginning of a text that fits (`TruncateOf`), of any two cuts
  what is left of the narrowest column survives (`ShownTwice`). `Size` is a recursive function:
  that it exists at all is an induction over lengths (`MeasureExists`,
  `MeasuresAgree`, `SizeDef`), carried out with the least counterexample (`Smallest`).
* *Shape.* `Laid`: the intervals start at creation, each ends where the next starts.
  What `BuildIntervals` makes is laid (`BuiltLaid`), laid intervals tile (`LaidTiles`), and
  `MergeCategories` leaves them laid and agreeing with them at each instant (`MergedLaid`).
* *Truth.* `Chronicle` and `Truthful` say what Jira's changelog knows: the last entry up to an
  instant tells the value then, and the first entry's `from` the value before it. `Collected`:
  the rows are what was served when the run read. Of a complete changelog the boundary before
  an instant therefore tells its value (`BoundaryTells`), through clamp, order and both cuts
  (`TellsTruth`); the last one is what the code sees of the current value, whatever was lost
  (`EndsRight`), and where that is the value itself, or nothing, the history is true to its end.
* *Done.* `FirstDoneIsFirst` is not inductive by itself: the MERGE keeps an earlier value, so it
  needs `NeverWrong`, that what is set was an instant of done, at all times.

The assumptions say that widths do not shrink along the way (100, 1000, 4000, in `models.py` and the
DDL), that any one character fits the narrowest (UTF-8 takes four bytes at most), that NULL is no text,
that the first element of an array is one, and that the open end lies beyond every instant.

### Placement, Fetch, RunAudit, FieldCatalog, FieldProfile

* **Placement** (`DetectInvSafe`, `MarkedWasAwaySafe`, `DetectionIsExactSafe`). `Witnessed`: whoever is out of sight
  during a detection is in `away`, and no one else has a verdict. `Asked`: an undisturbed
  detection has a verdict or still a question about each issue wrongly shown in a project
  it has scanned. `OnlyCleared` and `Resting` tie the open transaction to the committed rows.
* **Fetch** (`FetchInvSafe`, `CompleteSafe`, `SkipsBoundedSafe`, `TruncationIsToldSafe`, `OfferedIsKeptSafe`).
  Undisturbed, what was yielded and the page are the order up to `Reached` (`InOrder`).
  With edits, the issues neither read nor ahead are no more than the edits (`FewSkipped`): an
  edit moves one issue to the end and all after it one place forward (`MovedToEnd`, `EditedOrder`),
  so that at most one crosses the offset (`FewerSkipped`). `Gapless`: answers from the first
  history on leave no gap behind what is kept (`SlicedFromFirst`).
* **RunAudit** (`AuditInvSafe`, `NoForgottenRunSafe`, `AuditAgreesSafe`, `SuccessIsWholeSafe`), for any number of instances side by
  side. The invariant is stated per instance over what its present rows tell (`Told`): which row
  `run_id` is (`PhaseInv`), that only it says RUNNING (`RowInv`), that each project it is to sync is untouched, midway or
  settled and no other has a row of it (`ProjectInv`), and what the exit code remembers (`ExitInv`). What another instance
  reclaims turns RUNNING into FAILED in the open row at most (`ReclaimTells`), which `Open` allows for.
* **FieldCatalog** (`CatalogInvSafe`, `NeverMisattributedSafe`, `UnattributedIsAmbiguousSafe`, `SkipIsSoundSafe`,
  `AttributionIsKeptSafe`). `Known`: a catalog that was never behind has every field of a stored item; `Named`: until the
  first renaming the names of catalog and items are those of the field, cut in the one
  and uncut in the other. `CutAssumption` says that a name that was cut and is borne is not cut again,
  for Jira trims names: a cut name that ends in a blank, which `truncate` would cut again, is not borne.
* **FieldProfile** (`ProfileInvSafe`, `ProfileIsExactSafe`, `NoAxisIsMissingSafe`). The three statements write each row at most
  once after the reset, whichever tables they start from (`Profiled`, `ProfileExact`);
  `ValuesAreCataloged` makes every field with a value one the MERGE finds.

### Doctor

| Theorem | Inductive invariant |
|---|---|
| `EveryCheckReportedSafe`, `NothingUnseenIsJudgedSafe` | `ListedInv` |
| `SchemaIsComparedSafe` | `ListedInv`, and the property itself |
| `ExitAgreesSafe` | `ExitInv` |
| `VerdictsAreTrueSafe` | `VerdictInv` |

* *The list.* `Progress` says which beginning of `DbOrder` or `JiraOrder` the report is at each call
  and check. Since an order names each check once, what an action appends is new (`Apart`,
  `Appended`): no later result contradicts an earlier one, and `unseen` has only checks that are listed.
* *The schema.* `SchemaProblems` judges a column only where its table is there. That a column whose
  table is missing is not overlooked rests on `StatementsAssumption`: its table is declared too, and
  counts as missing (`Compared`). `applied` is written by DB7 only and dropped with the report.
* *The exit.* `failed` is `told` between the sections, and something is left to do until the end.
* *The verdicts.* `PageType`: what the first page showed is in the order the server gives, and
  a full window of what is longer. `PageKept`: until the second page, an issue nobody touched stands
  no further back than it did, for edits and deletions only move others forward, and without a
  change nothing moved. So a second page that repeats the first, on a server that pages, needs a
  change, and one that is disjoint from it, on a server that does not, needs the whole first page
  changed (`SecondPage`). /issue tells more than the window only if it reaches beyond (A3); two
  distinct times are in the order of the server (A4), by `PayloadsAssumption`.

The assumptions say that the project has finitely many issues, the page size is positive, the times of a
changelog do not decrease, and columns belong to declared tables, as they do in `db/ddl`.

### Only model-checked

The four liveness properties (`EventuallyMirrored`, `EventuallyPlaced`, `Terminates`, `EventuallyClosed`),
which are out of the prover's reach. What `Undisturbed` and `Punctual` exclude is refuted (section 5), not unproved.

## 8. Abstractions

* SyncRun: the columns of a row are its payload version; parsing fails per issue and
  version (`Unparsable`); the pages of a search are cut at the same size
  (Fetch varies it); detection and profile do not touch what SyncRun keeps.
  The key of a project is the only attribute of the catalog whose change matters to
  it, and one custom field stands for all.
* SyncRun and Fetch: an issue that is deleted, moved out of the project or hidden from the token between
  two pages shifts the later ones forward as an edit does, and one of them is passed over in the same
  way. That is not modelled: where a property or theorem bounds or exempts what edits cost (`overtaken`,
  `SkipsBounded`, `AnEditCostsOne`), such changes are among the disturbances it leaves out. Placement has
  them, with scans that miss issues, but not page by page.
* FieldHistory: one field; the others of an issue are computed independently of it, each by the kind
  of its storage. The ids beside the strings are cut and compared alike. A history of the field is
  taken to bear the whole value before and after, as Jira's do for `labels` and custom fields; of
  `components` and `fixVersions` Jira writes one history for each element, so that for these
  `Faithful` is about the text of the changelog, not about the set the field holds. Elements
  that the parser gives no row (null) are not distinguished.
* Placement: versions stand for `updated` and payload hash; a collection succeeds whole.
  A scan may miss issues only if something changed since the detection began, which
  is when `ORDER BY` answers shift.
* Fetch: the histories of a changelog are numbered in server order. A timeout or a broken connection
  is not retried as 429 and 5xx are, for `client.py:53` catches nothing: it is a `Refuse` with `NoAnswer`. `maxResults` 0 with issues stops the search by design (`stalled`).
* RunAudit: dry runs commit nothing and are left out; closed rows of earlier runs
  are forgotten, since no statement reads them; equal rows collapse.
  No code writes `'RUNNING'` to `last_status`, so the second statement of
  `reclaim_zombies` never finds a row.
* Doctor: what a check prints beside its verdict; the five queries of DB7 raise as one. A text
  column whose width Oracle does not tell (0) is judged by its name. CHAR semantics in
  the DDL raise an error in `schema_map`, which ends the command.
* FieldCatalog: ids are not reused by Jira. Which issues a run visits is left open.

## 9. Not modelled

* `capture`: writes fixtures from a search that is `iter_search_pages` without its guards; no state
  shared with runs.
* `jira/fake.py`, `config/settings.py`: a test double, and constants.
* `jira/parser.py` field by field: JSON to columns without control worth a state machine,
  apart from `truncate` (Text). The regular expressions of `db/schema_map.py`: Doctor takes what
  they find.
* `unified_*` tables and the query API: DDL and design only, no code yet.
* The minutes of cron: that `flock -n` drops a daily run is part of the fairness only.
* The size limits of Oracle IN lists and of LOBs.

## 10. Plan

Done: SyncRun, FieldHistory over Text, Placement, Fetch, RunAudit, FieldCatalog, FieldProfile and
Doctor with the theorems of all their safety properties, and Mirror with the refinement. The order was: what decides
whether data is lost (SyncRun), what the data is (FieldHistory), where it is shown
(Placement), how it arrives (Fetch), who is told (RunAudit), then names and counts, the
promise behind it all (Mirror), and what is said of the environment (Doctor).

The runs are about a dozen; a new question extends the run nearest to it.

To model next:

1. `DailyRun`: detection, profile and collection by one process, with the
   failure isolation of the daily steps, composing Placement with RunAudit's phases.
2. The constraint `UNIQUE (instance_id, issue_key)` when keys are exchanged between
   issues by moves, and the change of a field's `storage_kind` (design.md 888).

To prove next:

1. `CollectedIsShown` restricted to issues whose payload changed, which is what the code keeps
   of the statement that `Placement_shown_again` refutes.
2. What of `CatalogDebt` and `ClearedMeansRepaired` remains while Jira is renamed and retyped under a run:
   that the next catalog step requests what the last one could not see.
