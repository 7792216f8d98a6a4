# A formal model of rm3

rm3 is a content management system: node.js processes (the web front end, a job
runner and command line tools) over one PostgreSQL database, a redis cache and a
directory of files. Every page is an *entity*. The row of the visible page is in
`wh_entity`; `wh_log` holds one entry per revision, final ones and drafts; `wh_tag`
and `wh_geotag` index the tags of the visible pages; `wh_blob` names the files of a
page's revisions. All writes go through `lib/update/`, and what is hard about rm3 is
what happens when several requests, jobs and tools run at once, each with a copy, a
cached answer or a half-written file it got earlier.

This directory holds TLA+ modules, the configurations TLC checks them with, and
proofs that TLAPS checks.

| Module | What it is |
|---|---|
| `EntityUpdates` | the update operations over `wh_entity`, `wh_log` and `wh_tag`, statement by statement |
| `PageStore` | what those operations promise, as an abstract store that changes one operation at a time |
| `EntityUpdates_proofs` | type correctness, isolation, uniqueness, invisibility of drafts, redirects end |
| `EntityUpdates_recorded` | the visible page is in the log, and its tags are in the index |
| `EntityUpdates_refinement` | `EntityUpdates` implements `PageStore` |
| `MediaPages` | uploads, aliases and the jobs that make pictures, over files, blob rows and a cache |
| `MediaPages_proofs` | rows have files, pictures are of the upload, success is complete, failures have causes, edits carry pictures |
| `Visits` | logins, accounts, roles and permissions, their cache, and conditional requests |
| `Visits_proofs` | accounts own their rights, visits are by their own account, permissions are recent, a 304 is true |
| `Feeds` | paginated lists: seek, decoration, facets, links |
| `Feeds_proofs` | pages are whole; lists are read in order, nothing that stays is lost or repeated, counts are right |
| `Backups` | `rm3backup` of a site in use and `rm3load` of the result |
| `Backups_proofs` | backups hold their pictures, loads are whole, fail for a cause |
| `Connections` | the pool of connections, how operations hold them, fail and die |
| `Connections_proofs` | connections come back clean and once, answers are true |
| `MC...` and `*.cfg` | instances for TLC |
| `PROJECT.json` | components, runs, mutants, hazards, the map to the source |

`tlc -workers 2 -config Relocating.cfg MCEntityUpdates.tla` runs one of the
configurations, `tlapm Visits_proofs.tla` checks one of the proof modules.

The modules meet at the operations. `EntityUpdates` has their details; the others
take one as a single step, which is what its refinement of `PageStore` says visitors may
do, and add what only they are about: the files behind a revision
(`MediaPages`), the rights of accounts and the caches in front (`Visits`), the queries
over the rows (`Feeds`), and copying them to another site (`Backups`). `Connections` goes the other way: it forgets what the
statements do to the rows, and keeps on which connection they run and what becomes of it.

## Inventory

Paths are below `src/`. "Hard" names what a test would hardly reach.

| Part | State | Operations | Talks to | Hard | Correct when |
|---|---|---|---|---|---|
| Update operations `lib/update/{index,logentry,tags}.js` | none of its own; the three tables | create, load, update, commit a revision, change its workflow, move, delete, expunge; roles, permissions, credentials, blobs, tickets | `db.js`; called by handlers, tools, stores | interleaved transactions, stale copies, failures half way, deadlocks | a page is in one place; the log records the visible revision; the index matches it; redirects end; drafts show nowhere; operations end |
| Database `lib/db.js`, `db-schema.sql` | connection pool, the tables, their keys | BEGIN, COMMIT, ROLLBACK, error wrapping | PostgreSQL | a connection returned with an open transaction or not at all; error paths without a client | no two open transactions rewrite one row; connections come back clean; an error means that nothing was kept |
| Entities `lib/entity.js` | one copy per request | fromDb, fromLog, toLog, tags | everything | copies grow stale; a stub is another class | a copy says what its row or entry said |
| Workflow states `lib/states.js` | a state per log entry | publishDraft, approve, reject; processing | update operations, media | a state machine driven from stale copies | a state is taken from the entry it is stored in |
| Reads `lib/query.js`, `lib/middleware/fetch_entity.js` | three caches | entityFromPath, feeds, search, permissions, findBlob | handlers | stale caches, streams that end after an error | a cached answer outlives its truth by a bounded time |
| Page handlers `lib/mixins/`, `lib/protos/index.js` | the request | create, edit, draft, publish, delete, comment, moderate | update operations | decisions on the loaded copy | as for the operations |
| Command line tools `bin/` | the process | rm3mv, rm3rm, rm3load, rm3dump, rm3backup, rm3wf, rm3admin | update operations | run against a live site | as for the operations |
| Permissions and roles `lib/authorize*.js`, part of `query.js`, `update/index.js` | two tables, a cache | assign, deassign, permit, deny, lookup | handlers | cache never told; rows cascade away with the user's page | a withdrawn right ends |
| Blob stores `lib/fileblobstore.js`, `lib/blobstores.js` | files, `wh_blob`, a cache | add, alias, get, delete | media, tools | file and row are written apart; aliases share files | a row names a file that exists |
| Media and jobs `lib/protos/{photo,audio,vectorgraphic}.js`, `lib/workflow*.js`, `lib/runworkflows.js` | job rows, files | upload, edit, launch, tasks, wait | blob stores, update operations | several commits per upload, lost or failed jobs | a published photo gets its pictures |
| Users and authentication `lib/protos/user.js`, `lib/authentication/` | entity and credential | sign up, change password, log in, tokens | update operations | two commits per account | an account exists whole or not |
| OAuth provider `lib/openid/` | codes | authorise, exchange | authentication | a code used twice | a code works once |
| Feeds `lib/activityfeed.js`, `indexfeed.js`, `articlelists.js`, `pagination.js` | none | merge, page | reads | boundaries of pages and facets | no item lost or repeated |
| Templates `lib/loadtemplate.js` | none | create the first pages and users | update operations | partial failure | everything in the file is there |
| HTTP glue, views, schemes, forms, text | none between requests | routing, rendering | - | - | not modelled |

PROJECT.json lists the components with their files, and the hazards at their
lines.

## What EntityUpdates models

A **client** is one HTTP request or one command line tool, with one connection.
It loads an entity and, any time later, runs one operation on the copy:

| Model | Code |
|---|---|
| `wh_entity`, `wh_log`, `wh_tag` | the committed rows; `wh_geotag` is treated by the same statements, and is left out |
| `hand[c]` | `req.entity`, or the tool's entity; `viaLog`: it was loaded with a revisionId and has a `curLogRev` |
| `tx[c]` | the operation: its log entry `le`, `exec`, and whether it will insert or update the log row |
| `entDel[c]`, `entIns[c]`, `tagDel[c]` | what the open transaction has replaced, written and deleted |
| `target[c]`, `pc[c]` | the rows the current statement found, and how far the waterfall is |
| `LoadPage`, `LoadRevision` | `fetchViaEntityTable`, `fetchViaLog` |
| `CreateEntity`, `HoldComment`, `UpdateEntity`, `CommitEntityRev`, `UpdateWorkflow`, `DeleteEntity`, `MoveEntity` | the operation up to its `generateLogentry`: BEGIN, reading the old log entry, building the new one |
| `IssueClearTags`, `FinishClearTags` | `clearTags` |
| `IssueExec`, `FinishExec`, `FinishWait` | `execLogentry`; `Written` has a case for each `evtClass` |
| `Commit` | `writeTags`, `writeLogentry` or `updateLogentry`, `commit` |
| `Fail`, `LogNotFound`, `DeadlockDetected` | `doCleanup` / `postCommitErr`: ROLLBACK; also the end of a process, whose transaction PostgreSQL rolls back |
| `PurgeEntity`, then `IssueExec`, `PurgeRow`, `PurgeLog`, `IssueClearTags`, `PurgeTags` | `rm3rm -E` and `expungeEntity`: no BEGIN, so each statement commits by itself and `Fail` may leave the rest undone |

**PostgreSQL** is modelled as far as rm3 depends on it, at the isolation level the
code runs at, READ COMMITTED (`openTransaction` sends a plain `BEGIN`). A statement sees the rows
committed when it was issued. A row another transaction has rewritten makes it
wait; afterwards it looks at the new version of the row, and leaves it alone if
the WHERE no longer holds. An insertion into a unique index waits for the
transaction that holds the key, then fails or goes on. Hence the *Issue* and
*Finish* actions. A row keeps its `rid` through all its versions. Clients that wait
for each other are found, and one of them fails. These parts are marked external in the map.

**History variables.** `disturbed` collects the paths a *racing* operation has
committed to: one whose statement hit another row version than the one that was
there when its `clearTags` was issued, or none, or a Move whose copy was out of
date or of another page. A purge disturbs its path too. `defaced` collects the revisions whose log
entry was purged, taken back by a late save of a draft, or overwritten from a stale copy. Neither is read by an
action; the properties use them to say exactly when the code's promise holds.

**Abstractions.** A page's content is the number of the request that wrote it plus
its set of indexed tags: enough to tell whose content is where. UUIDs are numbers
handed out in order; `entityId` and `revisionId` of a new page are one number, since
no statement compares one with the other. Rows and entries leave out `note`, dates,
`hidden`, `proto`, the actor and `private`, which no statement of these operations tests.
`details.redirect` of a deletion (a URL off the site) is left out: the stub is gone as
far as redirects between paths go. `needsReview` is folded into the state
a held comment starts with; a comment that needs none is a `CreateEntity`. One
action does the tag inserts, the log write and COMMIT, because nobody sees or waits
for the first two before the third. A failed `clearTags` or `BEGIN`, which in the
code dereferences an undefined client and ends the process, is a rollback as well.
Handlers are taken as they are called: `updateEntity` gets `sameRevision` only for a
draft that is saved as a draft, `moveEntity` only from `rm3mv`, with `exec`.

## What MediaPages models

One photo, graphic or audio page and its revisions. A page's pictures are not
in its entity: a row of `wh_blob` for (name, revision) names a file.

| Model | Code |
|---|---|
| `files[r][n]` | the file of picture `n` written for revision `r`: which upload it shows, `Absent`, or `Torn` while `fs.writeFile` fills it |
| `blobs` | rows of `wh_blob`; `file` is the revision whose file the row names (an alias when it is not its own) |
| `misses` | the "not found" answers of `findBlob`'s cache |
| `saves`, `aliasing` | requests after `createEntity` or `updateEntity`: storing an upload, or making the aliases of a `batchAlias` |
| `jobs`, `bodies` | the job of a revision, and the task bodies that run; a body that has timed out runs on |
| `Create`, `Upload`, `Redraft`, `Tag`, `Toggle` | `createFunc`, `editFunc` with and without a file, a second upload to a draft, `tags.cgi`, the toggles |
| `WriteSource`, `FillSource`, `InsertSource`, `Launch` | `addBlob` of the upload and `launchWorkflow` |
| `FindOld`, `InsertAlias` | `aliasUnchangedBlob`, many at a time, the first error ends the batch |
| `TakeJob`, `ReadSource`, `WriteDerived`, `FillDerived`, `InsertDerived` | the runner and the task bodies of `workflowtasks` |
| `SaveFails`, `AliasFails`, `BodyFails`, `TimeOut`, `WebCrash`, `RunnerCrash` | failures of disk and database, the 30 s limit, the end of either process |

The file names of the three prototypes are constants of the module, compared with
one another by `FilesAgree`. The run has three names instead of nine: a source, a task
that makes two files and a batch of aliases apart. The queue's library (`wf`) is external:
how it counts "retry: 1" is left open, and a job whose runner died is queued again or lost.

## What Visits models

| Model | Code |
|---|---|
| `rows`, `creds`, `assigned`, `permits` | accounts in `wh_entity`, `wh_credential`, `wh_subject_to_roles`, `wh_permission_to_role` with the foreign keys of `db-schema.sql` |
| `making` | a sign-up between its two commits (`createEntity`, `createCredential`) |
| `permCache`, `topCache` | the redis entries of `fetchEffectivePermissions` and `fetchMostRecentChange`, with their lifetimes |
| `table`, `log` | the rows of `wh_entity` with their revision and `touched`, and the entries of `wh_log`, those of transactions under way included |
| `logins[b]`, `copies[b]`, `visits[b]` | a browser's session or token, its cached copy, its current request |
| `CreateUser` ... `PurgeUser`, `Permit` ... `Deassign` | `protos/user.js`, `rm3admin`, `rm3rm -E`; a transaction is one step |
| `FinishUser` | `createCredential`: it hashes the password and then inserts a row for the *path*, whoever has it by then |
| `SavePage`, `SaveAgain`, `DeletePage`, `MovePage` | the start of an edit: its log entry, with `evtTouched`, is made before its transaction has its locks |
| `PublishSave`, `PublishDelete`, `PublishMove`, `PurgePage` | `execLogentry` and COMMIT, at once or when an old draft is published; `expungeEntity` |
| `AskForSession`, `AskForToken`, `GrantSession`, `GrantToken` | the two password checks: finding the account, then its credential |
| `ArriveAsNobody`, `ArriveBySession`, `ArriveByToken` | `generateAccess` with `deserializeUser` or the bearer strategy |
| `FetchPermissions`, `PermissionsAreHere`, `FetchEntity`, `CheckAgain`, `AgainIsHere` | `entityFromPath` and the checks of `authorize`; a query and the `cache.set` of its answer are two steps |
| `Freshen`, `TopIsHere`, `Render` | `_mapFreshness` with `fetchMostRecentChange` and `smartEtag`, and `_mapView` |

Time is counted in ticks; the lifetimes keep their order (a cached "nothing" lives longer than
a cached permission). One page is visited, so the patterns of permissions are left out.
The most recent change is what the code reads: the newest `touched` among the rows that are there, which a purge
or an old draft lowers. History: `stamp` is the `touched` each revision was published with, `reused` the revisions that
were published with more than one, `late` and `at` in a row say how and when it came, `overtaken` names the accounts
that were replaced while their password was being hashed, `locked` those that have lost, or never got, a password.

## What Feeds models

One reader follows the next links of one list while others write. `rows` are the rows
of the table, each with what the sort keys and filters read of it; `page` is the page being made: the rows
of its query, the articles emitted so far, the counts that are in and the
`mergeFacet` level that waits. `Answer` is the query of `_queryGen` and
`_activityQueryGen` with its filter, order, seek and limit; `Ends` is the cascade of `end`
events through `mergeFacet`; `FollowLink` cuts the page and makes the token, as
`generateLastLink` does. `FailQuery` and `FailFacet` are the error paths. A decoration may fail: its article is emitted all the same, but
`async.each` then calls back at once, so the list has ended (`ListEnds`, `broken`) and what is decorated later is on the page only
while that waits for its facets.
History: `seen` is what the reader was shown, `steady` what has stayed in the list
unmoved all the while, `walk.shuffled` whether articles came out of row order or after the end of their list.

## What Backups models

`rm3backup` scans the paths, dumps up to `Concurrency` pages at a time (row, then
blobs, then each blob's file), then roles with permissions and users, credentials, and
the catalog, while the site is used; `rm3load` then loads blobs and pages together, the records one by one, and
the credentials together, and exits at the first error. `dir` is the directory, `new` the new site, with what it already
held (`old`): pages, blobs, permissions and credentials, any of which may be a key the backup needs (`Refused`).
A blob that cannot be read does not stop the backup: `CopyBlob` and `MisreadBlob` write junk, as `writeBlobs` does.
History: `unread` are the pictures that could not be read, `after` the accounts that got their credential after the scan.
`FetchedAssignments` keeps what the code does: the loop over roles goes on to the catalog after its first role.

## What Connections models

One process, its pool of at most `Conns` connections and its `Requests`. A request is a sequence of operations
(`Program`: permissions, page or revision, then what the handler of its kind does), an operation a sequence of statements
(`Sql`). `conns` has both ends of a connection: whether the pool has lent it, whether the server still
knows it, and the transaction open on it. `kept` is what is committed, by request and operation.
`Lend` and `Open` are `pg.connect`, `FinishOperation`, `Answer` and `GiveUp` the callbacks that call `done`, and there are four
ways to fail: `FailLook` (`done(err)`, so the pool closes the connection), `FailUpdate` with `Undo` (`doCleanup`, `postCommitErr`),
`FailCarelessly` (a failed `BEGIN` or first `DELETE` of `clearTags` comes without its client, and `doCleanup` throws) and `RefuseConnection`
(`handleConnectError`, after which everything but a look-up that takes `(err, done)` throws). What throws in a callback ends the
process and with it all its requests, whose transactions PostgreSQL undoes. `Sever` loses a connection, `SeverAnswer` the answer
to a write or `COMMIT` that was carried out.

## What TLC checks

| Run | Instance | Shows |
|---|---|---|
| `relocating` | 2 clients, two paths, one page; create, comment, edit, publish, approve, delete, move; `MaxId` 4 | `TypeOK`, `OneHome`, `WritesApart`, `RevisionRecorded`, `IndexExact`, `NoRedirectLoop`, `DraftsAreInvisible`, `PagesChangeAtOnce` |
| `finishing` | 2 clients, two pages; move, purge; `MaxId` 6; fairness | `RevisionRecorded`, `OperationsEnd`, `PagesChangeAtOnce` |
| `uploads` | 2 revisions, 3 names, 1 fault, 1 cached miss; fairness | `TypeOK`, `RowsNameFiles`, `PicturesMatchUpload`, `SucceededIsComplete`, `EditCarriesPictures`, `JobsFailForCause`, `EverythingSettles` |
| `visits` | 1 user, 1 address, 1 browser, a role with 2 permissions, 3 transactions, 2 ticks; 1 page that is not edited | `TypeOK`, `IdentityIsOwn`, `RightsEndWithAccount`, `AccountsCanLogIn`, `PermissionsRecent`, `NotModifiedIsTrue` |
| `copies` | 1 browser that is nobody, 2 pages, 3 revisions, 2 ticks | `NotModifiedIsTrue` |
| `feeds` | 3 entries, 2 of them with pictures, 1 to a page, four sort orders, a month facet, 3 writes | `TypeOK`, `EachShownOnce`, `ReadInOrder`, `RenderedWhole`, `CountsAddUp` |
| `restoring` | a photo and an account, 2 revisions, 2 roles, 3 sites to load into, 1 fault; fairness | `TypeOK`, `DumpedWithPicture`, `RestoredWhole`, `PicturesProcessed`, `LoadFailsForCause`, `LoadComesToEnd` |
| `pool` | 3 requests (an old revision, a new account, a photo with a new picture), 2 connections, 2 faults; fairness | `IdleIsClean`, `HeldByOne`, `AnswersAreTrue`, `RequestsEnd` |
| `old_draft` | 1 client, one path; edit, publish | `PresentIsLatestFinal` is violated |
| `saved_draft` | 2 clients, one path; edit, publish | `HistoryIsKept` is violated |
| `purged_stub` | 1 client, two paths; move, purge | `LiveHasHistory` is violated |
| `slow_photos` | 3 photos, 1 to a page | `EveryEntryIsReached` is violated |

**Bounds.** *EntityUpdates:* the lost updates, lock waits and stale tags of this code are each between
two transactions, and one tag and two contents are enough to see a tag that
stays or is missing. `MaxId` 4 lets two clients run up to four operations after each
other or in any overlap, three where a page is there already (a move takes two identifiers). `MaxId` 6 is
for two pages and a move of each. What runs against a purge is a move in the runs and any operation in the proofs. Three clients can meet in ways that two cannot,
a cycle of three waiting moves or the race told below; there the proofs take over,
which hold for any number. *MediaPages:* two revisions are one edit of one page, the
most that aliases relate; one fault is a crash, a failure or a timeout anywhere, with the retry
after it. *Visits:* three transactions are an account, its end and the next account of that name; two ticks outlive every cache entry.
`visits` leaves the site alone and `copies` the accounts, for the two meet only in the tag, which `visits` checks with one revision.
In `copies` three revisions are a first page, a draft and a change between its saving and its publication, or a draft saved twice; rows that
come late, and such as are younger than the cached change, do occur there. The third exception of `NotModifiedIsTrue`, a tag
whose revision was published twice, asks for three pages and four revisions, which is beyond the run; there only the proof speaks.
*Feeds:* three entries on pages of one make two links, so that a write can fall before, on
and after the token; *Backups:* two revisions are the dumped one and one that overtakes it; the sites to load into have
a key of each kind that may be in the way, a blob only if it is of the first revision, so that loads that end well occur as well.
*Connections:* three requests for two connections leave one in line while two run, fail or hold the pool; the three kinds
have every sort of operation and of failure between them. Two faults are a failed statement and a lost
connection in one operation, or a death while another request rolls back.

**What is quiet.** In `EntityUpdates`, `Quiet` is a stuttering step when all is idle, so TLC's deadlock
check finds an operation that is stuck; so does `Done` in `Connections`. The other runs switch the check off: a
reader has read the last page, a page has its bounded number of revisions, the time is up.
The clients are interchangeable and declared symmetric in the safety runs;
paths are not, since one of them is seeded, and liveness runs have no symmetry.

What the passing properties say, beyond their comments in the modules:

- `RevisionRecorded`: the visible page is the revision it claims to be. There is a
  final log entry with its number and its content (for a page that was moved here:
  a Move entry that brought it here), although the row and the log
  are written by different statements, from data read at different times. It leaves out
  purged and taken-back revisions, which `defaced` names.
- `IndexExact`: a path's tags in the index are exactly the visible page's, unless an
  operation raced there. It is the race, not the statement order, that breaks the
  index: under READ COMMITTED the second of two edits clears only the tags it saw.
- `PagesChangeAtOnce`: visitors see each operation happen in one step of `PageStore`. A
  Move that comes after a purge still leaves its stub, hence `LeaveStub`.
- `NoRedirectLoop`: following the stubs of moved pages ends, except through a path where a
  purge took the page from under a Move (`disturbed`). It is checked without purges; with them the proof takes over.
- `RowsNameFiles`, `PicturesMatchUpload`, `SucceededIsComplete`, `EditCarriesPictures`: whichever process dies,
  a row names a whole file, made from the upload of its own revision; retries and timed-out bodies that write the same
  files are named in `hurt`.
- `JobsFailForCause`: a job also fails when a visitor asked for the upload before its row
  was there, for 10 seconds.
- `IdentityIsOwn`, `RightsEndWithAccount`: no visit is taken for one of a later account, and no role is inherited by one. It
  rests on the comparison of entityIds and on `ON DELETE CASCADE` with the DELETE of a stub. A password may be: `createCredential` inserts by
  path, so if a name is deleted or purged and made again while its first password is still being hashed, the new
  account gets it (`overtaken`), and its own may then find the key taken.
- `AccountsCanLogIn`: whoever keeps the address of an account whose credential was stored has that password, whatever was overtaken.
- `PermissionsRecent`: how old an answer may be: a cache entry lives its time from when the answer *came*, so its age is
  that and the time the query took.
- `NotModifiedIsTrue`: a 304 keeps a copy of the page's current revision, made for the same reader. Of the rows that are
  in the site it may miss those younger than the cached most recent change, and, whatever their age, those that
  came with a `touched` that something published before had or passed: then the most recent change stays what it was. A draft that was published, saved again and published again keeps its revisionId, so an old tag may
  return (`reused`). Purged pages it may show as long as the tag stays.
- `EachShownOnce`, `ReadInOrder`, `CountsAddUp`: nothing that stayed in place is lost or repeated between pages. They
  ask that the articles come out in row order and before the list ends, which decorated ones need not: see `slow_photos`, and `broken` in `RenderedWhole`.
- `DumpedWithPicture`: a page's picture is in its dump; the picture's file is junk only if a purge or a failed read
  made it so, neither of which stops the backup.
- `IdleIsClean`, `HeldByOne`: what the comment at `lib/db.js:103` warns of does not happen, on any path that does not end the process:
  a connection whose transaction cannot be rolled back is closed.
- `AnswersAreTrue`: a request that is told of an error has kept nothing of the operation that failed, and everything of
  those before it (a user's page without its credential). The one exception is an answer to `COMMIT`, or to a
  single write, that is lost.
- `LoadFailsForCause`: the database refuses a load only when an account was made during the backup,
  whose credential is dumped without its page, or when the site already held a page, blob, permission or
  credential of the backup. Apart from that a load fails for a query or file operation that fails (`LoadFails`).

**Fairness.** `EntityUpdates!FairSpec` asks weak fairness of `Work(c)`: a statement that has been sent is
executed when its locks are free, its callback runs, and a deadlock is broken (PostgreSQL does
so after `deadlock_timeout`). `MediaPages!FairSpec` asks it of the steps of started requests, of
the aliases, of the running bodies and of the runner that polls the queue;
`Backups!FairSpec` of the two programs; `Connections!FairSpec` of the pool, which serves in order, and of
statements, which PostgreSQL answers or fails, but not of `Restart`. No fairness is asked of requests, of
writes by others or of faults. Weak fairness is enough because a client that waits does so for one that can
itself go on, or is in a cycle, in which `DeadlockDetected` stays enabled.

**Disagreements with the documentation or comments**, one run each (PROJECT.json quotes the lines):

- `old_draft`: publishing executes `UPDATE ... WHERE path` whatever revision the page
  is at, so an old draft takes the page back behind later final revisions.
- `saved_draft`: saving a draft again overwrites its log entry by `revisionId`. If the
  draft has been published since it was loaded, the entry of the visible revision
  is changed and is no longer final.
- `purged_stub`: a page's Move entry lies under its old path; purging the stub there
  removes it, and the page can then no longer be edited (`update.log_not_found`).
- `slow_photos`: articles of a list are emitted when their pictures have been looked up; the link is made from
  the order of emission, so it may skip an entry.

Three more disagreements are no runs of their own, for a passing property says exactly how far they go and excepts the rest:

- `NotModifiedIsTrue`: "whenever a new page is added, the ETags need to change" (`docs/cache.md:27`). A page that comes out of an old
  draft, or of an edit that had waited, is `late` and leaves the ETags of the pages that list it what they were (`lib/query.js:492`).
- `RenderedWhole`: "`end` when it's complete" (`lib/indexfeed.js:59`). The first look-up that fails ends the list (`broken`), and articles
  are emitted after its `end` (`lib/indexfeed.js:86`).
- `DumpedWithPicture`: "will copy the contents of the site" (`docs/cli.md:38`). `rm3backup` writes `undefined` for a picture
  it cannot get, and completes (`bin/rm3backup:61`).

**Mutants.** Each property of a passing run has a mutant in PROJECT.json: an operator in the module,
marked as such in its comment, that replaces a definition the way a plausible mistake in the
code would (an UPDATE that forgets `revisionNum`, a `clearTags` that clears nothing,
a connection returned without ROLLBACK, a row inserted before its file, a cache key without the
user, ...), and that makes TLC find the property violated.

## What is proved

All theorems hold for any values of the constants that satisfy the named assumptions of the modules: any
sets of clients, paths, tags, users, any workload, lifetimes and bounds.

**`EntityUpdates_proofs`**

- `TypeCorrect`: `Spec => []TypeOK`.
- `OnePageOnePath`: `Spec => []OneHome`. No two rows share a path, an entity or a revision.
- `TransactionsApart`: `Spec => []WritesApart`. No row is rewritten by two open
  transactions; what they have written collides neither with the table nor with each other.
- `DraftsStayHidden`: `Spec => DraftsAreInvisible`, an action property.

For the first three the inductive invariant is `Inv == TypeOK /\ OneHome /\ WritesApart`. `OneHome` alone is not
inductive: `Commit` puts `entIns` into the table, so what has been written must
already be known not to clash, which is the third conjunct of `WritesApart` for the table and
its last for the other open transactions, which may commit first. That in turn needs that no
two transactions have replaced the same row and that a replaced row is still there. So the argument is:

1. `FinishExec` and `FinishWait` are where a client's writes become settled. There, the row locks
   (`FoundIsFree`) give disjoint `entDel`, and the unique indexes
   (`Contended`, `Duplicate`) give writes that clash with nothing.
2. `Commit` moves one client's settled writes into the table; for every other client the table
   changes only by rows that do not clash with its own.
3. All else leaves the tables alone, or only removes rows that no open transaction has
   replaced (`PurgeRow`), or empties the client's own sets (`Rollback`).

For `DraftsStayHidden` it is `Provisional`: a client without `exec` never gets to a statement on
`wh_tag` or `wh_entity`, so that when it commits it holds nothing to commit there. What one
client holds, no other client's step changes (`OthersKeep`).

- `RedirectsEnd`: `Spec => []NoRedirectLoop`.

It needs no order on moves: a loop would need a stub that closes it, and when a stub is made, the row it leads to does not redirect;
a set of stubs without a new one was there before. The invariant is `Straight`. `IdsApart` says that
the entities of pages (`PageIds`) and those of the stubs that Moves make (`StubIds`) never meet, nor do the revisions
of Moves (`MoveRevs`) and of edits (`EditRevs`): all of them are handed out once. So the row that a Move takes
along, found by the page's entity, is no stub, unless the Move's copy was of another page, and then it races.
`Forward` says of what a client is about to commit that a new stub leads to a row that does not
redirect and is committed with it, or that the operation raced, whose paths `Commit` names in `disturbed`.

**`EntityUpdates_recorded`**: `PagesAreRecorded`, `Spec => []RevisionRecorded`. The fact is carried by
the open transactions (`Records`): the log entry of each describes the rows it has
written, and the entry it is to overwrite is in the log or was purged. At `Commit`, an entry that is overwritten
while another row is at its revision would clash with that row (`Duplicate`) or is taken back
(`Undoes`). Working on this proof showed two cases that two clients and small contents had not: three clients, one
approving a stale copy of a final entry between two publications of a redrafted draft; and a Move of a page that was
deleted and created again with equal content. `Undoes` and `Raced` name them.

The same module has `IndexFitsPages`, `Spec => []IndexExact`, by the invariant `Indexed`. Nothing in the code relates
`clearTags` to the statement on `wh_entity`; what does is that a row bears the number of the operation that wrote it (`Signed`), so that a row
that is still the one seen when `clearTags` was issued has not been rewritten in between, and then the tags it saw are all there are
(`Cleared`). `Settled` says that what an operation writes, unless it raced, is its log entry's content at the path where it will put the tags (`TagPath`);
`Bare`, that stubs have none. Two operations that saw the same row both have it in hand, but the second to commit has raced.

**`EntityUpdates_refinement`**: `UpdatesImplementPageStore`, `Spec => PagesChangeAtOnce`. Beside `Inv` it needs that
revisions are numbered before they are used (`Numbered`, which tells the moved page from its stub) and that
what an open transaction holds is the effect of its log entry (`Planned`). Then `Commit` and `PurgeRow` are steps of
`PageStore` and nothing else changes the pages.

**`MediaPages_proofs`**, for any chain of tasks, list of batches, number of revisions, faults and edits:

- `MediaTypes`: `Spec => []TypeOK`.
- `RowsHaveFiles`, `PicturesAreOfUpload`, `SuccessIsComplete`, `FailuresHaveCauses`: `[]RowsNameFiles`,
  `[]PicturesMatchUpload`, `[]SucceededIsComplete`, `[]JobsFailForCause`.

These five follow from one invariant, `IInv`. Its core is `JobOK` and `BodyOK`: a body has made every file before the one it
is at (`Made`), and unless its revision was hurt by a fault or a second upload it is the only body of that
revision and no row names the file it writes, or a later one (`Unmade`). Hence a file that a row names is torn only
where something went wrong, an undisturbed body never finds a row in its way (`NoRowInTheWay`), and the last file
of the last task completes the set. `SaveOK` says the same of the request that writes the upload, before there is a
job. `RowsInv` says that a row is of the revision's own upload or an alias of a row of an earlier one, from which
`SameFile` follows pair by pair: two aliases agree because the rows they copy do, and an alias stands
beside a file of the revision's own only where an upload was saved over a draft. Every step but the crash of the
runner touches one revision at most (`Touches`, `UntouchedIsOK`), so each lemma speaks of that one.
The proof uses `FilesMadeOnce`: no two tasks make the same file, which holds of the chains in `lib/workflowdefs`
(`FilesAgree`); without it a task would find the other's row in its way and fail for no cause.

- `PicturesAreCarried`: `Spec => []EditCarriesPictures`.

Beside `IInv` it needs `Carries`, about an edit without an upload to which nothing went wrong: the names of the batches before the current one have
their alias, those of the current one have it or are still to be made, and none of the later batches has begun; the
request is done after the last. An alias names the file its name had in the old revision, and a row once there
stays as it is (`Growth`). It uses `BatchesApart`: no name is in two batches, which holds of the batches in `lib/protos` (`FilesAgree`).

**`Visits_proofs`**

- `VisitTypes`: `Spec => []TypeOK`, from the invariants below and `Ranges`, which bounds the clock, the revisions and the history.
- `RightsGoWithAccounts`, `AccountsLogIn`: `Spec => []RightsEndWithAccount`, `Spec => []AccountsCanLogIn`. The
  invariant `AccountsInv` adds that ids are never used twice, that a sign-up on its way is of the account at its name or was overtaken by
  that one (`IdsAreOwn`), and that it still has its account's address, unless the account was edited.
- `VisitsAreOwn`: `Spec => []IdentityIsOwn`, from `VisitsInv`: at every stage the visit's account is its browser's (`Sound`), and each
  step of a visit leads to a stage that is (`NextStage`).
- `PermissionsAreRecent`: `Spec => PermissionsRecent`. `PermsInv` says that an answer on its way that differs from the
  tables has been made wrong since it was asked for (`AnswerIsRight`), and a cached one within its lifetime and the time it took
  (`CacheIsRight`); it expires within its lifetime from now.
- `NotModifiedHolds`: `Spec => NotModifiedIsTrue`. `TablesInv` says that each row is a published revision with its stamp (`RowFits`,
  `EntryFits`), and `SiteGoesOn` how rows and stamps may change in a step, which is all the rest needs to know of editors.
  `TopInv` says of the cached most recent change, and `AnswerTells` of one on its way, that what was touched later came late or
  since it was asked for (`Covers`). `CopiesInv` (`CopyFits`, `CopyTells`) says that a copy's tag tells its page's
  revision, its reader and a most recent change, and that what the copy does not show came late or was touched later than that
  (`Shows`); a client with a token has no copy. So if the tags agree, a row that the copy lacks is late, or younger than the
  answer; but the tag names a revision and not its `touched`, so nothing is said once that was published twice.

**`Connections_proofs`**, for any number of requests, connections and faults, and any workload of the three kinds:

- `ConnectionsTyped`: `Spec => []TypeOK`.
- `ReturnedClean`, `HeldOnce`, `AnswersTrue`: `[]IdleIsClean`, `[]HeldByOne`, `[]AnswersAreTrue`.

One invariant, `Inv`, follows a connection from hand to hand. `HeldByOne` is a conjunct of it: a step of one request
changes a connection no other request holds (`OwnStep`, `OthersStay`). `OnTheWire` says that what is written on a
held connection and not committed is what its holder has sent since BEGIN (`Sent`); so COMMIT keeps the whole
operation (`Performed`), a lost answer leaves the whole operation or nothing, and a connection whose session
ended has nothing. `AtRest` says that nothing is left on one that is given back. `Waiting`, who is in line is there
once and holds nothing, is what lets `Serve` give the first in line a connection. `Books` adds up what every operation has kept.

**`Backups_proofs`**, for any photos, accounts, records, revisions, faults and contents of the new site:

- `BackupsTyped`: `Spec => []TypeOK`.
- `BackupsHavePictures`, `LoadsAreWhole`, `RestoredAreProcessed`, `LoadsFailForCause`: `[]DumpedWithPicture`,
  `[]RestoredWhole`, `[]PicturesProcessed`, `[]LoadFailsForCause`.

The invariant is in three parts, one for each of the site, the backup and the load. The directory no longer changes once
it has a catalog, and the load reads nothing else; so the only steps that disturb a part that is not their own are those of the
site under a backup, and `SiteMoves` says all that they may do. `Kept` is what makes `DumpedWithPicture` inductive:
a revision that had its picture keeps it while it is the page's, and no picture is ever added to an older
revision. A picture on a list of blobs was in the site when that was made and is gone only for good (`Lasting`, `Listed`), so what
finds no row in copying has lost it by a purge (`Lost`). `Covered` says that an account with a credential is still to be dumped, or is dumped, or was made after the
scan; with it a credential that finds no page has its cause (`RefusedForCause`). `PagesOK` accounts for every page and
picture of the new site, and `RecordsSaved` says that the directory has each permission once, so that nothing of the load's own is ever in its
way and what is in its way was held before (`KeyHeld`).

**`Feeds_proofs`**, for any entries, page size, facets and bounds on the clock and the writes. It starts from the operators: `InOrder` makes
a sequence of a finite set and an order, in which every element has one place (`PlacesAreTaken`, a pigeonhole argument); hence an
answer holds the selected rows after the token, the first `Limit + 1` of them, in order (`AnswerIs`, `AnswerIsOrdered`).

- `FeedTypes`, `PagesAreWhole`: `[]TypeOK`, `[]RenderedWhole`. `Made` says how far a page has come: the levels of `mergeFacet` below the
  one that waits have their counts, the list has ended when the first one waits, and it is answered when the last one ends. Unless a decoration
  has failed, a list that has ended has emitted every article.
- `ListsAreReadInOrder`, `WhatStaysIsShown`, `CountsAreRight`: `[]ReadInOrder`, `[]EachShownOnce`, `[]CountsAddUp`.
- `WhatStaysIsReached`: `[](~walk.shuffled => EveryEntryIsReached)`, and `QuickListsAreComplete`: `[]EveryEntryIsReached` where no article
  has a picture to look up (`Slow = {}`). So the order in which look-ups come back is the only way in which a list loses an entry, as `slow_photos` shows one doing.

`WholeInOrder` says that a page's articles came in row order and before its list ended. Three invariants build on each other, and TLC checked them on the instance of `feeds` before they were proved. `Reading`: the token is the last article shown, what was shown is sorted, and
the page's rows are sorted and come after the token. `Following`: an entry that has stayed is still ahead of the token or was shown; if it is
ahead, it is on the page or after a full one, so that the next link keeps it ahead. `Untouched`: while nobody has
written, the list is what it was, and the counts that are in are its own.

The theorems on lists have hypotheses, each stated in the theorem. `NoTags` is about the list the reader enters by: a tag's list is
ordered by path while its token compares what the list is sorted by, and its next link drops the tag, so nothing is claimed of it. `OneRowEach` says that an entry
matches one permission; an entry that two of a user's permissions match has two rows, and is shown twice (`WhatStaysIsReached` does without). Both
hold in the `feeds` run. Assumptions on the constants: entries are a finite set with different paths (`PathsDiffer`: the column is unique), pages
have at least one article (`LimitIsPositive`), facets are a list (`FacetsAreListed`), and the clock's bound is not below its start (`BoundsAreNats`).

**Only model-checked**: liveness, that is `OperationsEnd`, `EverythingSettles`, `LoadComesToEnd` and `RequestsEnd`, which the
prover does not do; and the four counterexamples. Every invariant and action property of a passing run has a theorem.

## Not modelled, and why

- Rendering, forms, schemes, i10n, text helpers, logging, routing tables: no state between requests. Search
  (`tsvector`) follows the row it is a column of.
- `deleteBlob`, `waitForWorkflow` and `scheduleWorkflow` are called by tests only; `forgeLogentry` by a branch of `rm3load`
  that its options never reach; `publishWorkflow.reject` by nothing.
- Authorisation codes are signed strings of a library, kept nowhere; password hashes, second factors, logins
  through other sites, the change of a password, the session store and the rate limiter are libraries or a single statement.
- A failed `BEGIN` or `clearTags` ends the process by a TypeError: so in `Connections`; in `EntityUpdates` it is the
  rollback that PostgreSQL does then.
- OpenID's consent page (`authorize`) is left out: it records a grant under `user.id` and `client.id`, which no object of this
  code has.
- The second answer to a request whose list query failed is express's affair; `FailQuery` models the first.

## Plan

Next, in order: abstract specifications for `Connections` (a pool that lends each connection to one holder) and
`Backups` (a site copied as it was at some moments), each shown to be implemented as `PageStore` is; lists entered by a tag,
with what does hold of them; the patterns of permissions (ltree queries) as operators
checked against a reference definition; the change of a password beside logins.
