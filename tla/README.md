# A TLA+ development of garage-admin-console

garage-admin-console is a web console for a Garage object store. A Go backend
(`backend/`) authenticates operators with GitHub, proxies their requests to
Garage's admin API and S3 API, and adds what Garage does not offer: lists with
per-item details, permissions set as a whole, bulk deletion, ZIP downloads, a
guard in front of dangerous repairs. A React frontend (`frontend/src/`) is the
only client meant to call it.

This directory holds TLA+ models of the parts where requests, timeouts, failures,
cached answers and Garage's own state interact, TLC configurations that check them
on small instances, and TLAPS proofs of the main results for every instance. Line
numbers below and in `PROJECT.json` refer to the sources next to it.

## 1. The system

| Part | State it keeps | Operations | Hard because | Modules |
|---|---|---|---|---|
| Bucket key permissions (`handler_bucket_key_perms.go`, `handler_console_access.go`, grant / revoke in `handler_buckets.go`) | none; Garage holds the flags | PUT a permission set, console access, grant, revoke | one PUT is a read and up to two calls; any call can be refused, lost, or applied after it was given up; requests of other operators fall in between | `BucketKeyPerms` |
| Bucket and key lists (`list_enrich.go`, `handler_lists.go`) | two TTL caches, the memo of missing endpoints | list with details, page, clear after a mutation | fetches race the clear; a pool of eight workers feeds from a channel; the client may leave | `ListCache`, `InfoPages`, `Server` |
| Batch download (`handler_objects.go:507-860`) | the ticket store, one archive per GET | issue, purge, redeem, stream | single use against racing GETs, expiry, restarts; an object can break off after its archive entry was begun; colliding names | `Voucher`, `BatchDownload` |
| Repair guard (`repair_guard.go`, its callers in `handler_repair.go` and `handler_nodes.go`) and its mirror in the console (`lib/repair-guard.ts`, `routes/repair.tsx`) | none; the cluster's health; the query cache | ask three questions at once, decide, forward | the answers are of different moments of a changing cluster, and partial; the console decides first, on polled answers | `RepairGuard`, `RepairPage` |
| Bulk deletion (`handler_objects.go:894-1132`) | none; S3's objects | batch delete, prefix delete | chunks and pages, refused keys, failed requests that half happened, other clients | `ObjectDelete` |
| Upload (`handler_objects.go:285-505`, `object-browser.tsx:137-460`) | the browser's queue | enqueue, retry, HEAD-then-PUT | the existence check and the write are two requests; answers are lost; the uploader is unmounted while its queue runs | `Upload` |
| Object browser page (`object-browser.tsx:475-1069`, `lib/object-browser.ts`, `hooks/`) | prefix, selection, dialogs, react-query's cache of listings | navigate, list, select, delete, download, grant access | every answer finds the page at another prefix, with another selection, or after another answer | `ObjectBrowser` |
| Login session (`auth.go`) | everything is in the browser's cookie | login, callback, logout, sliding refresh, limits | responses of overlapping requests overwrite the cookie in any order | `Session` |
| Storage health (`handler_storage_health.go`, `handler_blocks.go`) | a cache and a lock | three fan-outs, merge per node | partial answers; a lock held during slow calls; clients that leave | `StorageHealth` |
| Dashboard and maintenance status (`routes/index.tsx`, `lib/attention.ts`, `lib/maintenance-status.ts`) | baselines of counters; the query cache | attention panel, cards, recommendation | "nothing to report" must not come from what was not seen | `StorageHealth`, `Dashboard` |
| Layout update tracker (`components/layout-update-tracker.tsx`) | none | steps, banner, force dialog | derived from a history of which nodes may be missing | `LayoutTracker` |
| Layout editor (`routes/layout.tsx`, `lib/layout-draft.ts`) | the draft; Garage holds the staged changes | edit, stage, preview, apply, revert | other operators stage and apply too | `LayoutEdit` |
| Pages, queries and forms (`routes/`, `components/`, `hooks/`, `api.ts`) | react-query's cache, drafts of forms, mutations under way | 28 operations, navigation, polling | one change shows on several pages; background answers land in edited forms; sequences of clicks amount to something else | `Console`, `ConsolePages`, `ConsoleForms`, `TokenForms` |
| Server lifecycle (`main.go`, `otel.go`), audit and access log (`middleware_audit.go`, `middleware_accesslog.go`) | in-flight requests, a capped copy of each response | serve, drain, close, flush; derive the lines | budgets of nested waits; panics; responses cut short | `Server` |
| Single-call proxies (`handler_cluster.go`, `handler_nodes.go`, `handler_keys.go`, `handler_bucket_aliases.go`, `handler_admin_tokens.go`, `handler_workers.go`, `handler_metrics.go`, `handler_inspect.go`) | none | validate and forward one call | little: one call each | their effects, in `Console` |

The parts meet in four ways. Every handler that changes buckets, keys or objects
clears the list caches (`invalidateListCaches`). Every call to Garage goes through
one HTTP client with a ten-second timeout (`garage.go:44`), so "no answer" is an
outcome of each of them while the call may still take effect. Every protected
request passes the session middleware, so its response may carry a cookie. And
everything an operator sees is an answer in the query cache of their tab, which
their own mutations invalidate and those of others do not.

What makes each part correct is what the properties below state; the hazards of
the code they were written for are listed, line by line, in `PROJECT.json`.

## 2. The modules

Each component has a module `M` with its constants, state and properties, a
module `MCM` that only gives TLC its values and one `.cfg` file. The proofs are in
eight modules, kept apart from the specifications: `BucketKeyPermsProofs`,
`BatchDownloadProofs` and `ObjectDeleteProofs` of the module they are
named after; `ListCacheProofs` of the lists, of `InfoPages` and of `Server`, which extend
them; `StorageHealthProofs` of that module, `Dashboard` and `LayoutTracker`;
`ClusterProofs` of `RepairGuard`, `RepairPage` and `LayoutEdit`; `BrowserProofs` of
`Upload` and `ObjectBrowser`; `ConsoleProofs` of `Session` and `Console` with its
three modules. Modules that share a proof module have names of their own
for their parts (`PageSpec`, `InfoSpec`, `ServerSpec`, `LayoutSpec`, `BrowserSpec`,
`ConsoleSpec`). Five modules compose others:

- `Server` extends `ListCache`: its requests are that module's.
- `InfoPages` extends `ListCache`: what comes first on a newer Garage.
- `RepairPage` extends `RepairGuard` and instantiates it once more, as `Check`: the
  console asks the guard's three questions before the backend does.
- `Dashboard` extends `StorageHealth` and `LayoutTracker`: what the pages make of the
  answers.
- `Console` extends `ConsolePages`, `ConsoleForms` and `TokenForms`.

`BatchDownload` implements `Voucher`, an abstract specification.

A module also defines, right before the definition it varies, each plausible slip
used to show that a property can fail (`PROJECT.json`, `mutants`); these variants
occur in no specification. A property made of several parts has a mutant for
several of them.

### BucketKeyPerms

The flags of one key on one bucket (`garage`) and any number of requests, each a
handler goroutine with a program counter. `PutPermissions`, `GrantConsoleAccess`,
`GrantBucketKey` and `RevokeBucketKey` are the four handlers up to their first
call; `ReadBucketInfo` is `setBucketKeyPermissions` from the answer of
`GetBucketInfo` to the first call it sends; `CallSucceeds` and `CallFails` are what
the handler does with the answer of Allow or Deny. `GarageApplies` and
`GarageRefuses` are Garage. A call that failed for the handler stays "sent" and
may be applied later: a timed-out call. `dirty` says that an effective change was
not followed by a clear of the list caches; `foreign` is a history variable, "another
request changed the flags since this one read them".

`NeverLockedOut`: a request that nobody disturbs never leaves the key with less than it
had before it has all that was asked for, nor with nothing if it had something.
`AnswerIsWanted`: what its answer says is what was asked for; `DirtyIsExplained`: when the
caches may be left uncleared; `ConsoleKeepsOwner`: the console never changes an owner
flag. Two requests, all seven nonempty flag sets and all four handlers show every pairwise
interference; a third request adds only a second source of it.

### ListCache and InfoPages

The two caches as one function over bucket and key ids, Garage's history of each
item as the sequence of the times at which it changed (its length is the current
version), list requests with their worker pool, and mutations with the two clears
of `invalidateListCaches` as separate steps. A fetch is three steps: sent, read by
Garage, stored. `crossed` marks a fetch that read before a clear and was stored
after it. The path modelled is that of Garage v2.4, which production runs.

`StalenessBounded`: what a row is filled with was Garage's own at most TTL + timeout
before it was looked up or fetched. The list is answered only after all its fetches
(`list_enrich.go:353-361`), which for a long list are many rounds of up to ten
seconds, so what is shown can be older by them. `StaleOnlyIfCrossed`: a row
predates an answered mutation only if its fetch crossed the clear. Two lists, one
mutation, one bucket, one key, one worker and a clock to 3: a TTL and a timeout of
one tick each are enough for an entry to be fresh, at its limit and expired.

`InfoPages` begins a list where the code does: `listAllInfo` asks page by page
(`ListInfoPage`) for a list that others change meanwhile, and goes on as in `ListCache`
when Garage lacks the endpoint (`Unsupported`, `FallsBack`). `stayed` is history: the
entries that exist ever since the walk began. `PagesAreWhole`: a list that is not called
truncated has them all. Five entries, pages of two (of which one overlaps) and a cap
of three pages let a walk end early, exactly and at the cap, and the entry that a
page begins with be deleted. The fallback is explored from an empty walk, since nothing of the walk
is used by it.

### Voucher and BatchDownload

`Voucher` is what a download link promises: a code is offered once, is good until it
is taken or lapses, and whoever takes it gets its goods, and nobody else ever does.
`BatchDownload` has the ticket store with its clock, posts, gets and restarts of the
process, and the archive of each get, entry by entry. A key is its path segments,
the " (n)" suffixes it already carries and whether it ends in a slash; `Sanitized`
is `sanitizeZipEntryName` on that form, with the effect of dropping control
characters and of neutralising a drive prefix on a segment given as the constants
`Strip` and `Neutral`; `NamesAssumption` says what these do to a segment, as the two
functions of the code do. A name is a tuple of the same shape, so that a key that
really is called "a (1)" collides with the second "a".

`ImplementsVoucher` is `Ticket!Spec`, with `Ticket` the instance of `Voucher` in
which a code in the store is good, any other that was issued is spent, and a
get holds what it was let in with. Vouchers know no clock, bucket or
process: expiry, the purge of a POST, a restart and a GET for another bucket, which
burns the ticket, all map to `Lapse`. `RedeemExactly` adds what the abstraction
leaves out (a GET is served exactly while its ticket is fresh), `RefusedOnlyWhenFull`
that no slot leaks, `CompleteArchive` that every key is in the archive or in
`_errors.txt`, `SafeNames` that names are unique and stay below the directory.
Two posts, gets, tokens and buckets, room for one ticket, one restart; key lists of up
to three keys chosen for collisions. Room for one ticket is enough for a full store,
and a clock to 1 with TTL 0 for a ticket at its limit and one past it.

### RepairGuard and RepairPage

A cluster whose nodes change role, link and work at any time, and one repair
request: the three concurrent calls, each of which answers with what it saw at
its own moment or fails, the verdict, and the launch. The history variable `unfit`
is the set of storage nodes that were down or syncing during the whole of the
asking so far; `held` and `bad` are the nodes that held metadata, or were out of
step, at some moment of it. The guard does not and cannot see a node that fails
after it answered; `NoLaunchDuringOutage` says exactly what it does give, and
`OnlyStorageBlocks` that a refusal is always owed to a storage node.

`RepairPage` puts the console in front: `Confirm` is the dialog's confirmation,
`Refetched` and `Recheck` are `assertRepairAllowed`, which fetches the three
again and evaluates `evaluateRepairGuard` on them, `Send` hands the request to the
guard. A failed refetch of the roles leaves the earlier roles in place
(`RolesStay`). `PageAsksOnlyWhenFit` holds of the page alone, without the server's
guard behind it.

Two nodes let one answer for, or hide, the other. The run has table sync workers
only; that Merkle and insert workers do not block a repair, as the comment at
`repair_guard.go:40-42` says and the one at 24-26 does not, is in the model and in
the proofs for any set of kinds.

### ObjectDelete

The objects under the prefix, numbered in S3's order, one deletion request, and
other clients that upload and delete. What a batch still has to send is a set, of which
each chunk takes some keys: the order is the client's. The answer's errors are counted
by the key they name. `ListPage`, `DeleteChunk` and `DeleteFails` are the
loop bodies of `handleDeletePrefix` and `deleteKeys`; a failed `DeleteObjects` may
have deleted any part of its keys. `CleanMeansGone` is what an answer without errors
means, `CountsAreTrue` that no key is counted twice (`CountedOnce`), that the cap is
respected and that `truncated` means that more is left. Five keys, chunks and pages of two, a
cap of four for a prefix, which like the real one is a number of full pages and is
reached with more, with nothing, or not at all behind it; and a cap of five for a batch, so
that one of three chunks fails after one that did not. A prefix deletion
whose chunk failed on a later page ends with that chunk's errors and `truncated`
false, and only another listing tells that more pages exist; `TruncatedMeansMore`
is therefore stated in one direction.

### Session

One browser and one user. The whole session is in the cookie jar; a request
carries a copy, `authMiddleware` decides from the copy, and the response, held in
`reply`, arrives later, in any order, or never. `Login`, `Callback`...,
`Logout` are the handlers; `Refreshed` and `OverLimit` the middleware's two rules.
The browser starts with nothing, or with the undated cookie of an older build
(`Legacy`), which its first request dates.
`activity` is a history variable: the times at which requests were let in, by the
login that made their session, as far back as the idle limit reaches.

`AbsoluteLimit`, `IdleLimit` and `OnlyCrossingsUndoLogout`, over two overlapping
requests, two states, idle 2, refresh 1, absolute 3, clock to 5. The scaled-down
times keep the order of the real ones (5 min <= 1 h <= 12 h) and let a session
reach either limit first. A response that was under way during the logout does bring
the session back: the server keeps nothing that could refuse its refreshed cookie.

### ObjectBrowser

One tab on one bucket: two prefixes (the bucket's root and a folder), the debounced
prefix input, the selection, the dialogs, the three kinds of deletion, the ZIP
download, and the panel shown when S3 refuses the console's own key. The listings
are react-query's entries, one per prefix, as `useInfiniteQuery` and
`invalidateQueries` treat them: an invalidation fetches the entry on screen again,
dropping a fetch under way, and marks the others stale without touching their
fetches; "load more" drops a refresh under way. `Visit` is a change of the prefix
from anywhere, with what the render then does. `S3Lists` and `ListLands` are the two
ends of a fetch, `DeleteHappens` and `...Answers` those of a deletion, so anything
can fall between. That an entry is refetched when older than 30 seconds is left to
chance (any entry may be), and all pages of a refetch are read at once.

`BlameIsEvidenced`: with no grant under way, the console's key is called invalid only on
evidence; while one is under way, the refusal that the previous one left is still on
screen. `DeletionsSettle`: a deleted object leaves the settled listing unless its fetch
crossed the answer, and a key that is not on screen is selected only when its deletion
failed after its prefix was left. A key selected like that and deleted again stays so when
this fails too, hence the field `stray` of a call. Two keys at the root and one in the
folder, pages of one key, four acts of the operator and others: enough for a deletion, a
navigation or a grant between its two ends, and one more thing after it.

### Upload

The uploader of that page and the handler its requests reach. A file has a row
(`file`), the uploader a queue (`pending`) and a count (`active`); `Pump` is
`pumpUploads`, part of every action that calls it. A request (`tries`) has two ends:
where the handler is, and whether the browser still waits, so that a broken
connection leaves the handler running. The page unmounts the uploader while the
listing is refused; its queue goes on in its closures, and a later uploader has a
queue and slots of its own, so the bound of three uploads is per uploader.
`exists` is S3; other clients put and remove.

`EachFileOnce`, `NoIdleSlot`, `ReplacesOnlyRaced` and `ListingRefreshed`, over three
files, two of them with one key; two slots; three requests; the uploader mounted
twice; one act of others. Three files and two slots make one wait; three requests
allow a conflict, its overwriting and a race. A 401 leaves the whole page and its
queue, and is not modelled. That an upload clears the list caches is `MutationSend`
of `ListCache`.

### LayoutEdit

Garage's layout (roles, staged changes, redundancy, version), the layout the page fetched
last, the form with what it was filled from, and the mutations in flight. `SubmitStage` is
the comparison of every row with that base (`ChangeOf`, with the rounding of capacities to
GiB and the validation). A row that was edited anywhere is sent with its zone trimmed and
its tags read again from their text, so that a tag with a comma in it, which another
client of Garage can set, is split by an edit of another field; zones, tags, their texts
and the conversions between them are constants (`Trim`, `TagText`, `ParseTags`), arbitrary
but for the empty zone. `PreviewStaged`, `ConfirmAll` and `ConfirmNode` send what their
dialogs show, `Execute` is Garage, which checks the version of an apply and nothing else,
`PreviewAnswers` and `ChangeAnswers` are the callbacks. A mutation that is reset or sent
again is no longer watched by the page and goes on all the same. `OthersAct` stages,
reverts and applies for other operators.

`StagedAsEdited`: a node is staged only if its row was edited, a removal only if that was
ticked, and a role differs from the one its row was filled from only in the fields that
were edited, but for that re-reading of zone and tags; all this although others change the
layout under the form. The redundancy is compared with what the page shows now, and can be
staged unedited when that has changed (`layout.tsx:215`). `AppliedAsShown`: what Garage
applies is what the page showed on confirmation - the rows it marks (`ChangeKind`) and the
totals it announces (`TotalsAfter`) included - unless others changed the staged set since.
`RevertTakesBack`: one node's revert removes that node's entry and no other. A storage
node with a capacity that is not a whole number of GiB and a tag with a comma in it, and a
node that is staged but has no role, in a zone that ends in a blank; one edit (of the
zone, the tags, the capacity, the removal or the redundancy, valid or not), two mutations,
one act of others, who stage one role. One edit is enough to carry every other field of
its row along, two mutations for one to overtake the other.

### StorageHealth, LayoutTracker and Dashboard

Each of two tabs asks; a lock lets one request fan out at a time and a cache answers those that
waited. A fan-out is three calls, each of which answers, fails, or is cancelled with
its client; in each a node answers, refuses or does not appear. `Merged` is
`buildStorageHealth`. `cut` and `sick` in an answer are history: whether a call was
lost to a client that left, and which nodes had resync errors for the whole of the
asking. The attention panel and the maintenance recommendation are operators over
the answer shown and over any status, block errors and roles the page may hold of another moment,
so those are quantified in the properties and not stored.

`Dashboard` adds the panel's other sources as functions of their answers (cluster
health, staged layout, tokens, keys, buckets, the console's own key), the counters
of corrupted blocks and their baselines (`Baselines` goes through the polls of a page),
the cards and the figures. `LayoutTracker` is the progress of a layout update: a
history of live versions and trackers, the three steps, the banner, and the version
the force dialog sends. Both are checked for every answer within the bounds.

`NoCancellationShared`: no page is answered with cancellations of another's client.
`QuietIsEvidenced`: whatever the dashboard shows as well - the panel's green line, a card without an
alert, a completed layout step, an absent rise - stands on answers that say so.
`MaintenanceIsEvidenced`: the same of the maintenance page. `EveryAskEnds`: every
dashboard that waits is answered. A storage node whose parts cover every case of the merge and a
gateway that never reports its variables, two tabs, one change of health; counters 0 to 2 over four
polls, three versions and two nodes for the tracker.

### ConsolePages, ConsoleForms, TokenForms and Console

`ConsolePages` is data: which queries each of thirteen pages shows, what each query reads,
and for each of 28 operations the pages it is found on, what it changes, and the queries
it invalidates, writes, drops or leaves to age, with react-query's prefix matching of
keys. What an operation changes includes what refers to a thing it deletes: the
permissions and aliases of a deleted bucket, the key rows of a deleted key. Many of the
queries that show such a change are left to age: see section 5. `ConsoleForms` has the
nine kinds of forms: what each starts from (a token's scope is one of three: two that
amount to "*" and one that does not, so that one can be edited to the other), how it
follows the data on its page (`useServerForm` and its variations), what it sends and when
it asks. `TokenForms` is the scope editor with its presets and the expiration. `Console`
plays one operation against one query (every relevant pair is an initial state) in one
tab: navigation, opening and hiding what is shown on demand, the query's fetches,
invalidations, writes, growing old (`GrowsOld`: after the 30 seconds of `App.tsx:12` the
next page that shows the data asks for it again) and garbage collection, the form, the
call with its two ends, other operators.

`OwnChangeShown`: the settled page shows what the operator was told succeeded - at once
where the code refreshes the query, and otherwise when a page with it is next opened after
the data grew old. `due` is the history of the second part: what was known when the query
last came on screen with nothing fresh to show. A page that stays open over data left to
age shows the old until it polls or is opened again. `SecretUndisturbed`: a revealed
secret is not fetched again, and is kept nowhere once hidden. `OnlyEditedSent`,
`EditsKept`, `HarmConfirmed`: a form sends what was entered, background answers overwrite
no edit, and what deletes rules or grants everything was confirmed. Each comment in the
module names its exceptions; they are behaviours of the code (section 5). Two changes,
each by this tab or by others, are enough for an answer to be overtaken by either; an item
of two fields with two values each, for an edited and an unedited field; five clicks in
the scope editor, for every order of category, endpoint and preset.

### Server

The process (`serving`, `draining`, `waiting`, `flushing`, `exited`) around the requests
of `ListCache`: signals, a failed listener, `Shutdown`'s closing of idle
connections, the drain's timeout and `Close`, the wait for handlers, the flush of
the telemetry. `Returns` and `Panics` write the lines and the span; `Copy` is the
capped copy of a response that the audit line is derived from.

`NothingUnrecorded`: the process exits within its grace period, and unless a second
signal ended it every change is in the audit log and every span was flushed, except for
handlers of which it warned; and a truncated copy is never taken for a whole
response. `EveryRequestEnds`: under fairness every handler returns or ends with the process,
and a process that began to stop exits. One list of two buckets through one
worker - so the feed of the pool has to wait - and one mutation; budgets of one tick each
against a grace of four, in the proportion of 15 s + 2 s + 4 s against the 25 s that
a preStop of 5 s leaves of 30 s.

## 3. The runs

| Run | Properties | Shows |
|---|---|---|
| `BucketKeyPerms` | `NeverLockedOut` `AnswerIsWanted` `DirtyIsExplained` `ConsoleKeepsOwner` | an undisturbed request takes nothing away before it gave what was asked, never locks the key out and answers the truth; the caches are cleared after every accepted change |
| `ListCache` | `StalenessBounded` `StaleOnlyIfCrossed` `PagesAreWhole` | what a row is filled with is at most TTL + timeout old; only a fetch that crossed a clear can predate an answered mutation; a paged list is whole unless it says otherwise |
| `BatchDownload` | `ImplementsVoucher` `RedeemExactly` `RefusedOnlyWhenFull` `CompleteArchive` `SafeNames` | tickets are single-use vouchers, work exactly while good, and leak no slot; archives are complete and their names safe |
| `RepairGuard` | `NoLaunchDuringOutage` `OnlyStorageBlocks` `PageAsksOnlyWhenFit` | neither the page nor the server lets a repair through an outage that lasts as long as its asking; no refusal without a storage node to blame |
| `ObjectDelete` | `CleanMeansGone` `CountsAreTrue` | an answer without errors means the objects are gone; each is counted once; the cap holds |
| `Session` | `AbsoluteLimit` `IdleLimit` `OnlyCrossingsUndoLogout` | both session limits hold whatever the order of responses; only crossing responses undo a logout |
| `ObjectBrowser` | `BlameIsEvidenced` `DeletionsSettle` | deletions settle on screen whatever was under way; the key is blamed only with evidence |
| `Upload` | `EachFileOnce` `NoIdleSlot` `ReplacesOnlyRaced` `ListingRefreshed` | no slot or file is lost; nothing is replaced unasked but in a race; the listing is refreshed when the queue has drained |
| `LayoutEdit` | `StagedAsEdited` `AppliedAsShown` `RevertTakesBack` | only what was edited is staged, but for re-read tags and zones; only what was shown is applied |
| `StorageHealth` | `NoCancellationShared` `QuietIsEvidenced` `MaintenanceIsEvidenced` `EveryAskEnds` | what is called healthy has evidence; every dashboard is answered |
| `Console` | `OwnChangeShown` `SecretUndisturbed` `OnlyEditedSent` `EditsKept` `HarmConfirmed` | an own change is shown at once where its query is refreshed, else when next opened with old data; only edits are sent; no edit is lost; no harm unasked, with the exceptions named |
| `Server` | `NothingUnrecorded` `EveryRequestEnds` | the shutdown loses no record and every request ends |

All runs but `Session` switch deadlock checking off: the requests, edits and other
bounded acts of an instance are finite and the system may stop when all are done.
That the waits of the code do end is stated as liveness instead, in the two runs
whose specification has fairness:

- `StorageHealth`: strong fairness of taking the lock, since Go's mutex hands itself
  to a waiter that starves (`sync.Mutex`); weak fairness of a handler's return and of
  each call's end, which its timeout guarantees. Nothing is assumed of clients.
- `Server`: weak fairness of the process's own steps and its timers (`Stops`), of a
  handler that can move (`Moves`: goroutines are scheduled, and a call under way
  ends because the timeout makes it fail if Garage never answers), and of its return. Nothing is
  assumed of Garage, of signals or of the clients.

The type invariants and the inductive invariants of section 4 are not repeated in the
runs: TLC checked each of them on the run's instance before it was proved, and any of
them can be added to a `.cfg` as it is.

## 4. The proofs

Theorems are about the specification with arbitrary constants, under the named assumption
of each module. What is assumed is types, finite sets of nodes, keys and files, and what
the code's own constants satisfy: `SessionAssumption` that refresh, idle and absolute
limit come in this order, `BudgetAssumption` that the budgets of a shutdown fit in the
grace period, `PagesAssumption` that a page has more than one entry, `NamesAssumption`
what sanitizing does to one segment, `GuardAssumption` which roles and workers exist; and
`TokenAssumption` that the endpoints that mint tokens are listed, not all of them are
allowed to every token (`admin-scopes.ts:105`, `:183`), that what the backend calls is a
listed name or a newer one, and that "*" is no such name. Each proof follows the same
plan: an inductive invariant, checked by TLC first, one lemma per action or group of
actions for its effect, and a step lemma that `Next` preserves the invariant.

Induction over data needs no recursive operator here: where a sequence or a count is
gone through, the least index at which a claim fails is taken (lemma `LeastNat`, from
the well-foundedness of finite subsets in the library) and shown not to exist.

- `BucketKeyPermsProofs`: `TypeCorrect`, `NoLockout`, `AnswerCorrect` from `Inv`, and
  `ConsoleOwner`. `NeverLockedOut` alone is not inductive: it needs `PlanAt` (which call,
  with which flags, each control point may have outstanding) and `ReachedAt` (what Garage
  holds then, if nobody interfered). `DirtyExplained`: an effective change is followed by
  a clear or was never answered with success, because no call of a request that answered
  is outstanding (`NoOpenCallAfterOk`).
- `ListCacheProofs`: `TypeCorrect` and `Staleness` from `AgeInv`, which tells for a fetch
  under way, a stored entry and a finished row how old its value may be;
  `OnlyCrossedIsStale` from `SettledInv`, which says of every change that was answered
  which fetches may still miss it (`Owed`). `WholeLists` from `WalkInv`: the pages walked
  so far hold every entry below the offset that stayed, the offset only grows, and a page
  is the sorted beginning of what is left, which exists for every finite set.
  `NothingIsUnrecorded` from `ServerInv`: what is left of the budgets in each phase, who
  may still run in which phase, what is written for each request that returned; and, by
  induction over the writes, that the copy is the response or says it was cut
  (`CopiesAreHonest`).
- `BatchDownloadProofs`: `TypeCorrect`, `TokensAreSingleUse`, `RedeemsExactlyFresh` and
  `NoSlotLeaks` from `Ledger`, which ties the store to the history of issued and shown
  tokens. `Vouchers` is the refinement, `Spec => Ticket!Spec`: the initial states map to
  initial states (all codes unused), and `VoucherStep` maps every step, given `Ledger`: a
  POST to `Offer` with what it purged, a served GET to `Take`, everything that only takes
  tickets out of the store to `Lapse` (lemma `DropIsLapse`), the archive to a stutter,
  because it keeps what the get was given (`GotFrame`). `ArchivesAreComplete` and
  `NamesAreSafe` from `ArchiveInv`: the entries written are those of the keys dealt with,
  each under a name that was free, and a suffix is added until one is.
- `ClusterProofs`, the guard: `TypeCorrect`, `NoOutageLaunch` and `OnlyStorageRefuses`
  from `GuardInv`: what the history says of the present (`History`), and what the answers
  that are in must have seen (`Seen`, `Grounds`). `PageChecksFirst` from `PageInv`, the
  same of the console's own re-check, and `GuardBehindPage`: the guard keeps its promises
  behind any page.
- `ClusterProofs`, the layout page: `LayoutTyped`, `StagesWhatWasEdited`,
  `AppliesWhatWasShown` and `RevertsOne` from `LayoutInv`. The form is what it was filled
  from but for what was edited (`FormHonest`); a layout the page has is one that Garage
  had, so that the version tells the roles (`Past`), and the present one unless others or
  an unsettled call came between (`Present`); and while a calm apply is under way, its
  open dialog keeps the operator from every other change (`Undisturbed`). `ChangeFacts` is
  what a row that is sent asks for, and rests on `RoundTrip`: a whole number of GiB
  survives the field.
- `ConsoleProofs`, the session: `TypeCorrect`; `AbsoluteLimitHolds` and `IdleLimitHolds`
  from `Honest` and `LimitInv` (every copy of a dated cookie, in the jar or on its way,
  counts from the login that made it, and the request that refreshed it last is remembered
  while it is good); `LogoutEndsSession` from `LogoutInv` (the only responses under way
  after a logout that bring a session are a login's and those that crossed it).
- `ConsoleProofs`, the console: `ConsoleTyped`, `TellingShows`, `SecretsRest`,
  `FormsSendWhatWasEdited`, `AnswersLeaveEdits` and `HarmIsConfirmed` from `ConsoleInv`.
  `ReadInv` strengthens `OwnChangeShown` to what every entry and every answer on its way
  holds, on screen or not: it has seen what the operator was told, or crossed it, or is
  marked (`Told`), and what is marked on screen is asked for (`AskedFor`); without the
  second a marked page could stay as it is. That an operation tells whoever reads what it
  changes is one fact about each of the 28 rows (`TheOperations`, from what each query
  reads and which filter matches it); the queries it names as left to age are excused
  there, and for them `DueInv` says that a query which came on screen with old data has
  been asked for since, so that whatever it holds or is brought knows what was known then
  (`UpToDate`). `FormInv` is what the forms rest on: a card shows a form whenever it can,
  a form is only there while its data is, and what differs from its base was entered.
  `BodyInv` carries a confirmation from the click to the moment Garage executes it. What
  the scope editor comes to is by induction over the clicks (`EditedWithin`), for any
  endpoints: whatever holds at first and is kept by one click.
- `ObjectDeleteProofs`: `TypeCorrect`, `CleanAnswers` and `TrueCounts` from `DeleteInv`,
  with lemmas on the first keys of a set in S3's order: they exist, are as many as asked,
  and what is left comes after them.
- `BrowserProofs`, the uploader: `TypeCorrect`, `NoDoubleStart`, `SlotsAreUsed`,
  `OnlyRacesReplace` and `DrainedIsListed` from `UploadInv`, of which `Consistent` says
  that queue, rows, requests and the count of active uploads tell the same story;
  `PumpConsistent` is that the pump keeps it so, whatever the number of files and slots.
- `BrowserProofs`, the page: `BrowserTyped`, `BlamesTheKeyRightly` and
  `DeletionsLeaveTheScreen` from `BrowserInv`. `EntryInv` tells of each cached listing, on
  screen or not, why it may still show what is gone: its fetch crossed the answer, it is
  being fetched, or it is stale. It holds after an invalidation whatever was deleted
  (`RefreshStep`), so one lemma serves every answer. `AccessInv` is about a good key: a
  grant that went through leaves the permission there or its loss excused, so a refusal
  that follows was fetched across its refresh.
- `StorageHealthProofs`: `TypeCorrect`, `NoForeignCancellation`, `QuietEvidenced` and
  `MaintenanceEvidenced` from `HealthAll`: an answer, cached or on its way, says of each
  node what the calls that made it saw, and no call of another client's context is in it.
  `QuietEvidenced` includes the layout steps and the counters; that a rise is shown
  however the baselines moved is by induction over the polls (`Rises`).

Only model-checked: the two liveness properties (`EveryAskEnds`, `EveryRequestEnds`). They
rest on fairness, which is out of TLAPS' reach. Every other property of the runs is
stated by a theorem.

## 5. Where the code does less than it says

Met while modelling; no run is about them. The first three are stated as operators that a
reader can add to the run as an `INVARIANT` for TLC to refute.

- Two PUTs at once can revoke every permission together, which only DELETE is meant to do
  (`handler_bucket_key_perms.go:76-78`): `BucketKeyPerms!OnlyDeleteRevokesAll`.
- The console drops from the selection the keys after a failed chunk, which were neither
  deleted nor named (`object-browser.tsx:655`, `handler_objects.go:942`):
  `ObjectDelete!FailedKeysListed`.
- A deletion answered after its prefix was left selects its failed keys on another prefix,
  against the comment at `object-browser.tsx:507-509`: `ObjectBrowser!SelectedIsVisible`.
- Many operations leave queries that show what they change to their 30 seconds (the sets
  `ages` of `ConsolePages`): deleting a bucket refreshes the bucket list and not the keys,
  the key pages, the statistics or the bucket's own page (`buckets.index.tsx:128`);
  deleting a key not the buckets' pages (`keys.index.tsx:101`); deleting the console's own
  token from the list not `['admin-tokens', 'current']`; a global alias not the key page,
  which shows it and which `bucket-aliases.tsx:91` names; creating a bucket and removing
  its unfinished uploads not the statistics; object changes not the bucket list's usage;
  permissions not the object page; a key's settings not the bucket pages; connecting nodes
  not the health; an applied layout not the health, the statistics or the nodes' details;
  a variable not the list of workers; a repair neither the workers nor the storage health;
  a block's resync or purge neither the storage health nor the node's figures nor the
  block's own panel. Those that are polled (`polling.ts`) catch up sooner.
- An edit of any field of a row of the layout form trims its zone and splits its tags at
  commas (`layout-draft.ts:96-97`), although only edited fields are meant to be staged.
- A token whose form started from a scope that amounts to "*" is saved with another such
  scope without a confirmation (`admin-tokens.$id.tsx:213`), also when another operator
  narrowed the token meanwhile: it is then widened again. This is an exception of
  `HarmConfirmed`.
- "The list reflects it immediately" (`invalidateListCaches`) does not hold for a fetch
  that crosses the clear: the exception in `StaleOnlyIfCrossed`.
- A first load of a listing that was refused before a grant, and answered after it, can
  make the console's key look invalid until the next refresh: the exception in
  `BlameIsEvidenced`.
- The key dialog compares its form with the server's present name, so a name that someone
  else changed meanwhile is sent back (`key-settings-dialog.tsx:92`); the cards of the
  bucket page start over from the answer of a save and drop what was typed while it ran;
  token, key and node pages hide, and lose, an edited form when a background fetch fails,
  which the bucket page does not. These are the exceptions of `OnlyEditedSent` and
  `EditsKept`.
- `setQueryData` does not stop a fetch under way, so an older answer can land over what a
  save returned (`bucket-settings.tsx:100`); creating or importing a key and leaving the
  page before the answer refreshes nothing. These are the exceptions of `OwnChangeShown`.
- A block that is no longer listed stays selected for a purge (`blocks.tsx`), and a
  variable set on all nodes drops its draft although this node failed.
- Staging resets the watched apply (`layout.tsx:140`), so an apply under way no longer
  keeps its dialog open, and its promise then closes whatever dialog is: what
  `confirm-dialog.tsx:64-67` wants to rule out.
- The page's re-check judges stale roles when their refetch fails
  (`repair-guard.ts:67-71`): the second half of `PageAsksOnlyWhenFit` excepts it.

## 6. Not modelled, and the plan

Not modelled, and why:

- the single-call proxies as such: their state is Garage's, their effect on the caches
  is in `ListCache`, and on what the console shows in `Console`;
- the ten-minute memo that the *Info endpoints are missing (`list_enrich.go:120-137`):
  it only chooses between two paths that are both modelled;
- a cookie that does not decode (a rotated secret), several users;
- object listing, download and the prefix summary: proxied reads;
- sorting, filters, charts, formatting, metrics and tracing;
- which details the audit line has of which route, and their redaction.

Next, in order of importance:

1. The permissions of `BucketKeyPerms` under the forms of `Console`: two operators
   with the permission dialog open.
2. `Session`: cookies of another secret.
