---------------------------- MODULE ConsolePages ----------------------------
(***************************************************************************)
(* What the pages of the console ask the server for, and what they change  *)
(* there (frontend/src/routes, frontend/src/components, api.ts).           *)
(*                                                                         *)
(* A query is what react-query caches under a key; it reads some aspects   *)
(* of the cluster.  An operation is a mutation a page can send: the        *)
(* aspects it changes, and what its answer does to the cached queries.     *)
(* One bucket b, key k, token t and node n stand for those the pages are   *)
(* about; t is the console's own token, k may be its S3 key.               *)
(***************************************************************************)
EXTENDS Naturals, Sequences

Query(key, reads) == [key |-> key, reads |-> reads]

-----------------------------------------------------------------------------
(* Queries.                                                                *)

Buckets  == Query(<<"buckets">>, {"bucketlist", "aliases", "local", "perms", "usage", "quotas"})
Bucket   == Query(<<"bucket", "b">>, {"aliases", "local", "perms", "usage", "quotas", "website",
                                      "key"})
Objects  == Query(<<"objects", "b", "prefix">>, {"objects", "perms"})
Keys     == Query(<<"keys">>, {"keylist", "key", "perms", "local"})
Key      == Query(<<"key", "k">>, {"key", "perms", "aliases", "local"})
Secret   == Query(<<"key", "k", "secret">>, {"secret"})
ConnectionSecret == Query(<<"key", "k", "secret", "s3-connection">>, {"secret"})
Tokens   == Query(<<"admin-tokens">>, {"tokenlist", "token"})
Current  == Query(<<"admin-tokens", "current">>, {"token"})
Token    == Query(<<"admin-token", "t">>, {"token"})

Status         == Query(<<"cluster", "status">>, {"links", "roles"})
Health         == Query(<<"cluster", "health">>, {"links", "roles"})
Statistics     == Query(<<"cluster", "statistics">>, {"bucketlist", "usage", "roles"})
StorageHealth  == Query(<<"cluster", "storage-health">>, {"errors", "repairs"})
PageHealth     == Query(<<"maintenance", "storage-health">>, {"errors", "repairs"})
Layout         == Query(<<"cluster", "layout">>, {"roles", "staged"})
History        == Query(<<"cluster", "layout", "history">>, {"roles", "trackers"})
Workers        == Query(<<"workers">>, {"repairs", "vars"})
NodeWorkers    == Query(<<"node", "n", "workers">>, {"repairs", "vars"})
NodeVariables  == Query(<<"node", "n", "worker-variables">>, {"vars"})
NodeInfo       == Query(<<"node", "n", "info">>, {"roles"})
NodeStats      == Query(<<"node", "n", "stats">>, {"errors"})
BlockErrors    == Query(<<"blockErrors">>, {"errors"})
BlockInfo      == Query(<<"blockInfo", "hash">>, {"errors"})

Secrets == {Secret, ConnectionSecret}

-----------------------------------------------------------------------------
(* Pages: the queries each may have mounted.                               *)

Dashboard    == {Health, Status, StorageHealth, Statistics, Keys, Buckets, Tokens, Layout, History}
BucketsPage  == {Buckets}
BucketDetail == {Bucket, Objects, Keys}
KeysPage     == {Keys}
KeyDetail    == {Key, Secret, ConnectionSecret, Buckets}
TokensPage   == {Tokens, Current}
TokenDetail  == {Token, Current}
NodesPage    == {Status}
NodeDetail   == {Status, NodeInfo, NodeStats, NodeVariables, NodeWorkers, Health, Workers}
WorkersPage  == {Workers, Status}
BlocksPage   == {BlockErrors, BlockInfo, Status}
RepairPage   == {Health, BlockErrors, PageHealth, Workers, Status}
LayoutPage   == {Layout, Status, History}

Shows == [dashboard |-> Dashboard, buckets |-> BucketsPage, bucket |-> BucketDetail,
          keys |-> KeysPage, key |-> KeyDetail, tokens |-> TokensPage, token |-> TokenDetail,
          nodes |-> NodesPage, node |-> NodeDetail, workers |-> WorkersPage,
          blocks |-> BlocksPage, repair |-> RepairPage, layout |-> LayoutPage]

Pages   == DOMAIN Shows
Queries == UNION {Shows[p] : p \in Pages}

\* Those a page asks for only once the operator opens or reveals something.
OnDemand == [p \in Pages |->
               CASE p = "key"    -> {Secret, ConnectionSecret, Buckets}
                 [] p = "bucket" -> {Keys}
                 [] p = "node"   -> {Health, Workers}
                 [] p = "blocks" -> {BlockInfo}
                 [] OTHER        -> {}]

-----------------------------------------------------------------------------
(* Query filters: a key matches every query it is a prefix of, unless the  *)
(* filter is exact.                                                        *)

All(key)  == [key |-> key, exact |-> FALSE]
Only(key) == [key |-> key, exact |-> TRUE]

Matches(filter, q) ==
  IF filter.exact THEN q.key = filter.key
  ELSE Len(filter.key) <= Len(q.key) /\ \A i \in 1..Len(filter.key) : q.key[i] = filter.key[i]

-----------------------------------------------------------------------------
(* Operations.  pages: where it is found; changes: the aspects it changes, *)
(* those that referred to what it deletes included; ages: the queries that *)
(* show those and are left to grow old (a query whose object is gone shows *)
(* that by an answer of its own); tells: the filters its                   *)
(* success invalidates, fails: those an error does; partly: an error may   *)
(* mean that a part was done, and is to be shown; sets: the queries its    *)
(* answer is put into; drops: those it removes once its page was left for  *)
(* goes; perCall: its callbacks are given to mutate(), and die with the    *)
(* component; form: how its form relates to its page (ConsoleForms).       *)

Op(pages, changes, tells) ==
  [pages |-> pages, changes |-> changes, ages |-> {}, tells |-> tells, fails |-> {},
   partly |-> FALSE, sets |-> {}, drops |-> {}, goes |-> {}, perCall |-> FALSE, form |-> "none"]

\* routes/buckets.index.tsx.
CreateBucket == [Op({"buckets"}, {"bucketlist"}, {All(Buckets.key)}) EXCEPT !.ages = {Statistics}]
DeleteBucket == [CreateBucket EXCEPT !.changes = @ \union {"aliases", "local", "perms"},
                                     !.ages = @ \union {Bucket, Objects, Keys, Key}]

\* components/bucket-settings.tsx.
UpdateBucket == [Op({"bucket"}, {"website"}, {All(Buckets.key)}) EXCEPT !.sets = {Bucket}]
QuotaCard    == [UpdateBucket EXCEPT !.changes = {"quotas"}, !.form = "quota"]
WebsiteCard  == [UpdateBucket EXCEPT !.form = "website"]
RulesJsonCard == [UpdateBucket EXCEPT !.form = "rules"]
UnfinishedUploadsCard == [Op({"bucket"}, {"usage"}, {All(Bucket.key), All(Buckets.key)})
                            EXCEPT !.ages = {Statistics}]

\* components/bucket-aliases.tsx.
GlobalAlias == [Op({"bucket"}, {"aliases"}, {All(Buckets.key)})
                  EXCEPT !.sets = {Bucket}, !.fails = {All(Bucket.key), All(Buckets.key)},
                         !.partly = TRUE, !.ages = {Key}]
OnTheBucketOnly == [GlobalAlias EXCEPT !.changes = {"local"}, !.ages = {}]

LocalAlias == [GlobalAlias EXCEPT !.changes = {"local"}, !.ages = {},
                                  !.tells = @ \union {Only(Key.key), All(Keys.key)},
                                  !.fails = @ \union {Only(Key.key), All(Keys.key)}]

\* hooks/use-bucket-key-permissions.ts: both sides are refreshed on settle.
PermissionsRefreshed == {All(Bucket.key), Only(Key.key), All(Buckets.key), All(Keys.key)}
EditPermissions == [Op({"bucket", "key"}, {"perms"}, PermissionsRefreshed)
                      EXCEPT !.fails = PermissionsRefreshed, !.partly = TRUE, !.ages = {Objects}]
EditOnBucket    == [EditPermissions EXCEPT !.pages = {"bucket"}, !.form = "whole"]
GrantConsole    == [EditPermissions EXCEPT !.pages = {"bucket", "buckets"}, !.partly = FALSE, !.ages = {},
                                           !.tells = @ \union {All(<<"objects", "b">>)},
                                           !.fails = (@ \union {All(<<"objects", "b">>)})
                                                       \ {Only(Key.key)}]

\* components/object-browser.tsx: deletions and uploads.
ChangeObjects == [Op({"bucket"}, {"objects", "usage"}, {All(<<"objects", "b">>), All(Bucket.key)})
                    EXCEPT !.ages = {Buckets, Statistics}]

\* routes/keys.index.tsx and its dialogs.
CreateKey == [Op({"keys"}, {"keylist"}, {All(Keys.key)}) EXCEPT !.perCall = TRUE]
ImportKey == [CreateKey EXCEPT !.goes = {"key"}]
DeleteKey == [Op({"keys"}, {"keylist", "key", "secret", "perms", "local"}, {All(Keys.key)})
                EXCEPT !.ages = {Buckets, Bucket, Objects, Key}]

\* components/key-settings-dialog.tsx.
WithTheSecret == [Op({"key"}, {"key"}, {All(Key.key), All(Keys.key)})
                    EXCEPT !.form = "live", !.ages = {Bucket}]

KeySettings == [Op({"key"}, {"key"}, {Only(Key.key), All(Keys.key)}) EXCEPT !.form = "live", !.ages = {Bucket}]

\* routes/admin-tokens.index.tsx, routes/admin-tokens.$id.tsx.
CreateToken == Op({"tokens"}, {"tokenlist"}, {Only(Tokens.key)})
DeleteToken == [Op({"tokens"}, {"tokenlist", "token"}, {Only(Tokens.key)}) EXCEPT !.ages = {Current, Token}]
DeleteThisToken == [Op({"token"}, {"tokenlist", "token"}, {Only(Tokens.key), All(Current.key)})
                      EXCEPT !.goes = {"tokens"}, !.drops = {All(Token.key)}]
EditToken   == [Op({"token"}, {"token"}, {Only(Tokens.key), All(Current.key)})
                  EXCEPT !.sets = {Token}, !.form = "remount"]

\* routes/nodes.index.tsx, routes/nodes.$id.tsx, routes/repair.tsx.
ConnectNodes   == [Op({"nodes"}, {"links"}, {All(Status.key)}) EXCEPT !.ages = {Health}]
SetVariable    == [Op({"node"}, {"vars"}, {All(NodeVariables.key), All(NodeWorkers.key)})
                     EXCEPT !.form = "drafts", !.ages = {Workers}]
LaunchRepair   == [Op({"repair", "node"}, {"repairs"}, {})
                     EXCEPT !.ages = {Workers, NodeWorkers, StorageHealth, PageHealth}]

\* routes/blocks.tsx.
RetryBlockResync == [Op({"blocks"}, {"errors"}, {All(BlockErrors.key)})
                       EXCEPT !.ages = {StorageHealth, PageHealth, NodeStats, BlockInfo},
                              !.form = "retries"]
PurgeBlocks      == [RetryBlockResync EXCEPT !.form = "ticks"]

\* routes/layout.tsx, components/layout-update-tracker.tsx.
StageLayout   == Op({"layout"}, {"staged"}, {All(Layout.key), All(Status.key)})
ApplyLayout   == [StageLayout EXCEPT !.changes = {"roles", "staged", "trackers"},
                                     !.ages = {Health, Statistics, NodeInfo}]
SkipDeadNodes == Op({"layout"}, {"trackers"}, {All(Layout.key)})

Operations ==
  [CreateBucket |-> CreateBucket, DeleteBucket |-> DeleteBucket, QuotaCard |-> QuotaCard,
   WebsiteCard |-> WebsiteCard, RulesJsonCard |-> RulesJsonCard,
   UnfinishedUploadsCard |-> UnfinishedUploadsCard, GlobalAlias |-> GlobalAlias,
   LocalAlias |-> LocalAlias, EditPermissions |-> EditPermissions,
   EditOnBucket |-> EditOnBucket, GrantConsole |-> GrantConsole,
   ChangeObjects |-> ChangeObjects, CreateKey |-> CreateKey, ImportKey |-> ImportKey,
   DeleteKey |-> DeleteKey, KeySettings |-> KeySettings, CreateToken |-> CreateToken,
   DeleteToken |-> DeleteToken, DeleteThisToken |-> DeleteThisToken, EditToken |-> EditToken,
   ConnectNodes |-> ConnectNodes, SetVariable |-> SetVariable, LaunchRepair |-> LaunchRepair,
   RetryBlockResync |-> RetryBlockResync, PurgeBlocks |-> PurgeBlocks,
   StageLayout |-> StageLayout, ApplyLayout |-> ApplyLayout, SkipDeadNodes |-> SkipDeadNodes]

\* The dashboard's refresh button.
RefreshAll == {All(<<"cluster">>), All(Keys.key), All(Buckets.key), Only(Tokens.key)}
=============================================================================
