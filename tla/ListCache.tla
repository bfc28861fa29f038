----------------------------- MODULE ListCache ------------------------------
(***************************************************************************)
(* The enriched bucket and key lists on a Garage without the *Info list    *)
(* endpoints (backend/list_enrich.go, handler_lists.go): list requests     *)
(* fill two TTL caches from GetBucketInfo / GetKeyInfo with a bounded pool *)
(* of workers, and mutations clear both caches once Garage accepted them.  *)
(*                                                                         *)
(* A list item's info is abstracted to its version, the number of changes  *)
(* Garage made to it; changes records when each was made.                  *)
(***************************************************************************)
EXTENDS Naturals, Sequences, FiniteSets

CONSTANTS
  Lists, Mutations,     \* the requests of one behaviour
  Buckets, Keys,        \* the items of the two lists
  TTL,                  \* listInfoCacheTTL
  FetchTimeout,         \* the Admin API client's timeout
  EnrichWorkers,        \* enrichWorkers
  MaxNow                \* bound on the clock

Items == Buckets \cup Keys

ASSUME CacheAssumption ==
  /\ TTL \in Nat /\ FetchTimeout \in Nat /\ MaxNow \in Nat
  /\ EnrichWorkers \in Nat \ {0}
  /\ Buckets \cap Keys = {}
  /\ IsFiniteSet(Items)

VARIABLES
  now,       \* the clock
  changes,   \* changes[i]: the times at which Garage changed item i
  cache,     \* bucketInfoCache and keyInfoCache, by item
  pc,        \* per list request
  item,      \* item[l][i]: the state of item i in list request l
  alive,     \* the workers of a list request that take jobs
  gone,      \* the list request's client disconnected
  mpc,       \* per mutation request
  touch,     \* the items a mutation changes
  made,      \* made[m][i]: the version of i that m produced in Garage
  settled,   \* history: the newest version of i whose mutation was answered
  floor      \* history: settled, when a list request began

lvars == <<pc, item, alive, gone, floor>>
mvars == <<mpc, touch, made, settled>>
vars  == <<now, changes, cache, lvars, mvars>>

NoEntry == [full |-> FALSE, val |-> 0, expires |-> 0, crossed |-> FALSE]
Blank   == [st |-> "none", val |-> 0, at |-> 0, started |-> 0, crossed |-> FALSE]

Version(i)  == Len(changes[i])
InFlight(l) == {i \in Items : item[l][i].st \in {"sent", "read"}}
With(l, st) == {i \in Items : item[l][i].st = st}

-----------------------------------------------------------------------------
Init ==
  /\ now     = 0
  /\ changes = [i \in Items |-> <<>>]
  /\ cache   = [i \in Items |-> NoEntry]
  /\ pc      = [l \in Lists |-> "idle"]
  /\ item    = [l \in Lists |-> [i \in Items |-> Blank]]
  /\ alive   = [l \in Lists |-> 0]
  /\ gone    = [l \in Lists |-> FALSE]
  /\ mpc     = [m \in Mutations |-> "idle"]
  /\ touch   = [m \in Mutations |-> {}]
  /\ made    = [m \in Mutations |-> [i \in Items |-> 0]]
  /\ settled = [i \in Items |-> 0]
  /\ floor   = [l \in Lists |-> [i \in Items |-> 0]]

NeverExpires(e) == FALSE

\* ttlCache: an entry is still served at the instant it expires.
Expired(e) == now > e.expires

\* GET /api/buckets or /api/keys, once Garage listed the ids: expired entries
\* are purged from that list's cache, then every id is looked up.
BeginList(l, ids) ==
  /\ pc[l] = "idle"
  /\ pc'    = [pc EXCEPT ![l] = "lookup"]
  /\ item'  = [item EXCEPT ![l] = [i \in Items |->
                 IF i \in ids THEN [Blank EXCEPT !.st = "ask"] ELSE Blank]]
  /\ cache' = [i \in Items |-> IF i \in ids /\ Expired(cache[i]) THEN NoEntry ELSE cache[i]]
  /\ floor' = [floor EXCEPT ![l] = settled]
  /\ UNCHANGED <<now, changes, alive, gone, mvars>>

\* Garage refuses or does not answer the id list: the request is an error.
ListUnavailable(l) ==
  /\ pc[l] = "idle"
  /\ pc' = [pc EXCEPT ![l] = "error"]
  /\ UNCHANGED <<now, changes, cache, item, alive, gone, floor, mvars>>

\* ttlCache.get.
Lookup(l, i) ==
  LET e == cache[i] IN
  /\ pc[l] = "lookup" /\ item[l][i].st = "ask"
  /\ item' = [item EXCEPT ![l][i] =
       IF e.full /\ ~Expired(e)
       THEN [st |-> "hit", val |-> e.val, at |-> now, started |-> 0, crossed |-> e.crossed]
       ELSE [Blank EXCEPT !.st = "todo"]]
  /\ UNCHANGED <<now, changes, cache, pc, alive, gone, floor, mvars>>

\* The worker pool: at most enrichWorkers, no more than there are misses.
StartWorkers(l) ==
  LET n == Cardinality(With(l, "todo")) IN
  /\ pc[l] = "lookup" /\ With(l, "ask") = {}
  /\ pc'    = [pc EXCEPT ![l] = "feed"]
  /\ alive' = [alive EXCEPT ![l] = IF n < EnrichWorkers THEN n ELSE EnrichWorkers]
  /\ UNCHANGED <<now, changes, cache, item, gone, floor, mvars>>

\* The feed hands a miss to a worker that waits for a job; when the client has
\* left, select may still choose that before it chooses to stop.
FetchSend(l, i) ==
  /\ pc[l] = "feed" /\ item[l][i].st = "todo"
  /\ Cardinality(InFlight(l)) < alive[l]
  /\ item' = [item EXCEPT ![l][i].st = "sent", ![l][i].started = now]
  /\ UNCHANGED <<now, changes, cache, pc, alive, gone, floor, mvars>>

\* Garage reads the info it will answer with.
FetchRead(l, i) ==
  /\ item[l][i].st = "sent"
  /\ item' = [item EXCEPT ![l][i].st = "read", ![l][i].val = Version(i)]
  /\ UNCHANGED <<now, changes, cache, pc, alive, gone, floor, mvars>>

\* The answer arrives: ttlCache.put, and the worker takes the next job.
FetchStore(l, i) ==
  /\ item[l][i].st = "read"
  /\ item'  = [item EXCEPT ![l][i].st = "got", ![l][i].at = now]
  /\ cache' = [cache EXCEPT ![i] = [full |-> TRUE, val |-> item[l][i].val,
                                    expires |-> now + TTL, crossed |-> item[l][i].crossed]]
  /\ UNCHANGED <<now, changes, pc, alive, gone, floor, mvars>>

WorkerExitsOnError(l, i) ==
  /\ i \in InFlight(l)
  /\ item'  = [item EXCEPT ![l][i].st = "failed"]
  /\ alive' = [alive EXCEPT ![l] = @ - 1]
  /\ UNCHANGED <<now, changes, cache, pc, gone, floor, mvars>>

\* An error, the client's timeout or the disconnect: the item stays without
\* stats and the worker takes the next job.
FetchFail(l, i) ==
  /\ i \in InFlight(l)
  /\ item' = [item EXCEPT ![l][i].st = "failed"]
  /\ UNCHANGED <<now, changes, cache, pc, alive, gone, floor, mvars>>

Disconnect(l) ==
  /\ pc[l] \in {"lookup", "feed"} /\ ~gone[l]
  /\ gone' = [gone EXCEPT ![l] = TRUE]
  /\ UNCHANGED <<now, changes, cache, pc, item, alive, floor, mvars>>

\* Every job was handed out (or the client left) and every worker returned;
\* nothing is written for a client that left.
Finish(l) ==
  /\ pc[l] = "feed" /\ InFlight(l) = {}
  /\ With(l, "todo") = {} \/ gone[l]
  /\ pc' = [pc EXCEPT ![l] = IF gone[l] THEN "dropped" ELSE "answered"]
  /\ UNCHANGED <<now, changes, cache, item, alive, gone, floor, mvars>>

-----------------------------------------------------------------------------
\* A mutating request is forwarded to Garage.
MutationSend(m, is) ==
  /\ mpc[m] = "idle"
  /\ mpc'   = [mpc EXCEPT ![m] = "sent"]
  /\ touch' = [touch EXCEPT ![m] = is]
  /\ UNCHANGED <<now, changes, cache, lvars, made, settled>>

\* Garage performs it, possibly after the handler gave up.
MutationApplied(m) ==
  /\ touch[m] # {}
  /\ changes' = [i \in Items |-> IF i \in touch[m] THEN Append(changes[i], now) ELSE changes[i]]
  /\ made'    = [made EXCEPT ![m] = [i \in Items |->
                   IF i \in touch[m] THEN Version(i) + 1 ELSE 0]]
  /\ touch'   = [touch EXCEPT ![m] = {}]
  /\ mpc'     = [mpc EXCEPT ![m] = IF @ = "sent" THEN "accepted" ELSE @]
  /\ UNCHANGED <<now, cache, lvars, settled>>

\* ttlCache.clear.  A fetch whose answer is already under way is not touched.
Clear(side) ==
  /\ cache' = [i \in Items |-> IF i \in side THEN NoEntry ELSE cache[i]]
  /\ item' = [l \in Lists |-> [i \in Items |->
                IF i \in side /\ item[l][i].st = "read"
                THEN [item[l][i] EXCEPT !.crossed = TRUE] ELSE item[l][i]]]

\* The 2xx answer arrives: invalidateListCaches clears the bucket cache ...
ClearBuckets(m) ==
  /\ mpc[m] = "accepted"
  /\ Clear(Buckets)
  /\ mpc' = [mpc EXCEPT ![m] = "clearing"]
  /\ UNCHANGED <<now, changes, pc, alive, gone, floor, touch, made, settled>>

SkipKeyCache(m) ==
  /\ mpc[m] = "clearing"
  /\ mpc' = [mpc EXCEPT ![m] = "done"]
  /\ settled' = [i \in Items |-> IF made[m][i] > settled[i] THEN made[m][i] ELSE settled[i]]
  /\ UNCHANGED <<now, changes, cache, lvars, touch, made>>

\* ... then the key cache, and the answer is forwarded.
ClearKeys(m) ==
  /\ mpc[m] = "clearing"
  /\ Clear(Keys)
  /\ mpc' = [mpc EXCEPT ![m] = "done"]
  /\ settled' = [i \in Items |-> IF made[m][i] > settled[i] THEN made[m][i] ELSE settled[i]]
  /\ UNCHANGED <<now, changes, pc, alive, gone, floor, touch, made>>

\* An error status, or no answer in time: no cache is cleared.
MutationFails(m) ==
  /\ mpc[m] \in {"sent", "accepted"}
  /\ mpc' = [mpc EXCEPT ![m] = "failed"]
  /\ UNCHANGED <<now, changes, cache, lvars, touch, made, settled>>

\* The clock.  A fetch ends, stored or failed, within the client's timeout.
Tick ==
  /\ now < MaxNow
  /\ \A l \in Lists : \A i \in InFlight(l) : now < item[l][i].started + FetchTimeout
  /\ now' = now + 1
  /\ UNCHANGED <<changes, cache, lvars, mvars>>

ListStep(l) ==
  \/ \E ids \in {Buckets, Keys} : BeginList(l, ids)
  \/ ListUnavailable(l)
  \/ StartWorkers(l)
  \/ Disconnect(l)
  \/ Finish(l)
  \/ \E i \in Items : \/ Lookup(l, i)     \/ FetchSend(l, i) \/ FetchRead(l, i)
                      \/ FetchStore(l, i) \/ FetchFail(l, i)

MutationStep(m) ==
  \/ \E is \in (SUBSET Items) \ {{}} : MutationSend(m, is)
  \/ MutationApplied(m)
  \/ ClearBuckets(m)
  \/ ClearKeys(m)
  \/ MutationFails(m)

Next == Tick \/ (\E l \in Lists : ListStep(l)) \/ (\E m \in Mutations : MutationStep(m))

Spec == Init /\ [][Next]_vars

\* What a list request does by itself: a call to Garage ends at the latest when
\* the client's timeout makes it fail (see module Server).
Progress(l) ==
  StartWorkers(l) \/ Finish(l)
  \/ \E i \in Items : Lookup(l, i) \/ FetchSend(l, i) \/ FetchStore(l, i) \/ FetchFail(l, i)

-----------------------------------------------------------------------------
(* Properties *)

Entry == [full : BOOLEAN, val : Nat, expires : Nat, crossed : BOOLEAN]
ItemState == [st : {"none", "ask", "todo", "sent", "read", "hit", "got", "failed"},
              val : Nat, at : Nat, started : Nat, crossed : BOOLEAN]

\* Every variable has its type; a list request never has more than
\* enrichWorkers workers.
TypeOK ==
  /\ now \in Nat
  /\ changes \in [Items -> Seq(Nat)]
  /\ cache \in [Items -> Entry]
  /\ pc \in [Lists -> {"idle", "lookup", "feed", "answered", "dropped", "error"}]
  /\ item \in [Lists -> [Items -> ItemState]]
  /\ alive \in [Lists -> 0..EnrichWorkers]
  /\ gone \in [Lists -> BOOLEAN]
  /\ mpc \in [Mutations -> {"idle", "sent", "accepted", "clearing", "done", "failed"}]
  /\ touch \in [Mutations -> SUBSET Items]
  /\ made \in [Mutations -> [Items -> Nat]]
  /\ settled \in [Items -> Nat]
  /\ floor \in [Lists -> [Items -> Nat]]

\* When a version stopped being Garage's current one.
Superseded(i, v) == changes[i][v + 1]

\* What a row is filled with is outdated by a bounded time only, whatever fetches,
\* mutations and clears interleave and whichever answers are lost: when its info was
\* looked up or fetched, Garage still had it at most TTL + FetchTimeout before.  The
\* list is answered only after all its fetches, so what is shown is older by them.
StalenessBounded ==
  \A l \in Lists, i \in Items :
    item[l][i].st \in {"hit", "got"} /\ item[l][i].val < Version(i)
      => item[l][i].at <= Superseded(i, item[l][i].val) + TTL + FetchTimeout

\* The inductive invariant behind StalenessBounded: what a fetch under way, a
\* finished row and a cache entry know about the age of their value, at time t
\* and when c is the history of their item.
ItemAge(x, c, t) ==
  /\ x.val <= Len(c)
  /\ x.at <= t
  /\ x.st \in {"sent", "read"} => x.started <= t /\ t <= x.started + FetchTimeout
  /\ x.st = "read" /\ x.val < Len(c) => x.started <= c[x.val + 1]
  /\ x.st \in {"hit", "got"} /\ x.val < Len(c)
       => x.at <= c[x.val + 1] + TTL + FetchTimeout

EntryAge(e, c, t) ==
  /\ e.val <= Len(c)
  /\ e.expires <= t + TTL
  /\ e.full /\ e.val < Len(c) => e.expires <= c[e.val + 1] + TTL + FetchTimeout

AgeInv ==
  /\ \A l \in Lists, i \in Items : ItemAge(item[l][i], changes[i], now)
  /\ \A i \in Items : EntryAge(cache[i], changes[i], now)

\* A list that begins after a mutation was answered shows it, unless the row
\* came from a cache entry whose fetch had read Garage before the mutation's
\* clear and was stored after it.
StaleOnlyIfCrossed ==
  \A l \in Lists, i \in Items :
    item[l][i].st \in {"hit", "got"} /\ item[l][i].val < floor[l][i]
      => item[l][i].st = "hit" /\ item[l][i].crossed

\* The inductive invariant behind StaleOnlyIfCrossed.  The versions of i that a
\* value must not be older than, unless a clear overtook its fetch: those of the
\* mutations that were answered, and those whose bucket cache was just cleared.
Owed(i) ==
  {settled[i]} \cup {made[m][i] : m \in {n \in Mutations : mpc[n] = "clearing" /\ i \in Buckets}}

RowCovers(x, f, D) ==
  /\ x.st \in {"read", "got"} \/ (x.st = "hit" /\ ~x.crossed) => f <= x.val
  /\ x.st = "read" /\ ~x.crossed => \A d \in D : d <= x.val

EntryCovers(e, D) == e.full /\ ~e.crossed => \A d \in D : d <= e.val

SettledInv ==
  /\ \A m \in Mutations : mpc[m] \in {"accepted", "clearing", "done"} => touch[m] = {}
  /\ \A i \in Items :
       /\ settled[i] <= Version(i)
       /\ \A m \in Mutations : made[m][i] <= Version(i)
       /\ EntryCovers(cache[i], Owed(i))
  /\ \A l \in Lists, i \in Items :
       floor[l][i] <= settled[i] /\ RowCovers(item[l][i], floor[l][i], Owed(i))
=============================================================================
