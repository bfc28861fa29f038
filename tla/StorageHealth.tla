---------------------------- MODULE StorageHealth ----------------------------
(***************************************************************************)
(* The storage health of the cluster, from Garage to the two verdicts the  *)
(* console draws from it.                                                  *)
(*                                                                         *)
(* GET /api/cluster/storage-health (backend/handler_storage_health.go)     *)
(* asks every node for its statistics, its worker variables and its        *)
(* workers, each of which a node may answer, refuse, or not appear in, and *)
(* merges the three by node.  A lock lets one request fan out at a time,   *)
(* and a cache shares its answer for TTL with those that waited.           *)
(*                                                                         *)
(* Two pages judge the answer that was fetched last: the attention panel   *)
(* of the dashboard (lib/attention.ts), with the cluster's status, and the *)
(* recommendation of the maintenance page (lib/maintenance-status.ts),     *)
(* with the list of block errors.  The pages poll these on their own, so   *)
(* what they hold of them is any answer.  Each further source the pages    *)
(* look at can only keep them from saying that all is well.                *)
(***************************************************************************)
EXTENDS Naturals, FiniteSets

CONSTANTS
  Nodes,
  Storage,       \* the nodes that hold blocks; the others are gateways
  Tabs,          \* the tabs that ask for the storage health
  Here,          \* the one whose pages are modelled
  Outcomes,      \* Outcomes[source][n]: what node n may do in that fan-out
  MaxChanges     \* bound: how often a node sickens or recovers

Sources == {"stats", "vars", "workers"}

\* A node's part of one fan-out: its own answer, an error, or nothing at all.
Parts == {"read", "error", "absent"}

ASSUME StorageHealthAssumption ==
  /\ IsFiniteSet(Nodes) /\ Storage \subseteq Nodes
  /\ Here \in Tabs
  /\ \A s \in Sources, n \in Nodes : Outcomes[s][n] \subseteq Parts
  /\ MaxChanges \in Nat

VARIABLES
  sick,       \* the nodes with resync errors
  changes,    \* counter of MaxChanges
  phase,      \* what the handler of each tab's request is doing
  left,       \* the tabs whose client is gone
  fan,        \* the fan-out of a request: what came back of each source, and
              \* (history) the nodes that were sick all along, and whether a
              \* call failed because the client was gone
  cache,      \* storageHealthCache: no entry, or one
  shown, err  \* the answer the tab Here shows; whether its last fetch failed

vars == <<sick, changes, phase, left, fan, cache, shown, err>>

cluster == <<sick, changes>>
page    == <<shown, err>>
server  == <<phase, left, fan, cache>>

Phases == {"idle", "queued", "fanning"}

Failed == [n \in Nodes |-> "failed"]

NoFan   == [got |-> [s \in Sources |-> {}], sick |-> {}, cut |-> FALSE]
NewFan  == [NoFan EXCEPT !.sick = sick]

Init ==
  /\ sick \in SUBSET Storage /\ changes = 0
  /\ phase = [t \in Tabs |-> "idle"] /\ left = {}
  /\ fan = [t \in Tabs |-> NoFan]
  /\ cache = {}
  /\ shown = {} /\ err = FALSE

-----------------------------------------------------------------------------
(* The nodes.                                                              *)

Sickens(n) ==
  /\ changes < MaxChanges /\ changes' = changes + 1
  /\ n \notin sick /\ sick' = sick \union {n}
  /\ UNCHANGED <<server, page>>

Recovers(n) ==
  /\ changes < MaxChanges /\ changes' = changes + 1
  /\ n \in sick /\ sick' = sick \ {n}
  /\ fan' = [t \in Tabs |-> [fan[t] EXCEPT !.sick = @ \ {n}]]
  /\ UNCHANGED <<phase, left, cache, page>>

-----------------------------------------------------------------------------
(* The merge (buildStorageHealth).                                         *)

Whole(a) == a # Failed

Listed(got) == {n \in Nodes : \E s \in Sources : got[s][n] \in {"clean", "sick", "read", "error"}}

IgnoresAbsent(got, s, n) == FALSE

\* A node some fan-out listed and the statistics or the variables did not.
NotAnswered(got, s, n) == s # "workers" /\ got[s][n] = "absent"

Troubled(got, s, n) == got[s][n] = "error" \/ NotAnswered(got, s, n)

Entry(got, n) ==
  [errs  |-> IF got["stats"][n] \in {"clean", "sick"} THEN got["stats"][n] ELSE "unknown",
   error |-> \E s \in Sources : Troubled(got, s, n)]

Merged(f) ==
  LET got == [s \in Sources |-> CHOOSE a \in f.got[s] : TRUE] IN
  [nodes   |-> [n \in Listed(got) |-> Entry(got, n)],
   noStats |-> ~Whole(got["stats"]),
   noVars  |-> ~Whole(got["vars"]),
   sick    |-> f.sick, cut |-> f.cut]

-----------------------------------------------------------------------------
(* loadStorageHealth.  An answer is delivered as it is made: one that      *)
(* travels longer is one that was asked for later.  storageHealthTTL may   *)
(* pass at any time (Expires).                                             *)

Ask(t) ==
  /\ phase[t] = "idle" /\ phase' = [phase EXCEPT ![t] = "queued"]
  /\ UNCHANGED <<cluster, left, fan, cache, page>>

Delivered(t, a) ==
  /\ phase' = [phase EXCEPT ![t] = "idle"] /\ left' = left \ {t}
  /\ IF t = Here /\ t \notin left THEN shown' = {a} /\ err' = FALSE ELSE UNCHANGED page

LockFree(t) == \A u \in Tabs : phase[u] # "fanning"

Hits(t) ==
  /\ phase[t] = "queued" /\ LockFree(t)
  /\ \E a \in cache : Delivered(t, a)
  /\ UNCHANGED <<cluster, fan, cache>>

FansOut(t) ==
  /\ phase[t] = "queued" /\ LockFree(t)
  /\ cache = {}
  /\ fan' = [fan EXCEPT ![t] = NewFan] /\ phase' = [phase EXCEPT ![t] = "fanning"]
  /\ UNCHANGED <<cluster, left, cache, page>>

Open(t, s) == phase[t] = "fanning" /\ fan[t].got[s] = {}

\* What a node answers: its statistics tell whether it has resync errors.
Answer(s, n, part) ==
  IF s = "stats" /\ part = "read" THEN (IF n \in sick THEN "sick" ELSE "clean") ELSE part

GarageAnswers(t, s) ==
  /\ Open(t, s)
  /\ \E parts \in [Nodes -> Parts] :
       /\ \A n \in Nodes : parts[n] \in Outcomes[s][n]
       /\ fan' = [fan EXCEPT ![t].got[s] = {[n \in Nodes |-> Answer(s, n, parts[n])]}]
  /\ UNCHANGED <<cluster, phase, left, cache, page>>

\* An error of Garage, a timeout, or the cancellation of a client that left.
CallFails(t, s) ==
  /\ Open(t, s)
  /\ fan' = [fan EXCEPT ![t].got[s] = {Failed}, ![t].cut = @ \/ t \in left]
  /\ UNCHANGED <<cluster, phase, left, cache, page>>

PutAlways(t, a) == {a}

\* If the client went away, the result is made of cancellations; don't cache it.
Put(t, a) == IF t \in left THEN cache ELSE {a}

LeavesLocked(t) ==
  /\ phase[t] = "fanning" /\ t \notin left /\ \A s \in Sources : fan[t].got[s] # {}
  /\ cache' = Put(t, Merged(fan[t])) /\ Delivered(t, Merged(fan[t]))
  /\ fan' = [fan EXCEPT ![t] = NoFan]
  /\ UNCHANGED <<cluster>>

Return(t) ==
  /\ phase[t] = "fanning" /\ \A s \in Sources : fan[t].got[s] # {}
  /\ cache' = Put(t, Merged(fan[t])) /\ Delivered(t, Merged(fan[t]))
  /\ fan' = [fan EXCEPT ![t] = NoFan]
  /\ UNCHANGED <<cluster>>

Expires ==
  /\ cache # {} /\ cache' = {}
  /\ UNCHANGED <<cluster, phase, left, fan, page>>

\* The client goes: the tab is closed (another one is opened later), or the
\* connection breaks, which the page shows as an error unless the retry succeeds.
Leave(t) ==
  /\ phase[t] # "idle" /\ t \notin left
  /\ left' = left \union {t}
  /\ \/ UNCHANGED page
     \/ t = Here /\ shown' = {} /\ err' = FALSE
     \/ t = Here /\ err' = TRUE /\ UNCHANGED shown
  /\ UNCHANGED <<cluster, phase, fan, cache>>

-----------------------------------------------------------------------------
(* The attention panel (collectAttentionItems, AttentionPanel), given the  *)
(* nodes that are up by the status it holds, if any.                       *)

\* take: a source with an error is unknown even when it still holds data.
Take(failed, data) == IF failed THEN {} ELSE data

Relevant(status, n) == \A live \in status : n \in Storage \intersect live

PanelItems(status) ==
  \/ \E live \in status : ~(Storage \subseteq live)
  \/ \E a \in Take(err, shown) : \E n \in DOMAIN a.nodes : a.nodes[n].errs = "sick"

PanelUnknown(status) ==
  \/ err
  \/ \E a \in Take(err, shown) :
       \/ a.noStats \/ a.noVars
       \/ \E n \in DOMAIN a.nodes : Relevant(status, n) /\ a.nodes[n].error

PanelPending(status) == status = {} \/ shown = {}

PanelClear(status) == ~PanelItems(status) /\ ~PanelUnknown(status) /\ ~PanelPending(status)

-----------------------------------------------------------------------------
(* Block errors (flattenBlockErrors).  Only a sick node has entries, which *)
(* may be unreadable; one such entry keeps the node from counting as       *)
(* checked.                                                                *)

CountsUnreadable(part) == part \in {"read", "unreadable"}

Checked(part) == part = "read"

BlockAnswer(parts, ill) ==
  [items   |-> \E n \in ill : parts[n] = "read",
   checked |-> {n \in Nodes : Checked(parts[n])},
   errors  |-> {n \in Nodes : parts[n] # "absent" /\ ~Checked(parts[n])}]

(* The recommendation (decideMaintenanceStatus and what it is given).      *)

Skip(known) == IF known THEN Nodes \ Storage ELSE {}

Observed(checked, errors) == checked # {} /\ errors = {}

VerdictOk(b, known) ==
  /\ ~b.items /\ Observed(b.checked \ Skip(known), b.errors \ Skip(known))
  /\ ~err /\ shown # {}
  /\ \A a \in shown :
       /\ ~a.noStats
       /\ LET told == {n \in DOMAIN a.nodes : a.nodes[n].errs # "unknown"}
          IN  Observed(told \ Skip(known), (DOMAIN a.nodes \ told) \ Skip(known))

-----------------------------------------------------------------------------
Next ==
  \/ \E n \in Storage : Sickens(n) \/ Recovers(n)
  \/ Expires
  \/ \E t \in Tabs :
       \/ Ask(t) \/ Hits(t) \/ FansOut(t) \/ Return(t) \/ Leave(t)
       \/ \E s \in Sources : GarageAnswers(t, s) \/ CallFails(t, s)

\* The handler's goroutines are scheduled, a call ends by its timeout, and Go's
\* mutex hands itself to the waiter that starves.
Fairness ==
  \A t \in Tabs :
    /\ SF_vars(Hits(t) \/ FansOut(t))
    /\ WF_vars(Return(t))
    /\ \A s \in Sources : WF_vars(GarageAnswers(t, s) \/ CallFails(t, s))

Spec == Init /\ [][Next]_vars /\ Fairness

-----------------------------------------------------------------------------
(* Properties.                                                             *)

IsAnswer(a) ==
  /\ DOMAIN a.nodes \subseteq Nodes
  /\ \A n \in DOMAIN a.nodes : a.nodes[n] \in [errs : {"clean", "sick", "unknown"}, error : BOOLEAN]
  /\ a.noStats \in BOOLEAN /\ a.noVars \in BOOLEAN /\ a.cut \in BOOLEAN
  /\ a.sick \subseteq Storage

TypeOK ==
  /\ sick \subseteq Storage /\ changes \in 0..MaxChanges
  /\ phase \in [Tabs -> Phases] /\ left \subseteq Tabs
  /\ \A a \in cache : IsAnswer(a)
  /\ err \in BOOLEAN /\ \A a \in shown : IsAnswer(a)

\* "If the client went away the result is made of cancellations; don't cache
\* it": no page is ever answered with the cancellations of another's client.
NoCancellationShared == \A a \in shown : ~a.cut

\* A panel that says nothing needs attention has evidence: no storage node the
\* page knows to be up, and that took part in the answer it shows, had resync
\* errors for the whole of the asking.
ClearPanelIsEvidenced ==
  \A live \in SUBSET Nodes : PanelClear({live}) =>
    \A a \in shown : DOMAIN a.nodes \intersect Storage \intersect live \intersect a.sick = {}

\* The inductive invariant behind the two: a fan-out belongs to a handler that
\* holds the lock, was cut only when its client is gone, and reports no node as
\* clean that was sick all along; so does an answer that is kept, and the one
\* that is shown.
Told == [Nodes -> {"clean", "sick", "read", "error", "absent"}]

FanTypes ==
  fan \in [Tabs -> [got : [Sources -> SUBSET (Told \union {Failed})],
                    sick : SUBSET Storage, cut : BOOLEAN]]

FanIsHonest(f) ==
  /\ \A s \in Sources : \A a, b \in f.got[s] : a = b
  /\ \A a \in f.got["stats"] \ {Failed} : \A n \in Nodes :
       a[n] # "read" /\ (a[n] = "clean" => n \notin f.sick)

Honest(a) ==
  /\ ~a.cut
  /\ \A n \in DOMAIN a.nodes :
       /\ a.nodes[n].errs = "clean" => n \notin a.sick
       /\ a.nodes[n].errs = "unknown" /\ ~a.noStats => a.nodes[n].error

HealthInv ==
  /\ FanTypes
  /\ \A t \in Tabs :
       /\ phase[t] # "fanning" => fan[t] = NoFan
       /\ fan[t].cut => t \in left
       /\ fan[t].sick \subseteq sick /\ FanIsHonest(fan[t])
  /\ \A a \in cache \union shown : Honest(a)
  /\ \A a, b \in shown : a = b

\* A recommendation that says all is well has evidence: no storage node that
\* answered the block error listing had errors, one was checked at least, and
\* every storage node in the storage health answer reported its statistics.
OkIsEvidenced ==
  \A ill \in SUBSET Storage, known \in BOOLEAN, parts \in [Nodes -> Parts \union {"unreadable"}] :
    (\A n \in Nodes \ ill : parts[n] # "unreadable") /\ VerdictOk(BlockAnswer(parts, ill), known) =>
      /\ \A n \in ill : parts[n] = "absent"
      /\ \E n \in Nodes : parts[n] = "read" /\ (known => n \in Storage)
      /\ \A a \in shown : \A n \in DOMAIN a.nodes \intersect Storage : a.nodes[n].errs # "unknown"

\* Every dashboard that waits for the lock is answered, whoever holds it.
EveryAskEnds == \A t \in Tabs : phase[t] = "queued" ~> phase[t] = "idle"
=============================================================================
