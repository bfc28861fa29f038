----------------------------- MODULE RepairGuard ----------------------------
(***************************************************************************)
(* The guard on destructive repairs (backend/repair_guard.go,              *)
(* handler_repair.go, handleLaunchNodeRepair): before a repair that        *)
(* deletes metadata is forwarded, three independent calls ask Garage for   *)
(* the cluster's health, the nodes' roles and the nodes' workers, while    *)
(* nodes go down, come back, sync and change roles.  ListWorkers asks      *)
(* every node, so its answer collects the nodes' states at different       *)
(* moments.                                                                *)
(*                                                                         *)
(* One request is modelled: requests share nothing but the cluster.        *)
(***************************************************************************)
EXTENDS Naturals

CONSTANTS
  Nodes,
  Roles,        \* the roles a node can take, of those Holds tells apart
  Kinds         \* the kinds of workers that matter, see Fit and Follow

\* Table sync workers; Merkle and insert-queue workers.
ASSUME GuardAssumption ==
  /\ {"none"} \subseteq Roles /\ Roles \subseteq {"storage", "gateway", "draining", "none"}
  /\ Kinds \subseteq {"sync", "write"}

VARIABLES
  role, up, busy,   \* of each node: its role, connected or not, and which of
                    \* its workers are not idle
  pc, body,         \* of the request: where it is, and what it asks for
  health,           \* the answer to GetClusterHealth
  status,           \* the answer to GetClusterStatus
  workers,          \* workers[n]: n's part of the answer to ListWorkers
  listing,          \* whether the ListWorkers call as a whole failed
  unfit,            \* history: storage nodes down or syncing ever since the
                    \* request asked
  held, bad         \* history: nodes that were storage, and nodes that were
                    \* unfit or silent, at some moment since

cvars == <<role, up, busy>>
avars == <<health, status, workers, listing>>
hvars == <<unfit, held, bad>>
vars  == <<cvars, pc, body, avars, hvars>>

Bodies == {"destructive", "other", "unreadable"}

Asked == "asked"
Fit(isUp, kinds) == isUp /\ "sync" \notin kinds
Holds(r) == r \in {"storage", "draining"}

-----------------------------------------------------------------------------
Init ==
  /\ role \in [Nodes -> Roles]
  /\ up   \in [Nodes -> BOOLEAN]
  /\ busy \in [Nodes -> SUBSET Kinds]
  /\ pc = "idle" /\ body = "none"
  /\ health  = [st |-> Asked, down |-> FALSE, short |-> FALSE]
  /\ status  = [st |-> Asked, roles |-> [n \in Nodes |-> "none"]]
  /\ workers = [n \in Nodes |-> [st |-> Asked, busy |-> {}]]
  /\ listing = "on"
  /\ unfit = {} /\ held = {} /\ bad = {}

\* The cluster changes while a request waits for its answers, and the history
\* follows.  (Init starts from every cluster, and nothing depends on it once
\* the request is decided.)
Follow ==
  /\ pc = "asking"
  /\ unfit'   = {n \in unfit : Holds(role'[n]) /\ ~Fit(up'[n], busy'[n])}
  /\ held'    = held \cup {n \in Nodes : Holds(role'[n])}
  /\ bad'     = bad \cup {n \in Nodes : ~Fit(up'[n], busy'[n])}
  /\ UNCHANGED <<pc, body, avars>>

RoleChanges(n, r) ==
  /\ role' = [role EXCEPT ![n] = r]
  /\ UNCHANGED <<up, busy>>
  /\ Follow

LinkChanges(n) ==
  /\ up' = [up EXCEPT ![n] = ~@]
  /\ UNCHANGED <<role, busy>>
  /\ Follow

WorkChanges(n, k) ==
  /\ busy' = [busy EXCEPT ![n] = (@ \ {k}) \cup ({k} \ @)]
  /\ UNCHANGED <<role, up>>
  /\ Follow

-----------------------------------------------------------------------------
\* POST /api/repair or /api/nodes/{id}/repair: an unreadable body is refused,
\* a repair that deletes nothing is forwarded, a destructive one asks first.
Arrive(b) ==
  /\ pc = "idle"
  /\ body' = b
  /\ pc' = CASE b = "unreadable"  -> "rejected"
             [] b = "other"       -> "forward"
             [] b = "destructive" -> "asking"
  /\ IF b = "destructive"
     THEN /\ unfit'   = {n \in Nodes : Holds(role[n]) /\ ~Fit(up[n], busy[n])}
                  /\ held'    = {n \in Nodes : Holds(role[n])}
          /\ bad'     = {n \in Nodes : ~Fit(up[n], busy[n])}
     ELSE UNCHANGED hvars
  /\ UNCHANGED <<cvars, avars>>

\* GetClusterHealth counts the storage nodes of the layout, and the partitions
\* that have all their replicas on nodes that are up.
HealthAnswers ==
  LET down == \E n \in Nodes : role[n] = "storage" /\ ~up[n] IN
  /\ pc = "asking" /\ health.st = Asked
  /\ health' = [st |-> "ok", down |-> down, short |-> down]
  /\ UNCHANGED <<cvars, pc, body, status, workers, listing, hvars>>

\* An error, a timeout, or an answer without one of the counters.
HealthUnknown ==
  /\ pc = "asking" /\ health.st = Asked
  /\ health' = [health EXCEPT !.st = "failed"]
  /\ UNCHANGED <<cvars, pc, body, status, workers, listing, hvars>>

StatusAnswers ==
  /\ pc = "asking" /\ status.st = Asked
  /\ status' = [st |-> "ok", roles |-> role]
  /\ UNCHANGED <<cvars, pc, body, health, workers, listing, hvars>>

StatusUnknown ==
  /\ pc = "asking" /\ status.st = Asked
  /\ status' = [status EXCEPT !.st = "failed"]
  /\ UNCHANGED <<cvars, pc, body, health, workers, listing, hvars>>

\* A connected node tells Garage what its workers do.
NodeAnswers(n) ==
  /\ pc = "asking" /\ listing = "on" /\ workers[n].st = Asked /\ up[n]
  /\ workers' = [workers EXCEPT ![n] = [st |-> "answered", busy |-> busy[n]]]
  /\ UNCHANGED <<cvars, pc, body, health, status, listing, hvars>>

\* A node is down or does not answer Garage in time: it is in the error map,
\* or in neither map.
NodeSilent(n) ==
  /\ pc = "asking" /\ listing = "on" /\ workers[n].st = Asked
  /\ workers' = [workers EXCEPT ![n].st = "silent"]
  /\ bad' = bad \cup {n}
  /\ UNCHANGED <<cvars, pc, body, health, status, listing, unfit, held>>

ListingFails ==
  /\ pc = "asking" /\ listing = "on"
  /\ listing' = "failed"
  /\ UNCHANGED <<cvars, pc, body, health, status, workers, hvars>>

-----------------------------------------------------------------------------
CurrentStorage(roles) == {n \in Nodes : roles[n] = "storage"}
EveryNode(roles) == Nodes

\* storageNodes: a role with capacity, or draining out of the layout.
StorageNodes(roles) == {n \in Nodes : Holds(roles[n])}

BlockedByAnswersOnly ==
  \/ health.down
  \/ health.short
  \/ \E n \in StorageNodes(status.roles) : "sync" \in workers[n].busy

\* destructiveRepairBlockers finds a reason.
Blocked ==
  \/ health.down
  \/ health.short
  \/ \E n \in StorageNodes(status.roles) :
       workers[n].st # "answered" \/ "sync" \in workers[n].busy

Unknown == health.st = "failed" \/ status.st = "failed" \/ listing = "failed"

\* wg.Wait: the three calls returned.
AllReturned ==
  /\ health.st # Asked /\ status.st # Asked
  /\ listing = "failed" \/ \A n \in Nodes : workers[n].st # Asked

\* The verdict: 502 when an answer is missing, 409 when there is a reason not
\* to run, and otherwise the repair is forwarded.
Decide ==
  /\ pc = "asking" /\ AllReturned
  /\ pc' = IF Unknown THEN "badGateway" ELSE IF Blocked THEN "conflict" ELSE "forward"
  /\ UNCHANGED <<cvars, body, avars, hvars>>

\* proxyGarageRequest: the launch reaches Garage, or does not.
Launch(outcome) ==
  /\ pc = "forward"
  /\ pc' = outcome
  /\ UNCHANGED <<cvars, body, avars, hvars>>

Request ==
  \/ \E b \in Bodies : Arrive(b)
  \/ HealthAnswers \/ HealthUnknown
  \/ StatusAnswers \/ StatusUnknown
  \/ \E n \in Nodes : NodeAnswers(n) \/ NodeSilent(n)
  \/ ListingFails
  \/ Decide
  \/ \E o \in {"launched", "unreached"} : Launch(o)

Cluster ==
  \E n \in Nodes :
    \/ \E r \in Roles : RoleChanges(n, r)
    \/ LinkChanges(n)
    \/ \E k \in Kinds : WorkChanges(n, k)

Next == Request \/ Cluster

Spec == Init /\ [][Next]_vars

-----------------------------------------------------------------------------
(* Properties *)

Phases == {"idle", "asking", "rejected", "badGateway", "conflict", "forward",
           "launched", "unreached"}

\* Every variable has its type, and a destructive repair that was let through
\* had three readable answers.
TypeOK ==
  /\ role \in [Nodes -> Roles]
  /\ up   \in [Nodes -> BOOLEAN]
  /\ busy \in [Nodes -> SUBSET Kinds]
  /\ pc \in Phases /\ body \in Bodies \cup {"none"}
  /\ health  \in [st : {Asked, "ok", "failed"}, down : BOOLEAN, short : BOOLEAN]
  /\ status  \in [st : {Asked, "ok", "failed"}, roles : [Nodes -> Roles]]
  /\ workers \in [Nodes -> [st : {Asked, "answered", "silent"}, busy : SUBSET Kinds]]
  /\ listing \in {"on", "failed"}
  /\ unfit \subseteq Nodes /\ held \subseteq Nodes /\ bad \subseteq Nodes
  /\ pc \in {"forward", "launched", "unreached"} /\ body = "destructive" =>
       health.st = "ok" /\ status.st = "ok" /\ listing = "on"

\* A destructive repair is never forwarded while a storage node has been out
\* of step - down, or up again and still syncing - from before the request
\* asked until it was decided, whichever of the three answers saw which moment.
NoLaunchDuringOutage ==
  pc \in {"forward", "launched", "unreached"} /\ body = "destructive" => unfit = {}

\* The inductive invariant behind it and the next one.  The history covers the
\* present; and the answers that are in tell of every node that has been out of
\* step throughout, and of no node that was not.
History ==
  pc = "asking" =>
    \A n \in Nodes :
      /\ n \in unfit => Holds(role[n]) /\ ~Fit(up[n], busy[n])
      /\ Holds(role[n]) => n \in held
      /\ ~Fit(up[n], busy[n]) => n \in bad

Unasked ==
  pc = "idle" =>
    /\ ~health.down /\ ~health.short /\ status.st = Asked
    /\ \A n \in Nodes : workers[n].st = Asked /\ workers[n].busy = {}

Seen ==
  pc = "asking" =>
    \A n \in unfit :
      /\ status.st = "ok" => Holds(status.roles[n])
      /\ workers[n].st = "answered" => "sync" \in workers[n].busy

\* "Only storage nodes matter": a repair is refused only because a node that
\* held metadata was down, syncing or silent while the request was pending.
OnlyStorageBlocks == pc = "conflict" => held \cap bad # {}

Grounds ==
  /\ health.down \/ health.short => held \cap bad # {}
  /\ pc = "asking" =>
       \A n \in Nodes :
         /\ status.st = "ok" /\ Holds(status.roles[n]) => n \in held
         /\ workers[n].st = "silent" => n \in bad
         /\ "sync" \in workers[n].busy => n \in bad

GuardInv == History /\ Unasked /\ Seen /\ Grounds
=============================================================================
