---------------------------- MODULE ClusterProofs ---------------------------
(***************************************************************************)
(* The pages that act on the whole cluster.  First the verdicts of         *)
(* RepairGuard, and of the console's page in front of it, for every set of *)
(* nodes; then the layout page, for every set of nodes, roles and typed    *)
(* values.                                                                 *)
(***************************************************************************)
EXTENDS RepairPage, LayoutEdit, TLAPS

LEMMA TypesStep ==
  ASSUME TypeOK, [Next]_vars
  PROVE  TypeOK'
<1>1. ASSUME NEW b \in Bodies, Arrive(b) PROVE TypeOK'
  <2>1. pc' \in Phases
    BY <1>1 DEF Arrive, Bodies, Phases
  <2>2. /\ unfit' \subseteq Nodes
        /\ held' \subseteq Nodes /\ bad' \subseteq Nodes
    BY <1>1 DEF Arrive, TypeOK, hvars
  <2> QED
    BY <1>1, <2>1, <2>2 DEF Arrive, Bodies, TypeOK, cvars, avars
<1>2. ASSUME HealthAnswers PROVE TypeOK'
  <2> DEFINE down == \E n \in Nodes : role[n] = "storage" /\ ~up[n]
  <2>1. health' = [st |-> "ok", down |-> down, short |-> down] /\ down \in BOOLEAN
    BY <1>2 DEF HealthAnswers
  <2> HIDE DEF down
  <2>2. health' \in [st : {Asked, "ok", "failed"}, down : BOOLEAN, short : BOOLEAN]
    BY <2>1
  <2> QED
    BY <1>2, <2>2 DEF HealthAnswers, TypeOK, cvars, hvars
<1>3. ASSUME HealthUnknown PROVE TypeOK'
  <2>1. health' \in [st : {Asked, "ok", "failed"}, down : BOOLEAN, short : BOOLEAN]
    BY <1>3 DEF HealthUnknown, TypeOK
  <2> QED
    BY <1>3, <2>1 DEF HealthUnknown, TypeOK, cvars, hvars
<1>4. ASSUME StatusAnswers \/ StatusUnknown PROVE TypeOK'
  BY <1>4 DEF StatusAnswers, StatusUnknown, TypeOK, cvars, hvars
<1>5. ASSUME NEW n \in Nodes, NodeAnswers(n) \/ NodeSilent(n) PROVE TypeOK'
  BY <1>5 DEF NodeAnswers, NodeSilent, TypeOK, cvars, hvars
<1>6. ASSUME ListingFails PROVE TypeOK'
  BY <1>6 DEF ListingFails, TypeOK, cvars, hvars
<1>7. ASSUME Decide PROVE TypeOK'
  <2>1. AllReturned /\ ~Unknown => health.st = "ok" /\ status.st = "ok" /\ listing = "on"
    BY DEF AllReturned, Unknown, TypeOK
  <2> QED
    BY <1>7, <2>1 DEF Decide, TypeOK, Phases, cvars, avars, hvars
<1>8. ASSUME NEW o \in {"launched", "unreached"}, Launch(o) PROVE TypeOK'
  BY <1>8 DEF Launch, TypeOK, Phases, cvars, avars, hvars
<1>9. ASSUME Cluster PROVE TypeOK'
  <2>1. Follow => /\ unfit' \subseteq Nodes
                  /\ held' \subseteq Nodes /\ bad' \subseteq Nodes
    BY DEF Follow, TypeOK
  <2>2. ASSUME NEW n \in Nodes, NEW r \in Roles, RoleChanges(n, r) PROVE TypeOK'
    BY <2>1, <2>2 DEF RoleChanges, Follow, TypeOK, avars
  <2>3. ASSUME NEW n \in Nodes, LinkChanges(n) PROVE TypeOK'
    <3>1. up' \in [Nodes -> BOOLEAN]
      BY <2>3, Zenon DEF LinkChanges, TypeOK
    <3> QED
      BY <2>1, <2>3, <3>1 DEF LinkChanges, Follow, TypeOK, avars
  <2>4. ASSUME NEW n \in Nodes, NEW k \in Kinds, WorkChanges(n, k) PROVE TypeOK'
    <3>1. (busy[n] \ {k}) \cup ({k} \ busy[n]) \in SUBSET Kinds
      BY DEF TypeOK
    <3>2. busy' \in [Nodes -> SUBSET Kinds]
      BY <2>4, <3>1 DEF WorkChanges, TypeOK
    <3> QED
      BY <2>1, <2>4, <3>2 DEF WorkChanges, Follow, TypeOK, avars
  <2> QED
    BY <1>9, <2>2, <2>3, <2>4 DEF Cluster
<1>10. ASSUME UNCHANGED vars PROVE TypeOK'
  BY <1>10 DEF vars, cvars, avars, hvars, TypeOK
<1> QED
  BY <1>1, <1>2, <1>3, <1>4, <1>5, <1>6, <1>7, <1>8, <1>9, <1>10 DEF Next, Request

\* Every variable keeps its type, whatever the cluster and the calls do.
THEOREM TypeCorrect == Spec => []TypeOK
<1>1. Init => TypeOK
  BY GuardAssumption DEF Init, TypeOK, Phases
<1> QED
  BY <1>1, TypesStep, PTL DEF Spec

-----------------------------------------------------------------------------
\* The four conjuncts of GuardInv that a change of the cluster can disturb.
LEMMA ClusterStep ==
  ASSUME TypeOK, GuardInv, Cluster
  PROVE  GuardInv'
<1>1. Follow
  BY DEF Cluster, RoleChanges, LinkChanges, WorkChanges
<1>2. History'
  BY <1>1 DEF Follow, History, TypeOK, GuardInv
<1>3. Seen' /\ Unasked'
  BY <1>1 DEF Follow, Seen, Unasked, avars, GuardInv
<1>4. Grounds'
  BY <1>1 DEF Follow, Grounds, avars, GuardInv
<1> QED
  BY <1>2, <1>3, <1>4 DEF GuardInv

LEMMA RequestStep ==
  ASSUME TypeOK, GuardInv, Request
  PROVE  GuardInv'
<1> USE DEF GuardInv
<1>1. ASSUME NEW b \in Bodies, Arrive(b) PROVE GuardInv'
  <2>1. CASE b = "destructive"
    <3>1. /\ pc = "idle" /\ pc' = "asking"
          /\ unfit' = {n \in Nodes : Holds(role[n]) /\ ~Fit(up[n], busy[n])}
          /\ held'  = {n \in Nodes : Holds(role[n])}
          /\ bad'   = {n \in Nodes : ~Fit(up[n], busy[n])}
          /\ UNCHANGED <<role, up, busy, health, status, workers, listing>>
      BY <1>1, <2>1 DEF Arrive, cvars, avars
    <3>2. History'
      BY <3>1 DEF History
    <3>3. Seen' /\ Unasked' /\ Grounds'
      BY <3>1 DEF Seen, Unasked, Grounds, Asked
    <3> QED
      BY <3>2, <3>3
  <2>2. CASE b # "destructive"
    <3>1. /\ pc' # "asking" /\ pc' # "idle"
          /\ UNCHANGED <<health, held, bad>>
      BY <1>1, <2>2 DEF Arrive, Bodies, avars, hvars
    <3> QED
      BY <3>1 DEF History, Seen, Unasked, Grounds
  <2> QED
    BY <2>1, <2>2
<1>2. ASSUME HealthAnswers PROVE GuardInv'
  <2>1. ASSUME NEW n \in Nodes, role[n] = "storage", ~up[n]
        PROVE  held \cap bad # {}
    BY <1>2, <2>1 DEF HealthAnswers, History, Holds, Fit
  <2> DEFINE down == \E n \in Nodes : role[n] = "storage" /\ ~up[n]
  <2>2. health'.down = down /\ health'.short = down /\ pc = "asking"
    BY <1>2 DEF HealthAnswers
  <2>3. down => held \cap bad # {}
    BY <2>1
  <2> HIDE DEF down
  <2>4. UNCHANGED <<role, up, busy, pc, status, workers, unfit, held, bad>>
    BY <1>2 DEF HealthAnswers, cvars, hvars
  <2> QED
    BY <2>2, <2>3, <2>4 DEF History, Unasked, Seen, Grounds
<1>3. ASSUME HealthUnknown PROVE GuardInv'
  <2>1. /\ UNCHANGED <<role, up, busy, pc, status, workers, unfit, held, bad>>
        /\ health'.down = health.down /\ health'.short = health.short /\ pc = "asking"
    BY <1>3 DEF HealthUnknown, TypeOK, cvars, hvars
  <2> QED
    BY <2>1 DEF History, Unasked, Seen, Grounds
<1>4. ASSUME StatusAnswers PROVE GuardInv'
  <2>1. /\ UNCHANGED <<role, up, busy, pc, health, workers, unfit, held, bad>>
        /\ status'.roles = role /\ pc = "asking"
    BY <1>4 DEF StatusAnswers, cvars, hvars
  <2> QED
    BY <2>1 DEF TypeOK, History, Unasked, Seen, Grounds
<1>5. ASSUME StatusUnknown PROVE GuardInv'
  <2>1. /\ UNCHANGED <<role, up, busy, pc, health, workers, unfit, held, bad>>
        /\ status'.st = "failed" /\ pc = "asking"
    BY <1>5 DEF StatusUnknown, TypeOK, cvars, hvars
  <2> QED
    BY <2>1 DEF History, Unasked, Seen, Grounds
<1>6. ASSUME NEW n \in Nodes, NodeAnswers(n) PROVE GuardInv'
  <2>1. /\ UNCHANGED <<role, up, busy, pc, health, status, unfit, held, bad>>
        /\ workers'[n].st = "answered" /\ workers'[n].busy = busy[n] /\ up[n]
        /\ \A m \in Nodes : m # n => workers'[m] = workers[m]
        /\ pc = "asking"
    BY <1>6 DEF NodeAnswers, TypeOK, cvars, hvars
  <2>2. "sync" \in busy[n] <=> ~Fit(up[n], busy[n])
    BY <2>1 DEF Fit
  <2>3. Seen'
    BY <2>1, <2>2 DEF History, Seen, TypeOK
  <2>4. Grounds'
    BY <2>1, <2>2 DEF History, Grounds
  <2> QED
    BY <2>1, <2>3, <2>4 DEF History, Unasked
<1>7. ASSUME NEW n \in Nodes, NodeSilent(n) PROVE GuardInv'
  <2>1. /\ UNCHANGED <<role, up, busy, pc, health, status, unfit, held>>
        /\ bad' = bad \cup {n}
        /\ workers'[n].st = "silent" /\ workers'[n].busy = workers[n].busy
        /\ \A m \in Nodes : m # n => workers'[m] = workers[m]
        /\ pc = "asking"
    BY <1>7 DEF NodeSilent, TypeOK, cvars
  <2>2. Seen'
    BY <2>1 DEF Seen, TypeOK
  <2>3. Grounds'
    BY <2>1 DEF Grounds
  <2> QED
    BY <2>1, <2>2, <2>3 DEF History, Unasked
<1>8. ASSUME ListingFails PROVE GuardInv'
  <2>1. UNCHANGED <<role, up, busy, pc, health, status, workers, unfit, held, bad>>
    BY <1>8 DEF ListingFails, cvars, hvars
  <2> QED
    BY <2>1 DEF History, Unasked, Seen, Grounds
<1>9. ASSUME Decide \/ \E o \in {"launched", "unreached"} : Launch(o) PROVE GuardInv'
  <2>1. pc' # "asking" /\ pc' # "idle" /\ UNCHANGED <<health, held, bad>>
    BY <1>9 DEF Decide, Launch, avars, hvars
  <2> QED
    BY <2>1 DEF History, Unasked, Seen, Grounds
<1> QED
  BY <1>1, <1>2, <1>3, <1>4, <1>5, <1>6, <1>7, <1>8, <1>9 DEF Request

LEMMA GuardInvariance == Spec => [](TypeOK /\ GuardInv)
<1>1. Init => GuardInv
  BY DEF Init, GuardInv, History, Unasked, Seen, Grounds, Asked
<1>2. TypeOK /\ GuardInv /\ [Next]_vars => GuardInv'
  <2>1. ASSUME GuardInv, UNCHANGED vars PROVE GuardInv'
    BY <2>1 DEF vars, cvars, avars, hvars, GuardInv, History, Unasked, Seen, Grounds
  <2> QED
    BY <2>1, ClusterStep, RequestStep DEF Next
<1> QED
  BY <1>1, <1>2, TypeCorrect, PTL DEF Spec

-----------------------------------------------------------------------------
LEMMA LaunchStep ==
  ASSUME TypeOK, GuardInv, NoLaunchDuringOutage, [Next]_vars
  PROVE  NoLaunchDuringOutage'
<1>1. ASSUME Decide, pc' = "forward" PROVE unfit' = {}
  <2>1. /\ unfit' = unfit /\ pc = "asking"
        /\ ~Unknown /\ ~Blocked /\ AllReturned
    BY <1>1 DEF Decide, hvars
  <2>2. status.st = "ok"
    BY <2>1 DEF TypeOK, Unknown, AllReturned
  <2>3. \A n \in unfit : Holds(status.roles[n]) /\ (workers[n].st = "answered" => "sync" \in workers[n].busy)
    BY <2>1, <2>2 DEF GuardInv, Seen
  <2>4. \A n \in unfit : n \in StorageNodes(status.roles)
    BY <2>3 DEF StorageNodes, TypeOK
  <2> QED
    BY <2>1, <2>3, <2>4 DEF Blocked
<1>2. ASSUME NEW b \in Bodies, Arrive(b), pc' \in {"forward", "launched", "unreached"} PROVE body' # "destructive"
  BY <1>2 DEF Arrive, Bodies
<1>3. ASSUME NEW o \in {"launched", "unreached"}, Launch(o) PROVE NoLaunchDuringOutage'
  BY <1>3 DEF Launch, NoLaunchDuringOutage, hvars
<1>4. ASSUME pc' = "asking" PROVE NoLaunchDuringOutage'
  BY <1>4 DEF NoLaunchDuringOutage
<1>5. ASSUME HealthAnswers \/ HealthUnknown \/ StatusAnswers \/ StatusUnknown \/ ListingFails
             \/ (\E n \in Nodes : NodeAnswers(n) \/ NodeSilent(n)) \/ Cluster
      PROVE  pc' = "asking"
  BY <1>5 DEF HealthAnswers, HealthUnknown, StatusAnswers, StatusUnknown, ListingFails,
              NodeAnswers, NodeSilent, Cluster, RoleChanges, LinkChanges, WorkChanges, Follow
<1>6. ASSUME UNCHANGED vars PROVE NoLaunchDuringOutage'
  BY <1>6 DEF vars, hvars, NoLaunchDuringOutage
<1>7. ASSUME Decide PROVE NoLaunchDuringOutage'
  BY <1>1, <1>7 DEF Decide, NoLaunchDuringOutage
<1>8. ASSUME NEW b \in Bodies, Arrive(b) PROVE NoLaunchDuringOutage'
  BY <1>2, <1>8 DEF NoLaunchDuringOutage
<1> QED
  BY <1>3, <1>4, <1>5, <1>6, <1>7, <1>8 DEF Next, Request

LEMMA RefusalStep ==
  ASSUME TypeOK, GuardInv, OnlyStorageBlocks, [Next]_vars
  PROVE  OnlyStorageBlocks'
<1>1. ASSUME Decide, pc' = "conflict" PROVE held' \cap bad' # {}
  <2>1. /\ pc = "asking" /\ held' = held /\ bad' = bad
        /\ ~Unknown /\ Blocked /\ AllReturned
    BY <1>1 DEF Decide, hvars
  <2>2. status.st = "ok" /\ \A n \in Nodes : workers[n].st \in {"answered", "silent"}
    BY <2>1 DEF TypeOK, Unknown, AllReturned
  <2>3. CASE health.down \/ health.short
    BY <2>1, <2>3 DEF GuardInv, Grounds
  <2>4. ASSUME NEW n \in StorageNodes(status.roles),
               workers[n].st # "answered" \/ "sync" \in workers[n].busy
        PROVE  n \in held \cap bad
    BY <2>1, <2>2, <2>4 DEF StorageNodes, GuardInv, Grounds
  <2> QED
    BY <2>1, <2>3, <2>4 DEF Blocked
<1>2. ASSUME NEW b \in Bodies, Arrive(b) PROVE pc' # "conflict"
  BY <1>2 DEF Arrive, Bodies
<1>3. ASSUME NEW o \in {"launched", "unreached"}, Launch(o) PROVE pc' # "conflict"
  BY <1>3 DEF Launch
<1>4. ASSUME HealthAnswers \/ HealthUnknown \/ StatusAnswers \/ StatusUnknown \/ ListingFails
             \/ (\E n \in Nodes : NodeAnswers(n) \/ NodeSilent(n)) \/ Cluster
      PROVE  pc' = "asking"
  BY <1>4 DEF HealthAnswers, HealthUnknown, StatusAnswers, StatusUnknown, ListingFails,
              NodeAnswers, NodeSilent, Cluster, RoleChanges, LinkChanges, WorkChanges, Follow
<1>5. ASSUME UNCHANGED vars PROVE OnlyStorageBlocks'
  BY <1>5 DEF vars, hvars, OnlyStorageBlocks
<1> QED
  BY <1>1, <1>2, <1>3, <1>4, <1>5 DEF Next, Request, OnlyStorageBlocks

\* guardDestructiveRepair never lets a destructive repair through during an
\* outage or a sync that spans the request.
THEOREM NoOutageLaunch == Spec => []NoLaunchDuringOutage
<1>1. Init => NoLaunchDuringOutage
  BY DEF Init, NoLaunchDuringOutage
<1> QED
  BY <1>1, LaunchStep, GuardInvariance, PTL DEF Spec

\* destructiveRepairBlockers refuses only for the sake of a storage node that
\* was down, syncing or silent: a gateway never holds a repair back.
THEOREM OnlyStorageRefuses == Spec => []OnlyStorageBlocks
<1>1. Init => OnlyStorageBlocks
  BY DEF Init, OnlyStorageBlocks
<1> QED
  BY <1>1, RefusalStep, GuardInvariance, PTL DEF Spec

-----------------------------------------------------------------------------
(* The page in front of the guard *)

\* While the guard has no request, the cluster's changes are none of its own.
LEMMA GuardRests ==
  ASSUME TypeOK, GuardInv, pc = "idle", UNCHANGED guardVars,
         role' \in [Nodes -> Roles], up' \in [Nodes -> BOOLEAN], busy' \in [Nodes -> SUBSET Kinds]
  PROVE  TypeOK' /\ GuardInv'
<1>1. UNCHANGED <<pc, body, health, status, workers, listing, unfit, held, bad>>
  BY DEF guardVars, avars, hvars
<1>2. TypeOK'
  BY <1>1 DEF TypeOK
<1> QED
  BY <1>1, <1>2 DEF GuardInv, History, Unasked, Seen, Grounds

LEMMA ConfirmStep ==
  ASSUME PageInv, NEW b \in Offered, Confirm(b)
  PROVE  PageInv' /\ UNCHANGED <<role, up, busy>>
<1>1. /\ pc = "idle" /\ cpc = "idle" /\ cbody' = b
      /\ cpc' = IF b = "other" THEN "forward" ELSE "asking"
      /\ b = "destructive" => cunfit' = {n \in Nodes : Holds(role[n]) /\ ~Fit(up[n], busy[n])}
      /\ b = "other" => cunfit' = cunfit
      /\ UNCHANGED <<role, up, busy, pc, cstatus, cworkers>>
  BY DEF Confirm, Offered, Check!Arrive, Check!cvars, Check!avars, Check!hvars, guardVars,
         Check!Holds, Check!Fit, Holds, Fit
<1>2. PageTypes'
  BY <1>1 DEF PageInv, PageTypes, Offered
<1>3. PageSeen'
  BY <1>1 DEF PageInv, PageTypes, PageSeen, Offered, Asked
<1>4. PageAsksOnlyWhenFit'
  BY <1>1 DEF PageAsksOnlyWhenFit, Offered
<1> QED
  BY <1>1, <1>2, <1>3, <1>4 DEF PageInv

LEMMA RefetchedStep ==
  ASSUME PageInv, Refetched, UNCHANGED guardVars
  PROVE  PageInv' /\ pc = "idle" /\ UNCHANGED <<role, up, busy>>
<1>1. /\ cpc = "asking" /\ UNCHANGED <<role, up, busy, pc, cpc, cbody, cunfit>>
  BY DEF Refetched, RefetchFails, RolesStay, guardVars, cvars,
         Check!HealthAnswers, Check!HealthUnknown, Check!StatusAnswers, Check!ListingFails,
         Check!NodeAnswers, Check!NodeSilent, Check!cvars, Check!hvars
<1>2. pc = "idle"
  BY <1>1 DEF PageInv, PageSeen
<1>3. PageAsksOnlyWhenFit'
  BY <1>1 DEF PageAsksOnlyWhenFit
<1>4. CASE UNCHANGED <<cstatus, cworkers>>
  BY <1>1, <1>2, <1>3, <1>4 DEF PageInv, PageTypes, PageSeen
<1>5. CASE Check!StatusAnswers
  <2>1. cstatus' = [st |-> "ok", roles |-> role] /\ cworkers' = cworkers
    BY <1>5 DEF Check!StatusAnswers
  <2>2. PageTypes'
    BY <1>1, <2>1 DEF PageInv, PageTypes
  <2>3. PageSeen'
    BY <1>1, <2>1 DEF PageInv, PageTypes, PageSeen
  <2> QED
    BY <1>1, <1>2, <1>3, <2>2, <2>3 DEF PageInv
<1>6. ASSUME NEW old \in [Nodes -> Roles], RolesStay(old)
      PROVE  PageInv' /\ pc = "idle" /\ UNCHANGED <<role, up, busy>>
  <2>1. cstatus' = [st |-> "stale", roles |-> old] /\ cworkers' = cworkers
    BY <1>6 DEF RolesStay
  <2>2. PageTypes'
    BY <1>1, <2>1 DEF PageInv, PageTypes
  <2>3. PageSeen'
    BY <1>1, <2>1 DEF PageInv, PageTypes, PageSeen
  <2> QED
    BY <1>1, <1>2, <1>3, <2>2, <2>3 DEF PageInv
<1>7. ASSUME NEW n \in Nodes, Check!NodeAnswers(n) \/ Check!NodeSilent(n)
      PROVE  PageInv' /\ pc = "idle" /\ UNCHANGED <<role, up, busy>>
  <2>1. /\ cstatus' = cstatus /\ \A m \in Nodes : m # n => cworkers'[m] = cworkers[m]
        /\ \/ up[n] /\ cworkers'[n] = [st |-> "answered", busy |-> busy[n]]
           \/ cworkers'[n] = [st |-> "silent", busy |-> cworkers[n].busy]
        /\ cworkers' = [m \in Nodes |-> cworkers'[m]]
    BY <1>7 DEF PageInv, PageTypes, Check!NodeAnswers, Check!NodeSilent
  <2>2. cworkers' \in [Nodes -> [st : {Asked, "answered", "silent"}, busy : SUBSET Kinds]]
    <3>1. \A m \in Nodes : cworkers'[m] \in [st : {Asked, "answered", "silent"}, busy : SUBSET Kinds]
      BY <2>1 DEF PageInv, PageTypes
    <3> QED
      BY <2>1, <3>1
  <2>3. PageTypes'
    BY <1>1, <2>1, <2>2 DEF PageInv, PageTypes
  <2>4. PageSeen'
    BY <1>1, <2>1 DEF PageInv, PageTypes, PageSeen, Fit
  <2> QED
    BY <1>1, <1>2, <1>3, <2>3, <2>4 DEF PageInv
<1>8. Check!HealthAnswers \/ Check!HealthUnknown \/ Check!ListingFails => UNCHANGED <<cstatus, cworkers>>
  BY DEF Check!HealthAnswers, Check!HealthUnknown, Check!ListingFails
<1> QED
  BY <1>4, <1>5, <1>6, <1>7, <1>8 DEF Refetched, RefetchFails

LEMMA PageClusterStep ==
  ASSUME PageInv, Check!Cluster, UNCHANGED guardVars
  PROVE  PageInv' /\ pc = "idle"
<1>1. Check!Follow
  BY DEF Check!Cluster, Check!RoleChanges, Check!LinkChanges, Check!WorkChanges
<1>2. /\ cpc = "asking" /\ UNCHANGED <<cpc, cbody, pc, cstatus, cworkers>>
      /\ cunfit' = {n \in cunfit : Holds(role'[n]) /\ ~Fit(up'[n], busy'[n])}
  BY <1>1 DEF Check!Follow, Check!avars, Check!Holds, Check!Fit, Holds, Fit, guardVars
<1>3. role' \in [Nodes -> Roles] /\ up' \in [Nodes -> BOOLEAN] /\ busy' \in [Nodes -> SUBSET Kinds]
  <2>1. ASSUME NEW n \in Nodes, NEW r \in Roles, Check!RoleChanges(n, r)
        PROVE  /\ role' \in [Nodes -> Roles] /\ up' \in [Nodes -> BOOLEAN]
               /\ busy' \in [Nodes -> SUBSET Kinds]
    BY <2>1 DEF Check!RoleChanges, PageInv, PageTypes
  <2>2. ASSUME NEW n \in Nodes, Check!LinkChanges(n)
        PROVE  /\ role' \in [Nodes -> Roles] /\ up' \in [Nodes -> BOOLEAN]
               /\ busy' \in [Nodes -> SUBSET Kinds]
    <3>1. up' \in [Nodes -> BOOLEAN]
      BY <2>2, Zenon DEF Check!LinkChanges, PageInv, PageTypes
    <3> QED
      BY <2>2, <3>1 DEF Check!LinkChanges, PageInv, PageTypes
  <2>3. ASSUME NEW n \in Nodes, NEW k \in Kinds, Check!WorkChanges(n, k)
        PROVE  /\ role' \in [Nodes -> Roles] /\ up' \in [Nodes -> BOOLEAN]
               /\ busy' \in [Nodes -> SUBSET Kinds]
    <3>1. (busy[n] \ {k}) \cup ({k} \ busy[n]) \in SUBSET Kinds
      BY DEF PageInv, PageTypes
    <3>2. busy' \in [Nodes -> SUBSET Kinds]
      BY <2>3, <3>1 DEF Check!WorkChanges, PageInv, PageTypes
    <3> QED
      BY <2>3, <3>2 DEF Check!WorkChanges, PageInv, PageTypes
  <2> QED
    BY <2>1, <2>2, <2>3 DEF Check!Cluster
<1>4. PageTypes'
  BY <1>2, <1>3 DEF PageInv, PageTypes
<1>5. PageSeen' /\ pc = "idle"
  BY <1>2 DEF PageInv, PageSeen
<1>6. PageAsksOnlyWhenFit'
  BY <1>2 DEF PageAsksOnlyWhenFit
<1> QED
  BY <1>4, <1>5, <1>6 DEF PageInv

\* assertRepairAllowed lets the repair through only on answers that none of the
\* nodes that were out of step could have given.
LEMMA RecheckStep ==
  ASSUME PageInv, Recheck
  PROVE  PageInv' /\ pc = "idle" /\ UNCHANGED <<role, up, busy, guardVars>>
<1>1. /\ cpc = "asking" /\ Check!AllReturned
      /\ cpc' = IF Refuses THEN "conflict" ELSE "forward"
      /\ UNCHANGED <<role, up, busy, guardVars, pc, cbody, cstatus, cworkers, cunfit>>
  BY DEF Recheck, cvars, guardVars
<1>2. pc = "idle"
  BY <1>1 DEF PageInv, PageSeen
<1>3. PageTypes' /\ PageSeen'
  BY <1>1, <1>2 DEF PageInv, PageTypes, PageSeen
<1>4. ASSUME cpc' = "forward" PROVE cunfit \intersect StorageIds = {}
  <2>1. StorageIds \subseteq Answered /\ StorageIds \intersect Syncing = {}
    BY <1>1, <1>4 DEF Refuses
  <2>2. \A n \in cunfit \intersect StorageIds : n \in Answered /\ n \in Syncing
    BY <1>1, <2>1 DEF PageInv, PageSeen, Answered, Syncing
  <2> QED
    BY <2>1, <2>2
<1>5. cstatus.st # "stale" => cunfit \subseteq StorageIds
  <2>1. cstatus.st # Asked
    BY <1>1 DEF Check!AllReturned, Check!Asked, Asked
  <2> QED
    BY <1>1, <2>1 DEF PageInv, PageTypes, PageSeen, StorageIds
<1>6. PageAsksOnlyWhenFit'
  BY <1>1, <1>4, <1>5 DEF PageAsksOnlyWhenFit, StorageIds
<1> QED
  BY <1>1, <1>2, <1>3, <1>6 DEF PageInv

LEMMA SendStep ==
  ASSUME PageInv, Send
  PROVE  PageInv' /\ Request
<1>1. /\ cpc = "forward" /\ Arrive(cbody) /\ cpc' = "idle" /\ cbody' = "none"
      /\ cstatus' = [st |-> Asked, roles |-> [n \in Nodes |-> "none"]]
      /\ cworkers' = [n \in Nodes |-> [st |-> Asked, busy |-> {}]]
      /\ cunfit' = {}
  BY DEF Send
<1>2. cbody \in Bodies /\ UNCHANGED <<role, up, busy>>
  BY <1>1 DEF PageInv, PageSeen, Offered, Bodies, Arrive, cvars
<1>3. PageTypes'
  BY <1>1, <1>2, GuardAssumption DEF PageInv, PageTypes
<1>4. PageSeen' /\ PageAsksOnlyWhenFit'
  BY <1>1 DEF PageSeen, PageAsksOnlyWhenFit
<1> QED
  BY <1>1, <1>2, <1>3, <1>4 DEF PageInv, Request

LEMMA PageRests ==
  ASSUME PageInv, TypeOK', cpc = "idle" \/ UNCHANGED vars, UNCHANGED pageVars
  PROVE  PageInv'
<1>1. UNCHANGED <<cpc, cbody, cstatus, cworkers, cunfit>>
  BY DEF pageVars
<1>2. PageTypes'
  BY <1>1 DEF TypeOK, PageInv, PageTypes
<1>3. PageSeen'
  <2>1. CASE cpc = "idle"
    BY <1>1, <2>1 DEF PageInv, PageSeen
  <2>2. CASE UNCHANGED vars
    <3>1. UNCHANGED <<role, up, busy, pc>>
      BY <2>2 DEF vars, cvars
    <3> QED
      BY <1>1, <3>1 DEF PageInv, PageSeen
  <2> QED
    BY <2>1, <2>2
<1>4. PageAsksOnlyWhenFit'
  BY <1>1 DEF PageInv, PageAsksOnlyWhenFit, StorageIds
<1> QED
  BY <1>2, <1>3, <1>4 DEF PageInv

BothInv == TypeOK /\ GuardInv /\ PageInv /\ NoLaunchDuringOutage /\ OnlyStorageBlocks

LEMMA PageStep ==
  ASSUME BothInv, [PageNext]_pvars
  PROVE  BothInv'
<1>0. TypeOK /\ GuardInv /\ PageInv /\ NoLaunchDuringOutage /\ OnlyStorageBlocks
  BY DEF BothInv
\* The guard's own steps, with or without the page.
<1>1. ASSUME [Next]_vars PROVE TypeOK' /\ GuardInv' /\ NoLaunchDuringOutage' /\ OnlyStorageBlocks'
  <2>1. GuardInv'
    <3>1. ASSUME UNCHANGED vars PROVE GuardInv'
      BY <1>0, <3>1 DEF vars, cvars, avars, hvars, GuardInv, History, Unasked, Seen, Grounds
    <3> QED
      BY <1>0, <1>1, <3>1, ClusterStep, RequestStep DEF Next
  <2> QED
    BY <1>0, <1>1, <2>1, TypesStep, LaunchStep, RefusalStep
\* The page's own.
<1>2. ASSUME pc = "idle", UNCHANGED guardVars, PageInv' PROVE BothInv'
  <2>1. role' \in [Nodes -> Roles] /\ up' \in [Nodes -> BOOLEAN] /\ busy' \in [Nodes -> SUBSET Kinds]
    BY <1>2 DEF PageInv, PageTypes
  <2>2. TypeOK' /\ GuardInv'
    BY <1>0, <1>2, <2>1, GuardRests
  <2>3. NoLaunchDuringOutage' /\ OnlyStorageBlocks'
    BY <1>2 DEF NoLaunchDuringOutage, OnlyStorageBlocks, guardVars
  <2> QED
    BY <1>2, <2>2, <2>3 DEF BothInv
<1>3. ASSUME NEW b \in Offered, Confirm(b) PROVE BothInv'
  <2>1. pc = "idle" /\ UNCHANGED guardVars
    BY <1>3 DEF Confirm
  <2> QED
    BY <1>0, <1>2, <1>3, <2>1, ConfirmStep
<1>4. ASSUME Refetched \/ Check!Cluster, UNCHANGED guardVars PROVE BothInv'
  BY <1>0, <1>2, <1>4, RefetchedStep, PageClusterStep
<1>5. CASE Recheck
  BY <1>0, <1>2, <1>5, RecheckStep
<1>6. CASE Send
  BY <1>0, <1>1, <1>6, SendStep DEF BothInv, Next
<1>7. CASE (cpc = "idle" /\ Next /\ UNCHANGED pageVars) \/ UNCHANGED pvars
  <2>1. [Next]_vars /\ (cpc = "idle" \/ UNCHANGED vars) /\ UNCHANGED pageVars
    BY <1>7 DEF pvars
  <2> QED
    BY <1>0, <1>1, <2>1, PageRests DEF BothInv
<1> QED
  BY <1>3, <1>4, <1>5, <1>6, <1>7 DEF PageNext

LEMMA PageInvariance == PageSpec => []BothInv
<1>1. PageInit => BothInv
  <2> SUFFICES ASSUME PageInit PROVE BothInv
    OBVIOUS
  <2>1. Init /\ Check!Init
    BY DEF PageInit
  <2>2. TypeOK
    BY <2>1, GuardAssumption DEF Init, TypeOK, Phases
  <2>3. GuardInv /\ NoLaunchDuringOutage /\ OnlyStorageBlocks
    BY <2>1 DEF Init, GuardInv, History, Unasked, Seen, Grounds, Asked, NoLaunchDuringOutage,
                OnlyStorageBlocks
  <2>4. /\ cpc = "idle" /\ cbody = "none" /\ cunfit = {}
        /\ cstatus = [st |-> Asked, roles |-> [n \in Nodes |-> "none"]]
        /\ cworkers = [n \in Nodes |-> [st |-> Asked, busy |-> {}]]
    BY <2>1 DEF Check!Init, Check!Asked, Asked
  <2>5. PageTypes
    BY <2>2, <2>4, GuardAssumption DEF TypeOK, PageTypes
  <2>6. PageSeen /\ PageAsksOnlyWhenFit
    BY <2>4 DEF PageSeen, PageAsksOnlyWhenFit
  <2> QED
    BY <2>2, <2>3, <2>5, <2>6 DEF BothInv, PageInv
<1> QED
  BY <1>1, PageStep, PTL DEF PageSpec

\* The page asks again before it sends a destructive repair, and sends it only
\* when none of the nodes it takes for storage was out of step all the while.
THEOREM PageChecksFirst == PageSpec => []PageAsksOnlyWhenFit
<1>1. BothInv => PageAsksOnlyWhenFit
  BY DEF BothInv, PageInv
<1> QED
  BY <1>1, PageInvariance, PTL

\* Behind the page, too, the guard never lets a repair through an outage, and
\* refuses only for a storage node: the page's earlier answers do not weaken it.
THEOREM GuardBehindPage == PageSpec => [](NoLaunchDuringOutage /\ OnlyStorageBlocks)
<1>1. BothInv => NoLaunchDuringOutage /\ OnlyStorageBlocks
  BY DEF BothInv
<1> QED
  BY <1>1, PageInvariance, PTL

-----------------------------------------------------------------------------
(* Layouts of the layout page *)

Fields == {"version", "roles", "zr", "staged", "stagedZr", "foreign"}

LEMMA LayoutFields ==
  ASSUME NEW l, IsLayout(l)
  PROVE  l = [x \in Fields |-> l[x]] /\ DOMAIN l = Fields
<1>1. l = [version |-> l.version, roles |-> l.roles, zr |-> l.zr, staged |-> l.staged,
           stagedZr |-> l.stagedZr, foreign |-> l.foreign]
  BY DEF IsLayout
<1> QED
  BY <1>1 DEF Fields

LEMMA Rebuilt ==
  ASSUME NEW k, k = [x \in Fields |-> k[x]],
         k.version \in Nat, k.foreign \in Nat, k.roles \in [Members -> NodeRoles], k.zr \in Redundancies,
         Assigns(k.staged), \A n \in DOMAIN k.staged : k.staged[n] # k.roles[n],
         k.stagedZr \in SUBSET Redundancies, k.zr \notin k.stagedZr
  PROVE  IsLayout(k)
<1> DEFINE r == [version |-> k.version, roles |-> k.roles, zr |-> k.zr, staged |-> k.staged,
                 stagedZr |-> k.stagedZr, foreign |-> k.foreign]
<1>1. r = [x \in Fields |-> r[x]]
  BY DEF Fields
<1>2. /\ r.version = k.version /\ r.roles = k.roles /\ r.zr = k.zr /\ r.foreign = k.foreign
      /\ r.staged = k.staged /\ r.stagedZr = k.stagedZr
  OBVIOUS
<1>3. k = r
  <2> HIDE DEF r
  <2> QED
    BY <1>1, <1>2 DEF Fields
<1> QED
  BY <1>3 DEF IsLayout

\* A layout whose staged changes are others.
LEMMA Restaged ==
  ASSUME NEW l, IsLayout(l), NEW k, k = [x \in Fields |-> k[x]],
         k.version = l.version, k.roles = l.roles, k.zr = l.zr, k.foreign = l.foreign,
         Assigns(k.staged), \A n \in DOMAIN k.staged : k.staged[n] # l.roles[n],
         k.stagedZr \in SUBSET Redundancies, l.zr \notin k.stagedZr
  PROVE  IsLayout(k)
<1>1. l.version \in Nat /\ l.foreign \in Nat /\ l.roles \in [Members -> NodeRoles] /\ l.zr \in Redundancies
  BY DEF IsLayout
<1> QED
  BY <1>1, Rebuilt

\* Staging moves nothing but what is staged.
LEMMA StageMoves ==
  ASSUME NEW l, IsLayout(l), NEW roles, Assigns(roles), NEW zr \in SUBSET Redundancies,
         NEW s, s = Stage(l, roles, zr)
  PROVE  IsLayout(s) /\ s.version = l.version /\ s.roles = l.roles /\ s.foreign = l.foreign
<1> DEFINE all == [n \in DOMAIN l.staged \union DOMAIN roles |->
                     IF n \in DOMAIN roles THEN roles[n] ELSE l.staged[n]]
           X == [n \in {m \in DOMAIN all : all[m] # l.roles[m]} |-> all[n]]
           Y == IF zr = {} THEN l.stagedZr ELSE zr \ {l.zr}
           k == [l EXCEPT !.staged = X, !.stagedZr = Y]
<1>1. s = k
  BY DEF Stage
<1>2. Assigns(X) /\ \A n \in DOMAIN X : X[n] # l.roles[n]
  <2>1. \A n \in DOMAIN all : all[n] \in NodeRoles /\ n \in Members
    BY DEF IsLayout, Assigns
  <2> HIDE DEF all
  <2> QED
    BY <2>1 DEF Assigns
<1>3. Y \in SUBSET Redundancies /\ l.zr \notin Y
  BY DEF IsLayout
<1> HIDE DEF X, Y
<1>4. /\ k.version = l.version /\ k.roles = l.roles /\ k.zr = l.zr /\ k.foreign = l.foreign
      /\ k.staged = X /\ k.stagedZr = Y /\ k = [x \in Fields |-> k[x]]
  <2>1. DOMAIN l = Fields
    BY LayoutFields
  <2> QED
    BY <2>1 DEF Fields
<1> HIDE DEF k
<1>5. IsLayout(k)
  BY <1>2, <1>3, <1>4, Restaged
<1> QED
  BY <1>1, <1>4, <1>5

LEMMA StagedThen ==
  ASSUME NEW l, IsLayout(l), NEW roles, NEW zr
  PROVE  Stage(l, roles, zr).staged =
           [n \in {m \in DOMAIN l.staged \union DOMAIN roles :
                     (IF m \in DOMAIN roles THEN roles[m] ELSE l.staged[m]) # l.roles[m]} |->
              IF n \in DOMAIN roles THEN roles[n] ELSE l.staged[n]]
<1> DEFINE all == [n \in DOMAIN l.staged \union DOMAIN roles |->
                     IF n \in DOMAIN roles THEN roles[n] ELSE l.staged[n]]
           X == [n \in {m \in DOMAIN all : all[m] # l.roles[m]} |-> all[n]]
           Y == IF zr = {} THEN l.stagedZr ELSE zr \ {l.zr}
<1>1. X = [n \in {m \in DOMAIN l.staged \union DOMAIN roles :
                    (IF m \in DOMAIN roles THEN roles[m] ELSE l.staged[m]) # l.roles[m]} |->
             IF n \in DOMAIN roles THEN roles[n] ELSE l.staged[n]]
  OBVIOUS
<1>2. Stage(l, roles, zr) = [l EXCEPT !.staged = X, !.stagedZr = Y]
  BY DEF Stage
<1> HIDE DEF X, Y
<1>3. [l EXCEPT !.staged = X, !.stagedZr = Y].staged = X
  BY LayoutFields DEF Fields
<1> QED
  BY <1>1, <1>2, <1>3

LEMMA UnstagedFacts ==
  ASSUME NEW l, IsLayout(l)
  PROVE  /\ IsLayout(Unstaged(l)) /\ Unstaged(l).version = l.version
         /\ Unstaged(l).roles = l.roles /\ Unstaged(l).foreign = l.foreign
<1> DEFINE X == [n \in {} |-> NoRole]
<1>1. Assigns(X) /\ \A n \in DOMAIN X : X[n] # l.roles[n]
  BY DEF Assigns
<1>2. Unstaged(l) = [l EXCEPT !.staged = X, !.stagedZr = {}]
  BY DEF Unstaged
<1> HIDE DEF X
<1> DEFINE k == [l EXCEPT !.staged = X, !.stagedZr = {}]
<1>3. /\ k.version = l.version /\ k.roles = l.roles /\ k.zr = l.zr /\ k.foreign = l.foreign
      /\ k.staged = X /\ k.stagedZr = {} /\ k = [x \in Fields |-> k[x]]
  <2>1. DOMAIN l = Fields
    BY LayoutFields
  <2> QED
    BY <2>1 DEF Fields
<1>4. IsLayout(k)
  <2> HIDE DEF k
  <2> QED
    BY <1>1, <1>3, Restaged
<1> QED
  BY <1>2, <1>3, <1>4

LEMMA NextOf ==
  ASSUME NEW l, IsLayout(l)
  PROVE  NextRoles(l) \in [Members -> NodeRoles] /\ NextZr(l) \in Redundancies
<1>1. NextRoles(l) \in [Members -> NodeRoles]
  BY DEF NextRoles, IsLayout, Assigns
<1>2. NextZr(l) \in Redundancies
  BY DEF NextZr, IsLayout
<1> QED
  BY <1>1, <1>2

\* Applying: the staged roles become those in effect, under the next version.
LEMMA AppliedFacts ==
  ASSUME NEW l, IsLayout(l)
  PROVE  /\ IsLayout(Applied(l)) /\ Applied(l).version = l.version + 1 /\ Applied(l).foreign = l.foreign
         /\ Applied(l).roles = NextRoles(l) /\ Applied(l).zr = NextZr(l)
<1> DEFINE X == [n \in {} |-> NoRole]
           k == [l EXCEPT !.version = @ + 1, !.roles = NextRoles(l), !.zr = NextZr(l)]
           a == [k EXCEPT !.staged = X, !.stagedZr = {}]
<1>1. DOMAIN l = Fields /\ l.version \in Nat /\ l.foreign \in Nat
  BY LayoutFields DEF IsLayout
<1>2. /\ k.version = l.version + 1 /\ k.roles = NextRoles(l) /\ k.zr = NextZr(l)
      /\ k.foreign = l.foreign /\ DOMAIN k = Fields
  BY <1>1 DEF Fields
<1>3. Applied(l) = a
  BY DEF Applied, Unstaged
<1> HIDE DEF k
<1>4. /\ a.version = k.version /\ a.roles = k.roles /\ a.zr = k.zr /\ a.foreign = k.foreign
      /\ a.staged = X /\ a.stagedZr = {} /\ a = [x \in Fields |-> a[x]]
  BY <1>2 DEF Fields
<1>5. Assigns(X) /\ \A n \in DOMAIN X : X[n] # a.roles[n]
  BY DEF Assigns
<1> HIDE DEF a, X
<1>6. IsLayout(a)
  BY <1>1, <1>2, <1>4, <1>5, NextOf, Rebuilt
<1> QED
  BY <1>2, <1>3, <1>4, <1>6

LEMMA ForeignFacts ==
  ASSUME NEW l, IsLayout(l)
  PROVE  /\ IsLayout(Foreign(l)) /\ Foreign(l).version = l.version /\ Foreign(l).foreign = l.foreign + 1
         /\ Foreign(l).roles = l.roles
<1> DEFINE k == [l EXCEPT !.foreign = @ + 1]
<1>1. DOMAIN l = Fields
  BY LayoutFields
<1>2. /\ k.version = l.version /\ k.roles = l.roles /\ k.zr = l.zr /\ k.foreign = l.foreign + 1
      /\ k.staged = l.staged /\ k.stagedZr = l.stagedZr /\ k = [x \in Fields |-> k[x]]
  BY <1>1 DEF Fields
<1>3. Foreign(l) = k
  BY DEF Foreign
<1>4. /\ l.version \in Nat /\ l.foreign \in Nat /\ l.roles \in [Members -> NodeRoles] /\ l.zr \in Redundancies
      /\ Assigns(l.staged) /\ l.stagedZr \in SUBSET Redundancies /\ l.zr \notin l.stagedZr
      /\ \A n \in DOMAIN l.staged : l.staged[n] # l.roles[n]
  BY DEF IsLayout
<1> HIDE DEF k
<1>5. IsLayout(k)
  BY <1>2, <1>4, Rebuilt
<1> QED
  BY <1>2, <1>3, <1>5

-----------------------------------------------------------------------------
(* The rows of the form *)

\* A whole number of GiB survives the field, whatever a GiB is.
LEMMA RoundTrip ==
  ASSUME NEW k \in Nat \ {0}
  PROVE  k * GiB \in Nat \ {0} /\ ToGiB(k * GiB) = k
<1>1. GiB \in Nat \ {0}
  BY LayoutAssumption
<1>2. k * GiB \in Nat \ {0}
  BY <1>1
<1> DEFINE c == k * GiB
<1>3. 2 * c + GiB >= (2 * GiB) * k /\ 2 * c + GiB < (2 * GiB) * (k + 1)
  BY <1>1
<1>4. (2 * c + GiB) \div (2 * GiB) = k
  <2> DEFINE d == 2 * GiB
             e == 2 * c + GiB
  <2>1. d \in Nat \ {0} /\ e \in Nat /\ e >= d * k /\ e < d * (k + 1)
    BY <1>1, <1>2, <1>3
  <2> HIDE DEF d, e
  <2>2. e \div d = k
    BY <2>1
  <2> QED
    BY <2>2 DEF d, e
<1>5. c # Gateway
  BY <1>2 DEF Gateway
<1> HIDE DEF c
<1>6. ToGiB(c) = k
  BY <1>4, <1>5 DEF ToGiB
<1> QED
  BY <1>2, <1>6 DEF c

LEMMA GiBFacts ==
  ASSUME NEW cap \in Nat
  PROVE  ToGiB(cap) \in Int /\ (ToGiB(cap) = Blank <=> cap = Gateway)
<1>1. GiB \in Nat \ {0}
  BY LayoutAssumption
<1> DEFINE d == 2 * GiB
           e == 2 * cap + GiB
<1>2. d \in Nat \ {0} /\ e \in Nat
  BY <1>1
<1>3. e \div d \in Nat
  <2> HIDE DEF d, e
  <2> QED
    BY <1>2
<1> QED
  BY <1>3 DEF ToGiB, Blank, Gateway

LEMMA RowFacts ==
  ASSUME NEW l, IsLayout(l), NEW n \in Members
  PROVE  /\ Source(l, n) \in NodeRoles /\ RowOf(l, n) \in Rows
         /\ RowOf(l, n).zone = Source(l, n).zone /\ RowOf(l, n).gib = ToGiB(Source(l, n).cap)
         /\ RowOf(l, n).tags = TagText[Source(l, n).tags]
         /\ RowOf(l, n).remove = WasRemoved(l, n)
<1> DEFINE z == Source(l, n).zone
           t == TagText[Source(l, n).tags]
           g == ToGiB(Source(l, n).cap)
           w == WasRemoved(l, n)
<1>1. Source(l, n) \in NodeRoles
  BY NextOf DEF Source, IsLayout
<1>2. z \in Zones /\ Source(l, n).tags \in TagLists /\ Source(l, n).cap \in Nat
  BY <1>1 DEF NodeRoles
<1>3. t \in TagTexts
  BY <1>2, LayoutAssumption
<1>4. g \in Int /\ w \in BOOLEAN
  BY <1>2, GiBFacts DEF WasRemoved
<1>5. RowOf(l, n) = [zone |-> z, tags |-> t, gib |-> g, remove |-> w]
  BY DEF RowOf
<1> HIDE DEF z, t, g, w
<1>6. RowOf(l, n) \in Rows
  BY <1>2, <1>3, <1>4, <1>5 DEF Rows
<1>7. RowOf(l, n).zone = z /\ RowOf(l, n).tags = t /\ RowOf(l, n).gib = g /\ RowOf(l, n).remove = w
  BY <1>5
<1> QED
  BY <1>1, <1>6, <1>7 DEF z, t, g, w

\* What a row that is sent asks for.
LEMMA ChangeFacts ==
  ASSUME NEW l, IsLayout(l), NEW n \in Members, NEW row \in Rows,
         ~Nothing(l, n, row), ~Refused(l, n, row)
  PROVE  /\ ChangeOf(l, n, row) \in NodeRoles
         /\ ~row.remove => /\ ChangeOf(l, n, row) # NoRole
                           /\ ChangeOf(l, n, row).zone = Trim[row.zone]
                           /\ ChangeOf(l, n, row).tags = ParseTags[row.tags]
                           /\ row.gib = RowOf(l, n).gib => ChangeOf(l, n, row).cap = Source(l, n).cap
                           /\ Untouched(l, n, row) => WasRemoved(l, n)
         /\ row.remove => ~WasRemoved(l, n)
<1> DEFINE src == Source(l, n)
           cap == CapacityOf(l, n, row)
<1>1. /\ src \in NodeRoles /\ RowOf(l, n).zone = src.zone /\ RowOf(l, n).gib = ToGiB(src.cap)
      /\ ToGiB(src.cap) \in Int /\ (ToGiB(src.cap) = Blank <=> src.cap = Gateway)
      /\ src.cap \in Nat
  BY RowFacts, GiBFacts DEF NodeRoles
<1>2. /\ row.zone \in Zones /\ row.tags \in TagTexts /\ row.gib \in Int /\ row.remove \in BOOLEAN
      /\ Trim[row.zone] \in Zones /\ ParseTags[row.tags] \in TagLists
  BY LayoutAssumption DEF Rows
<1>3. row.remove => ~WasRemoved(l, n)
  BY DEF Nothing
<1>4. CASE row.remove
  <2>1. ChangeOf(l, n, row) = NoRole
    BY <1>4 DEF ChangeOf
  <2>2. NoRole \in NodeRoles
    BY LayoutAssumption DEF NoRole, NodeRoles, Gateway
  <2> QED
    BY <1>3, <1>4, <2>1, <2>2
<1>5. CASE ~row.remove
  <2>1. ~NamesNoZone(row) /\ (Untouched(l, n, row) => WasRemoved(l, n))
    BY <1>5 DEF Nothing, Refused
  <2>2. row.gib = Blank \/ row.gib > 0 \/ KeepsCapacity(l, n, row)
    <3>1. Untouched(l, n, row) => row.gib = RowOf(l, n).gib
      BY DEF Untouched
    <3> QED
      BY <1>1, <1>2, <1>5, <2>1, <3>1 DEF Refused, KeepsCapacity, Blank, Gateway
  <2>3. cap \in Nat /\ (row.gib = ToGiB(src.cap) <=> cap = src.cap)
    <3>1. CASE KeepsCapacity(l, n, row)
      BY <1>1, <3>1 DEF KeepsCapacity, CapacityOf
    <3>2. CASE ~KeepsCapacity(l, n, row) /\ row.gib = Blank
      <4>1. cap = Gateway
        BY <3>2 DEF CapacityOf
      <4> QED
        BY <1>1, <3>2, <4>1 DEF Gateway
    <3>3. CASE ~KeepsCapacity(l, n, row) /\ row.gib # Blank
      <4>1. row.gib \in Nat \ {0} /\ cap = row.gib * GiB
        BY <1>2, <2>2, <3>3 DEF CapacityOf
      <4>2. cap \in Nat \ {0} /\ ToGiB(cap) = row.gib
        BY <4>1, RoundTrip
      <4>3. row.gib # ToGiB(src.cap)
        BY <1>1, <3>3 DEF KeepsCapacity
      <4> QED
        BY <4>2, <4>3
    <3> QED
      BY <3>1, <3>2, <3>3
  <2>4. ChangeOf(l, n, row) = [zone |-> Trim[row.zone], tags |-> ParseTags[row.tags], cap |-> cap]
    BY <1>5 DEF ChangeOf
  <2>5. Trim[row.zone] # NoZone
    BY <2>1 DEF NamesNoZone
  <2> HIDE DEF src, cap
  <2>6. /\ ChangeOf(l, n, row).zone = Trim[row.zone] /\ ChangeOf(l, n, row).tags = ParseTags[row.tags]
        /\ ChangeOf(l, n, row).cap = cap
    BY <2>4
  <2>7. ChangeOf(l, n, row) \in NodeRoles /\ ChangeOf(l, n, row) # NoRole
    BY <1>2, <2>3, <2>4, <2>5, <2>6 DEF NodeRoles, NoRole
  <2> QED
    BY <1>1, <1>3, <1>5, <2>1, <2>3, <2>6, <2>7 DEF src
<1> QED
  BY <1>4, <1>5

-----------------------------------------------------------------------------
(* The steps *)

LEMMA NoFormFacts ==
  /\ NoForm \in [base : {NoForm.base}, rows : [Members -> Rows], zr : Redundancies \union {Invalid}]
  /\ NoForm.base = {}
<1>1. NoRow \in Rows
  BY LayoutAssumption DEF NoRow, Rows, Blank
<1> QED
  BY <1>1, LayoutAssumption DEF NoForm

LEMMA LayoutBegins == LayoutInit => LayoutInv
<1> SUFFICES ASSUME LayoutInit PROVE LayoutInv
  OBVIOUS
<1>1. /\ garage = [version |-> 1, roles |-> InitRoles, zr |-> InitRedundancy,
                   staged |-> InitStaged, stagedZr |-> {}, foreign |-> 0]
      /\ data = garage /\ fetch = {} /\ stale = FALSE /\ form = NoForm /\ edited = {}
      /\ calls = {} /\ watched = [k \in CallKinds |-> 0] /\ sent = 0
      /\ preview = {} /\ dialog = Closed /\ others = 0
  BY DEF LayoutInit
<1>2. OtherRoles \subseteq NodeRoles /\ InitRoles \in [Members -> NodeRoles]
  BY LayoutAssumption
<1>4. Assigns(InitStaged) /\ \A n \in DOMAIN InitStaged : InitStaged[n] # InitRoles[n]
  BY <1>2, LayoutAssumption DEF Assigns
<1>5. IsLayout(garage)
  BY <1>1, <1>2, <1>4, LayoutAssumption DEF IsLayout
<1>6. LayoutTypes
  <2>1. form.base = {}
    BY <1>1 DEF NoForm
  <2>2. IsLayout(data) /\ \A l \in fetch \union preview \union form.base : IsLayout(l)
    BY <1>1, <1>5, <2>1
  <2>3. dialog.kind = "none" /\ dialog.node = NoNode
    BY <1>1 DEF Closed
  <2>4. watched \in [CallKinds -> 0..MaxCalls] /\ sent \in 0..MaxCalls /\ others \in 0..MaxOthers
    BY <1>1, LayoutAssumption
  <2> QED
    BY <1>1, <1>5, <2>2, <2>3, <2>4 DEF LayoutTypes
<1>7. FormTypes
  BY <1>1, NoFormFacts DEF FormTypes
<1>8. FormHonest /\ ~Editing
  BY <1>1 DEF FormHonest, Editing, NoForm
<1>9. CallTypes /\ CallsPast
  BY <1>1 DEF CallTypes, CallsPast
<1>10. ShownPast
  BY <1>1, <1>5 DEF ShownPast, Past, Present, IsLayout
<1> QED
  BY <1>6, <1>7, <1>8, <1>9, <1>10 DEF LayoutInv

\* What a step leaves alone.
LEMMA FormKept ==
  ASSUME LayoutInv, UNCHANGED <<form, edited>>
  PROVE  FormTypes' /\ FormHonest'
<1>1. FormTypes /\ FormHonest
  BY DEF LayoutInv
<1>2. FormTypes'
  BY <1>1 DEF FormTypes
<1>3. FormHonest'
  BY <1>1 DEF FormHonest
<1> QED
  BY <1>2, <1>3

LEMMA CallsKept ==
  ASSUME LayoutInv, UNCHANGED <<garage, calls, sent, watched, dialog>>
  PROVE  CallTypes' /\ CallsPast'
<1>1. CallTypes /\ CallsPast
  BY DEF LayoutInv
<1>2. CallTypes'
  BY <1>1 DEF CallTypes
<1>3. CallsPast'
  BY <1>1 DEF CallsPast, Past, Present, Undisturbed
<1> QED
  BY <1>2, <1>3

LEMMA ShownKept ==
  ASSUME LayoutInv, UNCHANGED <<garage, calls, data, fetch, preview, stale>>
  PROVE  ShownPast'
<1>1. ShownPast
  BY DEF LayoutInv
<1> QED
  BY <1>1 DEF ShownPast, Past, Present

LEMMA FetchStep ==
  ASSUME LayoutInv, GarageReads \/ FetchLands \/ FetchFails
  PROVE  LayoutInv'
<1>1. UNCHANGED <<garage, form, edited, calls, watched, sent, preview, dialog, others>>
  BY DEF GarageReads, FetchLands, FetchFails
<1>2. \/ fetch' = {garage} /\ UNCHANGED <<data, stale>>
      \/ data' \in fetch /\ fetch' = {} /\ stale' = FALSE
      \/ fetch' = {} /\ UNCHANGED <<data, stale>>
  BY DEF GarageReads, FetchLands, FetchFails
<1>3. LayoutTypes'
  <2>1. IsLayout(data') /\ stale' \in BOOLEAN
    BY <1>2 DEF LayoutInv, LayoutTypes
  <2>2. \A l \in fetch' : IsLayout(l)
    BY <1>2 DEF LayoutInv, LayoutTypes
  <2> QED
    BY <1>1, <2>1, <2>2 DEF LayoutInv, LayoutTypes
<1>4. FormTypes' /\ CallTypes' /\ FormHonest' /\ (Editing => Free)' /\ CallsPast'
  <2>1. (Editing => Free)'
    BY <1>1 DEF LayoutInv, Editing, Free
  <2> QED
    BY <1>1, <2>1, FormKept, CallsKept
<1>5. ShownPast'
  <2>1. \A l : Past(l)' = Past(l) /\ Present(l)' = Present(l)
    BY <1>1 DEF Past, Present
  <2>2. Past(garage) /\ Present(garage)
    BY DEF Past, Present, LayoutInv, LayoutTypes, IsLayout
  <2>3. ShownPast
    BY DEF LayoutInv
  <2> QED
    BY <1>1, <1>2, <2>1, <2>2, <2>3 DEF ShownPast, Past, Present
<1> QED
  BY <1>3, <1>4, <1>5 DEF LayoutInv

\* What the operator can enter into a field of a row.
Enterable(field, value) ==
  /\ field = "zone" => value \in TypedZones
  /\ field = "tags" => value \in TypedTags
  /\ field = "gib" => value \in Typed
  /\ field = "remove" => value \in BOOLEAN

\* One field of a row changes.
LEMMA FieldChange ==
  ASSUME NEW r \in Rows, NEW field \in RowFields, NEW value, Enterable(field, value)
  PROVE  /\ [r EXCEPT ![field] = value] \in Rows
         /\ \A other \in RowFields : other # field => [r EXCEPT ![field] = value][other] = r[other]
<1>1. TypedZones \subseteq Zones /\ Typed \subseteq Int /\ TypedTags \subseteq TagTexts
  BY LayoutAssumption
<1>2. CASE field = "zone"
  BY <1>1, <1>2 DEF Rows, RowFields, Enterable
<1>3. CASE field = "gib"
  BY <1>1, <1>3 DEF Rows, RowFields, Enterable
<1>4. CASE field = "remove"
  BY <1>1, <1>4 DEF Rows, RowFields, Enterable
<1>5. CASE field = "tags"
  BY <1>1, <1>5 DEF Rows, RowFields, Enterable
<1> QED
  BY <1>2, <1>3, <1>4, <1>5 DEF RowFields

LEMMA RowEdited ==
  ASSUME FormTypes, FormHonest, NEW n \in Members, NEW field \in RowFields, NEW value,
         Enterable(field, value), EditRow(n, field, value)
  PROVE  FormTypes' /\ FormHonest' /\ form'.base = form.base
<1>1. form' = [form EXCEPT !.rows[n][field] = value] /\ edited' = edited \union {<<n, field>>}
  BY DEF EditRow
<1>2. form \in [base : {form.base}, rows : [Members -> Rows], zr : Redundancies \union {Invalid}]
  BY DEF FormTypes
<1> DEFINE row == [form.rows[n] EXCEPT ![field] = value]
           rows == [form.rows EXCEPT ![n] = row]
<1>3. row \in Rows /\ \A other \in RowFields : other # field => row[other] = form.rows[n][other]
  BY <1>2, FieldChange
<1>4. form' = [form EXCEPT !.rows = rows]
  BY <1>1, <1>2
<1>5. rows \in [Members -> Rows] /\ rows[n] = row /\ \A m \in Members : m # n => rows[m] = form.rows[m]
  BY <1>2, <1>3
<1> HIDE DEF row, rows
<1>6. /\ form' \in [base : {form.base}, rows : [Members -> Rows], zr : Redundancies \union {Invalid}]
      /\ form'.base = form.base /\ form'.rows = rows /\ form'.zr = form.zr
  BY <1>2, <1>4, <1>5
<1>7. FormTypes'
  BY <1>6 DEF FormTypes
<1>8. ASSUME NEW l \in form.base, NEW m \in Members, NEW other \in RowFields
      PROVE  <<m, other>> \in edited' \/ rows[m][other] = RowOf(l, m)[other]
  <2>1. <<m, other>> \in edited \/ form.rows[m][other] = RowOf(l, m)[other]
    BY DEF FormHonest
  <2>2. CASE m = n /\ other = field
    BY <1>1, <2>2
  <2>3. CASE m # n \/ other # field
    <3>1. rows[m][other] = form.rows[m][other]
      BY <1>3, <1>5, <2>3
    <3> QED
      BY <1>1, <2>1, <3>1
  <2> QED
    BY <2>2, <2>3
<1>9. \A l \in form.base : <<NoNode, "zr">> \in edited' \/ form.zr = NextZr(l)
  BY <1>1 DEF FormHonest
<1> QED
  BY <1>6, <1>7, <1>8, <1>9 DEF FormHonest

LEMMA FormStep ==
  ASSUME LayoutInv, StartEditing \/ UpdateDraft \/ CancelEditing \/ \E z \in Redundancies \union {Invalid} : EditRedundancy(z)
  PROVE  LayoutInv'
<1>1. UNCHANGED <<garage, data, fetch, stale, calls, watched, sent, preview, dialog, others>>
  BY DEF StartEditing, UpdateDraft, EditRow, CancelEditing, EditRedundancy
<1>2. FormTypes /\ FormHonest /\ IsLayout(data) /\ (Editing => Free)
  BY DEF LayoutInv, LayoutTypes
<1>3. FormTypes' /\ FormHonest' /\ (Editing' => Free)
  <2>1. CASE StartEditing
    <3>1. form' = [base |-> {data}, rows |-> [n \in Members |-> RowOf(data, n)], zr |-> NextZr(data)] /\ Free
      BY <2>1 DEF StartEditing
    <3>2. [n \in Members |-> RowOf(data, n)] \in [Members -> Rows] /\ NextZr(data) \in Redundancies
      BY <1>2, RowFacts, NextOf
    <3>3. /\ form' \in [base : {{data}}, rows : [Members -> Rows], zr : Redundancies \union {Invalid}]
          /\ form'.base = {data} /\ form'.zr = NextZr(data)
          /\ \A n \in Members : form'.rows[n] = RowOf(data, n)
      BY <3>1, <3>2
    <3>4. FormTypes'
      BY <1>1, <1>2, <3>3 DEF FormTypes
    <3>5. FormHonest'
      BY <3>3 DEF FormHonest
    <3> QED
      BY <3>1, <3>4, <3>5
  <2>2. CASE UpdateDraft
    <3>1. PICK n \in Members, field \in RowFields : \E value :
            Enterable(field, value) /\ EditRow(n, field, value)
      BY <2>2 DEF UpdateDraft, RowFields, Enterable
    <3>2. FormTypes' /\ FormHonest' /\ form'.base = form.base
      BY <1>2, <3>1, RowEdited
    <3> QED
      BY <1>2, <3>2 DEF Editing
  <2>3. CASE CancelEditing
    <3>1. form' = NoForm
      BY <2>3 DEF CancelEditing
    <3> QED
      BY <3>1, NoFormFacts DEF FormTypes, FormHonest, Editing
  <2>4. CASE \E z \in Redundancies \union {Invalid} : EditRedundancy(z)
    <3>1. PICK z \in Redundancies \union {Invalid} :
            form' = [form EXCEPT !.zr = z] /\ edited' = edited \union {<<NoNode, "zr">>}
      BY <2>4 DEF EditRedundancy
    <3>2. /\ form' \in [base : {form.base}, rows : [Members -> Rows], zr : Redundancies \union {Invalid}]
          /\ form'.base = form.base /\ form'.rows = form.rows
      BY <1>2, <3>1 DEF FormTypes
    <3> QED
      BY <1>2, <3>1, <3>2 DEF FormTypes, FormHonest, Editing
  <2> QED
    BY <2>1, <2>2, <2>3, <2>4
<1>4. LayoutTypes'
  <2>1. \A l \in form'.base : IsLayout(l)
    BY <1>3 DEF FormTypes
  <2> QED
    BY <1>1, <2>1 DEF LayoutInv, LayoutTypes
<1>5. CallTypes' /\ CallsPast' /\ ShownPast'
  BY <1>1, CallsKept, ShownKept
<1> QED
  BY <1>1, <1>3, <1>4, <1>5 DEF LayoutInv, Free, Editing

\* A call is sent, with what the page knows.
LEMMA SentStep ==
  ASSUME LayoutInv, NEW kind \in CallKinds, NEW roles, Assigns(roles), NEW zr \in SUBSET Redundancies,
         SendCall(kind, roles, zr),
         kind = "node" => \E n \in Members : roles = [m \in {n} |-> data.roles[m]],
         kind = "apply" => dialog.kind = "apply",
         kind = "stage" => Editing, kind = "preview" => Free,
         kind \in {"apply", "node", "revert"} => dialog.kind = kind,
         preview' \in {preview, {}}, dialog' = dialog
  PROVE  LayoutInv'
<1> DEFINE new == [id |-> sent + 1, kind |-> kind, phase |-> "sent", roles |-> roles,
                   zr |-> zr, seen |-> data, calm |-> Calm]
<1>1. /\ sent < MaxCalls /\ ~Pending(kind) /\ sent' = sent + 1
      /\ watched' = Watching(kind)
      /\ calls' = calls \union {new}
      /\ UNCHANGED <<garage, data, fetch, stale, form, edited, others>>
  BY DEF SendCall
<1>2. sent \in 0..MaxCalls /\ MaxCalls \in Nat /\ watched \in [CallKinds -> 0..MaxCalls]
  BY LayoutAssumption DEF LayoutInv, LayoutTypes
<1>3. /\ new.id = sent + 1 /\ new.kind = kind /\ new.phase = "sent" /\ new.roles = roles
      /\ new.seen = data /\ new.calm = Calm
      /\ new \in [id : 1..(sent + 1), kind : CallKinds, phase : {"sent", "done"}, roles : {new.roles},
                  zr : SUBSET Redundancies, seen : {new.seen}, calm : BOOLEAN]
  BY <1>2 DEF Calm
<1>4. /\ CallTypes /\ CallsPast /\ ShownPast /\ IsLayout(data)
      /\ \A c \in calls : c.id \in 1..sent /\ c.phase \in {"sent", "done"}
  BY DEF LayoutInv, LayoutTypes, CallTypes
<1> HIDE DEF new
<1>13. /\ watched' \in [CallKinds -> 0..MaxCalls] /\ watched'[kind] = sent + 1
       /\ kind # "preview" => watched'["preview"] = watched["preview"]
  BY <1>1, <1>2 DEF Watching, CallKinds
<1>5. LayoutTypes'
  <2>1. \A l \in fetch' \union preview' \union form'.base : IsLayout(l)
    BY <1>1 DEF LayoutInv, LayoutTypes
  <2>2. sent' \in 0..MaxCalls /\ watched' \in [CallKinds -> 0..MaxCalls]
    BY <1>1, <1>2, <1>13
  <2> QED
    BY <1>1, <2>1, <2>2 DEF LayoutInv, LayoutTypes
<1>6. FormTypes' /\ FormHonest' /\ (Editing => Free)'
  <2>1. (Editing => Free)'
    BY <1>1 DEF LayoutInv, Editing, Free
  <2> QED
    BY <1>1, <2>1, FormKept
<1>7. CallTypes'
  <2>1. \A c \in calls : c.id < new.id
    BY <1>2, <1>3, <1>4
  <2>2. \A c, d \in calls' : c.id = d.id => c = d
    <3>1. \A c \in calls : c.id # new.id
      BY <1>2, <1>3, <1>4
    <3> QED
      BY <1>1, <1>4, <3>1 DEF CallTypes
  <2>3. ASSUME NEW c \in calls
        PROVE  c \in [id : 1..(sent + 1), kind : CallKinds, phase : {"sent", "done"}, roles : {c.roles},
                      zr : SUBSET Redundancies, seen : {c.seen}, calm : BOOLEAN]
    <3>1. c \in [id : 1..sent, kind : CallKinds, phase : {"sent", "done"}, roles : {c.roles},
                 zr : SUBSET Redundancies, seen : {c.seen}, calm : BOOLEAN]
      BY <1>4 DEF CallTypes
    <3>2. 1..sent \subseteq 1..(sent + 1)
      BY <1>2
    <3> QED
      BY <3>1, <3>2
  <2>4. ASSUME NEW c \in calls'
        PROVE  /\ c \in [id : 1..sent', kind : CallKinds, phase : {"sent", "done"}, roles : {c.roles},
                         zr : SUBSET Redundancies, seen : {c.seen}, calm : BOOLEAN]
               /\ Assigns(c.roles) /\ IsLayout(c.seen)
               /\ c.kind = "node" => \E n \in Members : c.roles = [m \in {n} |-> c.seen.roles[m]]
    <3>1. CASE c = new
      BY <1>1, <1>3, <1>4, <3>1
    <3>2. CASE c \in calls
      BY <1>1, <1>4, <2>3, <3>2 DEF CallTypes
    <3> QED
      BY <1>1, <3>1, <3>2
  <2> QED
    BY <2>2, <2>4 DEF CallTypes
<1>9. \A l : Present(l) => Present(l)'
  BY <1>1 DEF Present
<1>10. \A l : Past(l) => Past(l)'
  BY <1>1 DEF Past
<1>11. ShownPast'
  <2>1. \A l \in fetch' \union preview' : Past(l) /\ Present(l)
    BY <1>1, <1>4 DEF ShownPast
  <2>2. Past(data) /\ (~stale => Present(data))
    BY <1>4 DEF ShownPast
  <2> QED
    BY <1>1, <2>1, <2>2 DEF ShownPast, Past, Present
<1>12. CallsPast'
  <2> SUFFICES ASSUME NEW c \in calls'
               PROVE  /\ Past(c.seen)'
                      /\ c.kind = "preview" /\ c.phase = "done" /\ watched'["preview"] = c.id => Present(c.seen)'
                      /\ c.kind = "apply" /\ c.phase = "sent" /\ c.calm => Undisturbed(c)'
    BY DEF CallsPast
  <2>1. CASE c \in calls
    <3>1. /\ Past(c.seen)
          /\ c.kind = "preview" /\ c.phase = "done" /\ watched["preview"] = c.id => Present(c.seen)
          /\ c.kind = "apply" /\ c.phase = "sent" /\ c.calm => Undisturbed(c)
      BY <1>4, <2>1 DEF CallsPast
    <3>2. watched'["preview"] = c.id => watched["preview"] = c.id
      BY <1>2, <1>4, <1>13, <2>1
    <3>3. ASSUME c.kind = "apply", c.phase = "sent", c.calm PROVE Undisturbed(c)'
      <4>1. Undisturbed(c)
        BY <3>1, <3>3
      <4>2. kind # "apply"
        BY <1>1, <2>1, <4>1 DEF Undisturbed, Pending
      <4> QED
        BY <4>1, <4>2 DEF Undisturbed, LayoutInv, Editing, Free, Closed, CallKinds
    <3> QED
      BY <1>1, <3>1, <3>2, <3>3 DEF Past, Present
  <2>2. CASE c = new
    <3>1. Past(data)
      BY <1>4 DEF ShownPast
    <3>2. ASSUME c.kind = "apply", c.calm PROVE Undisturbed(c)'
      <4>1. ~stale /\ (\A d \in calls : d.kind = "preview") /\ kind = "apply"
        BY <1>3, <2>2, <3>2 DEF Calm
      <4>2. data.foreign = garage.foreign => data = garage
        BY <1>4, <4>1 DEF ShownPast, Present
      <4>3. watched'["apply"] = c.id
        BY <1>3, <1>13, <2>2, <4>1
      <4> QED
        BY <1>1, <1>3, <2>2, <4>1, <4>2, <4>3 DEF Undisturbed
    <3> QED
      BY <1>1, <1>3, <2>2, <3>1, <3>2 DEF Past
  <2> QED
    BY <1>1, <2>1, <2>2
<1> QED
  BY <1>5, <1>6, <1>7, <1>11, <1>12 DEF LayoutInv

LEMMA NothingAssigned == Assigns(NoChange)
BY DEF Assigns, NoChange

LEMMA SendsStep ==
  ASSUME LayoutInv,
         \/ SubmitStage \/ PreviewStaged \/ ConfirmAll
         \/ dialog.kind = "node" /\ dialog.node \in DOMAIN data.staged /\ ConfirmNode
  PROVE  LayoutInv'
<1>1. IsLayout(data) /\ FormTypes /\ (Editing => Free)
  BY DEF LayoutInv, LayoutTypes
<1>2. CASE SubmitStage
  <2>1. PICK l \in form.base :
          LET changed == {n \in Members : ~Nothing(l, n, form.rows[n])}
              zr      == {form.zr} \ {NextZr(data)}
          IN  /\ \A n \in Members : ~Refused(l, n, form.rows[n])
              /\ form.zr # Invalid
              /\ SendCall("stage", [n \in changed |-> ChangeOf(l, n, form.rows[n])], zr)
              /\ UNCHANGED <<preview, dialog>>
    BY <1>2 DEF SubmitStage
  <2> DEFINE changed == {n \in Members : ~Nothing(l, n, form.rows[n])}
             roles == [n \in changed |-> ChangeOf(l, n, form.rows[n])]
             zr == {form.zr} \ {NextZr(data)}
  <2>2. IsLayout(l) /\ \A n \in Members : form.rows[n] \in Rows
    BY <1>1 DEF FormTypes
  <2>3. \A n \in changed : ChangeOf(l, n, form.rows[n]) \in NodeRoles
    BY <2>1, <2>2, ChangeFacts
  <2>4. Assigns(roles)
    <3>1. changed \subseteq Members
      OBVIOUS
    <3> HIDE DEF changed
    <3> QED
      BY <2>3, <3>1 DEF Assigns
  <2>5. zr \in SUBSET Redundancies
    BY <1>1, <2>1 DEF FormTypes
  <2>6. SendCall("stage", roles, zr) /\ UNCHANGED <<preview, dialog>>
    BY <2>1
  <2>7. Editing /\ "stage" \in CallKinds
    BY DEF Editing, CallKinds
  <2> HIDE DEF roles, zr
  <2> QED
    BY <2>4, <2>5, <2>6, <2>7, SentStep
<1>3. CASE PreviewStaged
  <2>1. SendCall("preview", NoChange, {}) /\ preview' = {} /\ dialog' = dialog /\ Free
    BY <1>3 DEF PreviewStaged
  <2>2. "preview" \in CallKinds /\ {} \in SUBSET Redundancies
    BY DEF CallKinds
  <2> QED
    BY <2>1, <2>2, NothingAssigned, SentStep
<1>4. CASE ConfirmAll
  <2>1. dialog.kind \in {"apply", "revert"} /\ SendCall(dialog.kind, NoChange, {}) /\ UNCHANGED <<preview, dialog>>
    BY <1>4 DEF ConfirmAll
  <2>2. dialog.kind \in CallKinds /\ {} \in SUBSET Redundancies
    BY <2>1 DEF CallKinds
  <2> QED
    BY <2>1, <2>2, NothingAssigned, SentStep
<1>5. CASE dialog.kind = "node" /\ dialog.node \in DOMAIN data.staged /\ ConfirmNode
  <2> DEFINE roles == [n \in {dialog.node} |-> data.roles[n]]
  <2>1. SendCall("node", roles, {}) /\ UNCHANGED <<preview, dialog>>
    BY <1>5 DEF ConfirmNode, RevertChange
  <2>2. dialog.node \in Members /\ data.roles[dialog.node] \in NodeRoles
    BY <1>1, <1>5 DEF IsLayout, Assigns
  <2>3. Assigns(roles)
    BY <2>2 DEF Assigns
  <2>4. \E n \in Members : roles = [m \in {n} |-> data.roles[m]]
    BY <2>2
  <2>5. "node" \in CallKinds /\ {} \in SUBSET Redundancies
    BY DEF CallKinds
  <2> HIDE DEF roles
  <2> QED
    BY <1>5, <2>1, <2>3, <2>4, <2>5, SentStep
<1> QED
  BY <1>2, <1>3, <1>4, <1>5

\* A dialog opens or closes, but not that of an apply under way.
LEMMA DialogStep ==
  ASSUME LayoutInv,
         \/ \E k \in Dialogs, n \in Members \union {NoNode} : Open(k, n)
         \/ Dismiss
         \/ dialog.kind = "node" /\ dialog.node \notin DOMAIN data.staged /\ ConfirmNode
  PROVE  LayoutInv'
<1>1. UNCHANGED <<garage, data, fetch, stale, form, edited, calls, watched, sent, preview, others>>
  BY DEF Open, Dismiss, ConfirmNode
<1>2. /\ dialog'.kind \in Dialogs \union {"none"} /\ dialog'.node \in Members \union {NoNode}
      /\ Editing => dialog' = Closed
  BY DEF Open, Dismiss, ConfirmNode, Closed
<1>3. ASSUME NEW c \in calls, c.kind = "apply", c.phase = "sent", c.calm PROVE FALSE
  <2>1. dialog.kind = "apply" /\ watched["apply"] = c.id
    BY <1>3 DEF LayoutInv, CallsPast, Undisturbed
  <2>2. ~Free /\ Pending(dialog.kind)
    BY <2>1 DEF Free, Closed, Pending
  <2> QED
    BY <2>1, <2>2 DEF Open, Dismiss, CanDismiss
<1>4. LayoutTypes'
  BY <1>1, <1>2 DEF LayoutInv, LayoutTypes
<1>5. CallTypes'
  BY <1>1 DEF LayoutInv, CallTypes
<1>6. CallsPast'
  BY <1>1, <1>3 DEF LayoutInv, CallsPast, Past, Present
<1>7. (Editing => Free)'
  BY <1>1, <1>2 DEF Editing, Free
<1> QED
  BY <1>1, <1>4, <1>5, <1>6, <1>7, FormKept, ShownKept DEF LayoutInv

-----------------------------------------------------------------------------
(* Garage executes a call *)

CallFields == {"id", "kind", "phase", "roles", "zr", "seen", "calm"}

LEMMA ExecutedFacts ==
  ASSUME LayoutInv, NEW c \in calls
  PROVE  LET e == Executed(c) IN
         /\ e.id = c.id /\ e.kind = c.kind /\ e.phase = "done" /\ e.roles = c.roles
         /\ e.seen = IF c.kind = "preview" THEN garage ELSE c.seen
         /\ e \in [id : 1..sent, kind : CallKinds, phase : {"sent", "done"}, roles : {e.roles},
                   zr : SUBSET Redundancies, seen : {e.seen}, calm : BOOLEAN]
<1> DEFINE seen == IF c.kind = "preview" THEN garage ELSE c.seen
           e == [c EXCEPT !.phase = "done", !.seen = seen]
           r == [id |-> c.id, kind |-> c.kind, phase |-> "done", roles |-> c.roles, zr |-> c.zr,
                 seen |-> seen, calm |-> c.calm]
<1>1. c \in [id : 1..sent, kind : CallKinds, phase : {"sent", "done"}, roles : {c.roles},
             zr : SUBSET Redundancies, seen : {c.seen}, calm : BOOLEAN]
  BY DEF LayoutInv, CallTypes
<1>2. DOMAIN c = CallFields
  BY <1>1 DEF CallFields
<1>3. Executed(c) = e
  BY DEF Executed
<1> HIDE DEF seen
<1>4. /\ e.id = c.id /\ e.kind = c.kind /\ e.phase = "done" /\ e.roles = c.roles
      /\ e.zr = c.zr /\ e.seen = seen /\ e.calm = c.calm /\ e = [x \in CallFields |-> e[x]]
  BY <1>2 DEF CallFields
<1>5. /\ r.id = c.id /\ r.kind = c.kind /\ r.phase = "done" /\ r.roles = c.roles
      /\ r.zr = c.zr /\ r.seen = seen /\ r.calm = c.calm /\ r = [x \in CallFields |-> r[x]]
  BY DEF CallFields
<1>6. r \in [id : 1..sent, kind : CallKinds, phase : {"sent", "done"}, roles : {r.roles},
             zr : SUBSET Redundancies, seen : {r.seen}, calm : BOOLEAN]
  BY <1>1
<1> HIDE DEF e, r
<1>7. e = r
  BY <1>4, <1>5 DEF CallFields
<1> QED
  BY <1>3, <1>4, <1>6, <1>7 DEF seen

\* How Garage's layout moves on.
Onward ==
  /\ IsLayout(garage) /\ IsLayout(garage')
  /\ garage.version <= garage'.version /\ garage.foreign <= garage'.foreign
  /\ garage'.version = garage.version => garage'.roles = garage.roles

LEMMA OnwardKeepsPast ==
  ASSUME Onward
  PROVE  \A l : IsLayout(l) /\ Past(l) => Past(l)'
<1>1. /\ garage.version \in Nat /\ garage'.version \in Nat /\ garage.foreign \in Nat /\ garage'.foreign \in Nat
      /\ \A l : IsLayout(l) => l.version \in Nat /\ l.foreign \in Nat
  BY DEF Onward, IsLayout
<1> QED
  BY <1>1 DEF Past, Onward

LEMMA ExecuteMoves ==
  ASSUME LayoutInv, NEW c \in calls, Execute(c)
  PROVE  Onward /\ garage'.foreign = garage.foreign /\ (c.kind = "preview" => garage' = garage)
<1>1. IsLayout(garage) /\ Assigns(c.roles) /\ c.zr \in SUBSET Redundancies /\ c.kind \in CallKinds
  BY DEF LayoutInv, LayoutTypes, CallTypes
<1>2. garage.version \in Nat /\ garage.foreign \in Nat
  BY <1>1 DEF IsLayout
<1>3. CASE c.kind \in {"stage", "node"}
  <2>1. garage' = Stage(garage, c.roles, c.zr)
    BY <1>3 DEF Execute
  <2>2. /\ IsLayout(garage') /\ garage'.version = garage.version /\ garage'.roles = garage.roles
        /\ garage'.foreign = garage.foreign
    BY <1>1, <2>1, StageMoves
  <2> QED
    BY <1>1, <1>2, <1>3, <2>2 DEF Onward
<1>4. CASE c.kind = "apply"
  <2>1. garage' = Applied(garage)
    BY <1>4 DEF Execute
  <2> QED
    BY <1>1, <1>2, <1>4, <2>1, AppliedFacts DEF Onward
<1>5. CASE c.kind = "revert"
  <2>1. garage' = Unstaged(garage)
    BY <1>5 DEF Execute
  <2> QED
    BY <1>1, <1>2, <1>5, <2>1, UnstagedFacts DEF Onward
<1>6. CASE c.kind = "preview"
  <2>1. garage' = garage
    BY <1>6 DEF Execute
  <2> QED
    BY <1>1, <1>2, <2>1 DEF Onward
<1> QED
  BY <1>1, <1>3, <1>4, <1>5, <1>6 DEF CallKinds

LEMMA ExecuteStep ==
  ASSUME LayoutInv, NEW c \in calls, Execute(c)
  PROVE  LayoutInv'
<1> SUFFICES ASSUME NEW e, e = Executed(c) PROVE LayoutInv'
  OBVIOUS
<1>1. /\ c.phase = "sent" /\ calls' = (calls \ {c}) \union {e}
      /\ UNCHANGED <<data, fetch, stale, form, edited, watched, sent, preview, dialog, others>>
  BY DEF Execute
<1>2. Onward /\ garage'.foreign = garage.foreign /\ (c.kind = "preview" => garage' = garage)
  BY ExecuteMoves
<1>3. /\ e.id = c.id /\ e.kind = c.kind /\ e.phase = "done" /\ e.roles = c.roles
      /\ e.seen = IF c.kind = "preview" THEN garage ELSE c.seen
      /\ e \in [id : 1..sent, kind : CallKinds, phase : {"sent", "done"}, roles : {e.roles},
                zr : SUBSET Redundancies, seen : {e.seen}, calm : BOOLEAN]
  BY ExecutedFacts
<1>4. CallTypes /\ CallsPast /\ ShownPast /\ LayoutTypes
  BY DEF LayoutInv
<1>5. LayoutTypes'
  BY <1>1, <1>2, <1>4 DEF LayoutTypes, Onward
<1>6. (Editing => Free)'
  BY <1>1 DEF LayoutInv, Editing, Free
<1>7. CallTypes'
  <2>1. \A d \in calls' : d.id = e.id => d = e
    BY <1>1, <1>3, <1>4 DEF CallTypes
  <2>2. \A d1, d2 \in calls' : d1.id = d2.id => d1 = d2
    BY <1>1, <1>4, <2>1 DEF CallTypes
  <2>3. IsLayout(e.seen) /\ Assigns(e.roles)
    <3>1. IsLayout(garage) /\ IsLayout(c.seen) /\ Assigns(c.roles)
      BY <1>4 DEF CallTypes, LayoutTypes
    <3>2. e.seen = garage \/ e.seen = c.seen
      BY <1>3
    <3> QED
      BY <1>3, <3>1, <3>2, Zenon
  <2>4. e.kind = "node" => \E n \in Members : e.roles = [m \in {n} |-> e.seen.roles[m]]
    <3>1. c.kind = "node" => \E n \in Members : c.roles = [m \in {n} |-> c.seen.roles[m]]
      BY <1>4 DEF CallTypes
    <3>2. e.kind = "node" => e.seen = c.seen /\ e.roles = c.roles /\ c.kind = "node"
      BY <1>3
    <3> QED
      BY <3>1, <3>2, Zenon
  <2>5. ASSUME NEW d \in calls'
        PROVE  /\ d \in [id : 1..sent', kind : CallKinds, phase : {"sent", "done"}, roles : {d.roles},
                         zr : SUBSET Redundancies, seen : {d.seen}, calm : BOOLEAN]
               /\ Assigns(d.roles) /\ IsLayout(d.seen)
               /\ d.kind = "node" => \E n \in Members : d.roles = [m \in {n} |-> d.seen.roles[m]]
    <3>1. CASE d = e
      <4>1. e \in [id : 1..sent', kind : CallKinds, phase : {"sent", "done"}, roles : {e.roles},
                   zr : SUBSET Redundancies, seen : {e.seen}, calm : BOOLEAN]
        BY <1>1, <1>3
      <4> QED
        BY <2>3, <2>4, <3>1, <4>1, Zenon
    <3>2. CASE d \in calls
      BY <1>1, <1>4, <3>2 DEF CallTypes
    <3> QED
      BY <1>1, <3>1, <3>2
  <2> QED
    BY <2>2, <2>5 DEF CallTypes
<1>8. \A l : IsLayout(l) /\ Past(l) => Past(l)'
  BY <1>2, OnwardKeepsPast
<1>9. \A l : Present(l) => Present(l)'
  <2>1. CASE c.kind = "preview"
    <3>1. \A d \in calls : d.kind # "preview" => d \in calls'
      BY <1>1, <2>1
    <3> QED
      BY <1>2, <2>1, <3>1 DEF Present
  <2>2. CASE c.kind # "preview"
    <3>1. e \in calls' /\ e.kind # "preview" /\ e.phase # "sent"
      BY <1>1, <1>3, <2>2
    <3> QED
      BY <3>1 DEF Present
  <2> QED
    BY <2>1, <2>2
<1>10. ShownPast'
  <2>1. IsLayout(data) /\ \A l \in fetch \union preview : IsLayout(l)
    BY <1>4 DEF LayoutTypes
  <2>2. Past(data) /\ (\A l \in fetch \union preview : Past(l) /\ Present(l)) /\ (~stale => Present(data))
    BY <1>4 DEF ShownPast
  <2>3. /\ Past(data)' /\ (~stale => Present(data)')
        /\ \A l \in fetch' \union preview' : Past(l)' /\ Present(l)'
    BY <1>1, <1>8, <1>9, <2>1, <2>2 DEF Past, Present
  <2> QED
    BY <1>1, <2>3 DEF ShownPast
<1>11. CallsPast'
  <2> SUFFICES ASSUME NEW d \in calls'
               PROVE  /\ Past(d.seen)'
                      /\ d.kind = "preview" /\ d.phase = "done" /\ watched'["preview"] = d.id => Present(d.seen)'
                      /\ d.kind = "apply" /\ d.phase = "sent" /\ d.calm => Undisturbed(d)'
    BY DEF CallsPast
  <2>1. CASE d \in calls /\ d # c
    <3>1. /\ Past(d.seen) /\ IsLayout(d.seen)
          /\ d.kind = "preview" /\ d.phase = "done" /\ watched["preview"] = d.id => Present(d.seen)
          /\ d.kind = "apply" /\ d.phase = "sent" /\ d.calm => Undisturbed(d)
      BY <1>4, <2>1 DEF CallsPast, CallTypes
    <3>2. ASSUME Undisturbed(d) PROVE Undisturbed(d)'
      <4>1. c.kind = "preview"
        BY <2>1, <3>2 DEF Undisturbed
      <4>2. \A x \in calls' : x.kind # "preview" => x = d
        BY <1>1, <1>3, <3>2, <4>1 DEF Undisturbed
      <4> QED
        BY <1>1, <1>2, <3>2, <4>1, <4>2 DEF Undisturbed
    <3> QED
      BY <1>1, <1>8, <1>9, <3>1, <3>2
  <2>2. CASE d = e
    <3>1. Past(e.seen)'
      <4>1. Past(garage) /\ IsLayout(garage)
        <5>1. IsLayout(garage)
          BY <1>4 DEF LayoutTypes
        <5>2. garage.version \in Nat /\ garage.foreign \in Nat
          BY <5>1 DEF IsLayout
        <5> QED
          BY <5>1, <5>2 DEF Past
      <4>2. Past(c.seen) /\ IsLayout(c.seen)
        BY <1>4 DEF CallsPast, CallTypes
      <4>3. e.seen = garage \/ e.seen = c.seen
        BY <1>3
      <4>4. IsLayout(e.seen) /\ Past(e.seen)
        BY <4>1, <4>2, <4>3, Zenon
      <4> QED
        BY <1>8, <4>4
    <3>2. d.kind = "preview" => Present(e.seen)'
      <4>1. ASSUME d.kind = "preview" PROVE e.seen = garage'
        BY <1>2, <1>3, <2>2, <4>1
      <4> QED
        BY <4>1 DEF Present
    <3>3. d.phase = "done"
      BY <1>3, <2>2
    <3>4. Past(d.seen)' /\ (d.kind = "preview" => Present(d.seen)')
      BY <2>2, <3>1, <3>2
    <3> QED
      BY <3>3, <3>4
  <2> QED
    BY <1>1, <2>1, <2>2
<1> QED
  BY <1>1, <1>5, <1>6, <1>7, <1>10, <1>11, FormKept DEF LayoutInv

\* The set of calls loses one.
LEMMA FewerCalls ==
  ASSUME CallTypes, NEW c \in calls, calls' = calls \ {c}, sent' = sent
  PROVE  CallTypes'
BY DEF CallTypes

\* An error, or the answer of a preview: the page does nothing but show it.
LEMMA AnswerStep ==
  ASSUME LayoutInv, NEW c \in calls, CallFails(c) \/ PreviewAnswers(c)
  PROVE  LayoutInv'
<1>1. /\ calls' = calls \ {c}
      /\ UNCHANGED <<data, fetch, stale, form, edited, watched, sent, dialog, others>>
  BY DEF CallFails, PreviewAnswers
<1>2. CallTypes /\ CallsPast /\ ShownPast /\ LayoutTypes /\ IsLayout(garage) /\ garage.foreign \in Nat /\ garage.version \in Nat
  BY DEF LayoutInv, LayoutTypes, IsLayout
<1>3. \/ garage' = Foreign(garage) /\ c.phase = "done" /\ c.kind # "preview"
      \/ garage' = garage /\ (c.phase = "sent" \/ c.kind = "preview")
  BY <1>2 DEF CallFails, PreviewAnswers, CallTypes
<1>4. Onward
  BY <1>2, <1>3, ForeignFacts DEF Onward
<1>5. \A l : IsLayout(l) /\ Past(l) => Past(l)'
  BY <1>4, OnwardKeepsPast
<1>6. \A l : IsLayout(l) /\ Past(l) /\ Present(l) => Present(l)'
  <2>1. CASE garage' = garage /\ (c.phase = "sent" \/ c.kind = "preview")
    BY <1>1, <2>1 DEF Present
  <2>2. CASE garage' = Foreign(garage)
    <3>1. garage'.foreign = garage.foreign + 1
      BY <1>2, <2>2, ForeignFacts
    <3>2. \A l : IsLayout(l) /\ Past(l) => l.foreign # garage'.foreign
      BY <1>2, <3>1 DEF Past, IsLayout
    <3> QED
      BY <3>2 DEF Present
  <2> QED
    BY <1>3, <2>1, <2>2
<1>7. preview' = preview \/ (preview' = {c.seen} /\ c.kind = "preview" /\ c.phase = "done" /\ watched["preview"] = c.id)
  BY DEF CallFails, PreviewAnswers
<1>8. \A l \in preview' : IsLayout(l) /\ Past(l) /\ Present(l)
  BY <1>2, <1>7 DEF LayoutTypes, ShownPast, CallTypes, CallsPast
<1>9. LayoutTypes'
  <2>1. \A l \in fetch' \union preview' \union form'.base : IsLayout(l)
    BY <1>1, <1>2, <1>8 DEF LayoutTypes
  <2> QED
    BY <1>1, <1>2, <1>4, <2>1 DEF LayoutTypes, Onward
<1>10. ShownPast'
  <2>1. IsLayout(data) /\ \A l \in fetch : IsLayout(l)
    BY <1>2 DEF LayoutTypes
  <2>2. Past(data) /\ (\A l \in fetch : Past(l) /\ Present(l)) /\ (~stale => Present(data))
    BY <1>2 DEF ShownPast
  <2>3. /\ Past(data)' /\ (~stale => Present(data)')
        /\ \A l \in fetch' \union preview' : Past(l)' /\ Present(l)'
    BY <1>1, <1>5, <1>6, <1>8, <2>1, <2>2 DEF Past, Present
  <2> QED
    BY <1>1, <2>3 DEF ShownPast
<1>11. CallsPast'
  <2> SUFFICES ASSUME NEW d \in calls, d # c
               PROVE  /\ Past(d.seen)'
                      /\ d.kind = "preview" /\ d.phase = "done" /\ watched["preview"] = d.id => Present(d.seen)'
                      /\ d.kind = "apply" /\ d.phase = "sent" /\ d.calm => Undisturbed(d)'
    BY <1>1 DEF CallsPast
  <2>1. /\ Past(d.seen) /\ IsLayout(d.seen)
        /\ d.kind = "preview" /\ d.phase = "done" /\ watched["preview"] = d.id => Present(d.seen)
        /\ d.kind = "apply" /\ d.phase = "sent" /\ d.calm => Undisturbed(d)
    BY <1>2 DEF CallsPast, CallTypes
  <2>2. ASSUME Undisturbed(d) PROVE Undisturbed(d)'
    <3>1. garage' = garage
      BY <1>3, <2>2 DEF Undisturbed
    <3> QED
      BY <1>1, <2>2, <3>1 DEF Undisturbed
  <2> QED
    BY <1>5, <1>6, <2>1, <2>2
<1>12. (Editing => Free)'
  BY <1>1 DEF LayoutInv, Editing, Free
<1> QED
  BY <1>1, <1>2, <1>9, <1>10, <1>11, <1>12, FormKept, FewerCalls DEF LayoutInv

\* A change of the operator's own is answered: the page forgets what it knew.
LEMMA ChangeStep ==
  ASSUME LayoutInv, NEW c \in calls, ChangeAnswers(c)
  PROVE  LayoutInv'
<1>1. /\ c.kind # "preview" /\ calls' = calls \ {c}
      /\ stale' = TRUE /\ fetch' = {} /\ preview' = {}
      /\ watched' = [watched EXCEPT !["preview"] = 0, !["apply"] = IF c.kind = "apply" THEN @ ELSE 0]
      /\ (form' = NoForm /\ edited' = {}) \/ UNCHANGED <<form, edited>>
      /\ dialog' \in {Closed, dialog}
      /\ UNCHANGED <<garage, data, sent, others>>
  BY DEF ChangeAnswers, Invalidate, Resets
<1>2. CallTypes /\ CallsPast /\ ShownPast /\ LayoutTypes
  BY DEF LayoutInv
<1>3. watched' \in [CallKinds -> 0..MaxCalls] /\ watched'["preview"] = 0
  BY <1>1, <1>2, LayoutAssumption DEF LayoutTypes, CallKinds
<1>4. FormTypes' /\ FormHonest' /\ (Editing => Free)' /\ \A l \in form'.base : IsLayout(l)
  <2>1. CASE form' = NoForm
    BY <2>1, NoFormFacts DEF FormTypes, FormHonest, Editing
  <2>2. CASE UNCHANGED <<form, edited>>
    <3>1. (Editing => Free)'
      BY <1>1, <2>2 DEF LayoutInv, Editing, Free
    <3>2. \A l \in form'.base : IsLayout(l)
      BY <1>2, <2>2 DEF LayoutTypes
    <3> QED
      BY <2>2, <3>1, <3>2, FormKept
  <2> QED
    BY <1>1, <2>1, <2>2
<1>5. LayoutTypes'
  BY <1>1, <1>2, <1>3, <1>4 DEF LayoutTypes, Closed
<1>6. ShownPast'
  BY <1>1, <1>2 DEF ShownPast, Past
<1>7. CallsPast'
  <2> SUFFICES ASSUME NEW d \in calls, d # c
               PROVE  /\ Past(d.seen)'
                      /\ watched'["preview"] # d.id
                      /\ ~(d.kind = "apply" /\ d.phase = "sent" /\ d.calm)
    BY <1>1 DEF CallsPast
  <2>1. Past(d.seen)'
    BY <1>1, <1>2 DEF CallsPast, Past
  <2>2. d.id \in 1..sent /\ sent \in Nat
    BY <1>2 DEF CallTypes, LayoutTypes
  <2>3. ~(d.kind = "apply" /\ d.phase = "sent" /\ d.calm)
    BY <1>1, <1>2 DEF CallsPast, Undisturbed
  <2> QED
    BY <1>3, <2>1, <2>2, <2>3
<1> QED
  BY <1>1, <1>2, <1>4, <1>5, <1>6, <1>7, FewerCalls DEF LayoutInv

\* Others change the layout: whatever the page has is no longer the present one.
LEMMA OthersStep ==
  ASSUME LayoutInv, OthersAct
  PROVE  LayoutInv'
<1>1. PICK l : Elsewhere(l) /\ \/ \E n \in Members, r \in OtherRoles : l = Stage(garage, [m \in {n} |-> r], {})
                               \/ \E z \in Redundancies : l = Stage(garage, NoChange, {z})
                               \/ l = Applied(garage)
                               \/ l = Unstaged(garage)
  BY DEF OthersAct
<1>2. /\ garage' = Foreign(l) /\ others < MaxOthers /\ others' = others + 1
      /\ UNCHANGED <<data, fetch, stale, form, edited, calls, watched, sent, preview, dialog>>
  BY <1>1 DEF Elsewhere
<1>3. CallTypes /\ CallsPast /\ ShownPast /\ LayoutTypes /\ IsLayout(garage) /\ garage.foreign \in Nat /\ garage.version \in Nat
  BY DEF LayoutInv, LayoutTypes, IsLayout
<1>4. /\ IsLayout(l) /\ l.foreign = garage.foreign /\ garage.version <= l.version
      /\ l.version = garage.version => l.roles = garage.roles
  <2>1. CASE \E n \in Members, r \in OtherRoles : l = Stage(garage, [m \in {n} |-> r], {})
    <3>1. PICK n \in Members, r \in OtherRoles : l = Stage(garage, [m \in {n} |-> r], {})
      BY <2>1
    <3>2. OtherRoles \subseteq NodeRoles
      BY LayoutAssumption DEF NodeRoles, NoRole, Gateway
    <3>3. Assigns([m \in {n} |-> r]) /\ {} \in SUBSET Redundancies
      BY <3>2 DEF Assigns
    <3>4. IsLayout(l) /\ l.version = garage.version /\ l.roles = garage.roles /\ l.foreign = garage.foreign
      BY <1>3, <3>1, <3>3, StageMoves
    <3> QED
      BY <1>3, <3>4
  <2>2. CASE \E z \in Redundancies : l = Stage(garage, NoChange, {z})
    <3>1. PICK z \in Redundancies : l = Stage(garage, NoChange, {z})
      BY <2>2
    <3>2. {z} \in SUBSET Redundancies
      OBVIOUS
    <3>3. IsLayout(l) /\ l.version = garage.version /\ l.roles = garage.roles /\ l.foreign = garage.foreign
      BY <1>3, <3>1, <3>2, NothingAssigned, StageMoves
    <3> QED
      BY <1>3, <3>3
  <2>3. CASE l = Applied(garage)
    BY <1>3, <2>3, AppliedFacts
  <2>4. CASE l = Unstaged(garage)
    BY <1>3, <2>4, UnstagedFacts
  <2> QED
    BY <1>1, <2>1, <2>2, <2>3, <2>4
<1>5. /\ IsLayout(garage') /\ garage'.version = l.version /\ garage'.roles = l.roles
      /\ garage'.foreign = garage.foreign + 1
  BY <1>2, <1>4, ForeignFacts
<1>6. Onward
  BY <1>3, <1>4, <1>5 DEF Onward
<1>7. \A k : IsLayout(k) /\ Past(k) => Past(k)'
  BY <1>6, OnwardKeepsPast
<1>8. \A k : IsLayout(k) /\ Past(k) => k.foreign # garage'.foreign
  BY <1>3, <1>5 DEF Past, IsLayout
<1>9. LayoutTypes'
  BY <1>2, <1>3, <1>5, LayoutAssumption DEF LayoutTypes
<1>10. ShownPast'
  <2>1. IsLayout(data) /\ \A k \in fetch \union preview : IsLayout(k)
    BY <1>3 DEF LayoutTypes
  <2>2. Past(data) /\ \A k \in fetch \union preview : Past(k)
    BY <1>3 DEF ShownPast
  <2>3. Past(data)' /\ Present(data)' /\ \A k \in fetch' \union preview' : Past(k)' /\ Present(k)'
    BY <1>2, <1>7, <1>8, <2>1, <2>2 DEF Past, Present
  <2> QED
    BY <2>3 DEF ShownPast
<1>11. CallsPast'
  <2> SUFFICES ASSUME NEW d \in calls
               PROVE  /\ Past(d.seen)' /\ Present(d.seen)'
                      /\ d.kind = "apply" /\ d.phase = "sent" /\ d.calm => Undisturbed(d)'
    BY <1>2 DEF CallsPast
  <2>1. /\ Past(d.seen) /\ IsLayout(d.seen)
        /\ d.kind = "apply" /\ d.phase = "sent" /\ d.calm => Undisturbed(d)
    BY <1>3 DEF CallsPast, CallTypes
  <2> QED
    BY <1>2, <1>7, <1>8, <2>1 DEF Present, Undisturbed
<1>12. CallTypes' /\ (Editing => Free)'
  BY <1>2 DEF LayoutInv, CallTypes, Editing, Free
<1> QED
  BY <1>2, <1>9, <1>10, <1>11, <1>12, FormKept DEF LayoutInv

-----------------------------------------------------------------------------
(* The theorems of the layout page *)

LEMMA LayoutStep == LayoutInv /\ [LayoutNext]_lvars => LayoutInv'
<1> SUFFICES ASSUME LayoutInv, [LayoutNext]_lvars PROVE LayoutInv'
  OBVIOUS
<1>1. CASE GarageReads \/ FetchLands \/ FetchFails
  BY <1>1, FetchStep
<1>2. CASE StartEditing \/ UpdateDraft \/ CancelEditing \/ \E z \in Redundancies \union {Invalid} : EditRedundancy(z)
  BY <1>2, FormStep
<1>3. CASE SubmitStage \/ PreviewStaged \/ ConfirmAll
  BY <1>3, SendsStep
<1>4. CASE (\E k \in Dialogs, n \in Members \union {NoNode} : Open(k, n)) \/ Dismiss
  BY <1>4, DialogStep
<1>5. CASE ConfirmNode
  <2>1. dialog.kind = "node"
    BY <1>5 DEF ConfirmNode
  <2> QED
    BY <1>5, <2>1, DialogStep, SendsStep
<1>6. CASE \E c \in calls : Execute(c) \/ CallFails(c) \/ PreviewAnswers(c) \/ ChangeAnswers(c)
  BY <1>6, ExecuteStep, AnswerStep, ChangeStep
<1>7. CASE OthersAct
  BY <1>7, OthersStep
<1>8. CASE UNCHANGED lvars
  <2>1. FormTypes' /\ FormHonest' /\ CallTypes' /\ CallsPast' /\ ShownPast'
    BY <1>8, FormKept, CallsKept, ShownKept DEF lvars
  <2>2. LayoutTypes'
    BY <1>8 DEF lvars, LayoutInv, LayoutTypes
  <2>3. (Editing => Free)'
    BY <1>8 DEF lvars, LayoutInv, Editing, Free
  <2> QED
    BY <2>1, <2>2, <2>3 DEF LayoutInv
<1> QED
  BY <1>1, <1>2, <1>3, <1>4, <1>5, <1>6, <1>7, <1>8 DEF LayoutNext

LEMMA LayoutInvariant == LayoutSpec => []LayoutInv
BY LayoutBegins, LayoutStep, PTL DEF LayoutSpec

\* The types of the layout page: whatever it shows, edits, or sends is a layout,
\* a role, or a call of Garage (frontend/src/routes/layout.tsx).
THEOREM LayoutTyped == LayoutSpec => []LayoutTypes
<1>1. LayoutInv => LayoutTypes
  BY DEF LayoutInv
<1> QED
  BY <1>1, LayoutInvariant, PTL

\* Where a call comes from.
LEMMA NewCalls ==
  ASSUME LayoutInv, [LayoutNext]_lvars, NEW e \in calls', e \notin calls
  PROVE  \/ e.phase = "sent" /\ (e.kind = "stage" => SubmitStage)
         \/ \E d \in calls : Execute(d) /\ e = Executed(d)
<1>1. CASE SubmitStage
  <2>1. PICK roles, zr : SendCall("stage", roles, zr)
    BY <1>1 DEF SubmitStage
  <2>2. e = [id |-> sent + 1, kind |-> "stage", phase |-> "sent", roles |-> roles,
             zr |-> zr, seen |-> data, calm |-> Calm]
    BY <2>1 DEF SendCall
  <2> QED
    BY <1>1, <2>2
<1>2. CASE PreviewStaged \/ ConfirmAll \/ ConfirmNode
  <2>1. PICK kind \in {"preview", "apply", "revert", "node"} : \E roles, zr : SendCall(kind, roles, zr)
    <3>1. CASE PreviewStaged
      BY <3>1 DEF PreviewStaged
    <3>2. CASE ConfirmAll
      BY <3>2 DEF ConfirmAll
    <3>3. CASE ConfirmNode
      <4>1. dialog.node \in DOMAIN data.staged
        BY <3>3 DEF ConfirmNode
      <4> QED
        BY <3>3, <4>1 DEF ConfirmNode
    <3> QED
      BY <1>2, <3>1, <3>2, <3>3
  <2>2. PICK roles, zr : SendCall(kind, roles, zr)
    BY <2>1
  <2>3. e = [id |-> sent + 1, kind |-> kind, phase |-> "sent", roles |-> roles,
             zr |-> zr, seen |-> data, calm |-> Calm]
    BY <2>2 DEF SendCall
  <2> QED
    BY <2>3
<1>3. CASE \E d \in calls : Execute(d)
  BY <1>3 DEF Execute
<1>4. CASE calls' \subseteq calls
  BY <1>4
<1>5. \/ SubmitStage \/ PreviewStaged \/ ConfirmAll \/ ConfirmNode
      \/ (\E d \in calls : Execute(d)) \/ calls' \subseteq calls
  <2>1. GarageReads \/ FetchLands \/ FetchFails => calls' = calls
    BY DEF GarageReads, FetchLands, FetchFails
  <2>2. StartEditing \/ UpdateDraft \/ CancelEditing \/ (\E z \in Redundancies \union {Invalid} : EditRedundancy(z)) => calls' = calls
    BY DEF StartEditing, UpdateDraft, EditRow, CancelEditing, EditRedundancy
  <2>3. (\E k \in Dialogs, n \in Members \union {NoNode} : Open(k, n)) \/ Dismiss => calls' = calls
    BY DEF Open, Dismiss
  <2>4. \A d \in calls : CallFails(d) \/ PreviewAnswers(d) \/ ChangeAnswers(d) => calls' = calls \ {d}
    BY DEF CallFails, PreviewAnswers, ChangeAnswers
  <2>5. OthersAct \/ UNCHANGED lvars => calls' = calls
    BY DEF OthersAct, Elsewhere, lvars
  <2> QED
    BY <2>1, <2>2, <2>3, <2>4, <2>5 DEF LayoutNext
<1> QED
  BY <1>1, <1>2, <1>3, <1>4, <1>5

\* Only its own execution makes a call an executed one.
LEMMA ExecutionOnly ==
  ASSUME LayoutInv, [LayoutNext]_lvars, NEW c \in calls, c.phase = "sent", Executed(c) \in calls'
  PROVE  Execute(c)
<1> SUFFICES ASSUME NEW e, e = Executed(c) PROVE Execute(c)
  OBVIOUS
<1>1. e.id = c.id /\ e.phase = "done" /\ e \in calls'
  BY ExecutedFacts
<1>2. \A d1, d2 \in calls : d1.id = d2.id => d1 = d2
  BY DEF LayoutInv, CallTypes
<1>3. e \notin calls
  BY <1>1, <1>2
<1>4. PICK d \in calls : Execute(d) /\ e = Executed(d)
  BY <1>1, <1>3, NewCalls
<1>5. e.id = d.id
  BY <1>4, ExecutedFacts
<1> QED
  BY <1>1, <1>2, <1>4, <1>5

\* Something is staged for a node only if its row was edited, a removal only if it
\* was ticked, and of a role only the fields that were edited, but for the blanks
\* around the zone and the commas in tags (frontend/src/lib/layout-draft.ts).
THEOREM StagesWhatWasEdited == LayoutSpec => StagedAsEdited
<1> DEFINE Honest(c, l) ==
      /\ \A n \in DOMAIN c.roles :
           LET asked == c.roles[n]
               kept == Reread(Source(l, n))
           IN
           /\ \E field \in RowFields : <<n, field>> \in edited
           /\ asked = NoRole => <<n, "remove">> \in edited
           /\ asked # NoRole =>
                /\ <<n, "zone">> \in edited \/ asked.zone = kept.zone
                /\ <<n, "tags">> \in edited \/ asked.tags = kept.tags
                /\ <<n, "gib">>  \in edited \/ asked.cap  = kept.cap
      /\ c.zr # {} => <<NoNode, "zr">> \in edited \/ NextZr(l) # NextZr(data)
<1>1. ASSUME LayoutInv, [LayoutNext]_lvars, NEW c \in calls' \ calls, NEW l \in form.base,
             c.kind = "stage", c.phase = "sent"
      PROVE  Honest(c, l)
  <2>1. SubmitStage
    <3>1. \A d \in calls : Executed(d).phase = "done"
      BY <1>1, ExecutedFacts
    <3> QED
      BY <1>1, <3>1, NewCalls
  <2>2. FormTypes /\ FormHonest
    BY <1>1 DEF LayoutInv
  <2>3. IsLayout(l) /\ form.base = {l} /\ \A n \in Members : form.rows[n] \in Rows
    BY <1>1, <2>2 DEF FormTypes
  <2> DEFINE changed == {n \in Members : ~Nothing(l, n, form.rows[n])}
  <2>4. /\ \A n \in Members : ~Refused(l, n, form.rows[n])
        /\ SendCall("stage", [n \in changed |-> ChangeOf(l, n, form.rows[n])], {form.zr} \ {NextZr(data)})
    BY <2>1, <2>3 DEF SubmitStage
  <2>5. c.roles = [n \in changed |-> ChangeOf(l, n, form.rows[n])] /\ c.zr = {form.zr} \ {NextZr(data)}
    BY <1>1, <2>4 DEF SendCall
  <2>6. ASSUME NEW n \in DOMAIN c.roles
        PROVE  LET asked == c.roles[n]
                   kept == Reread(Source(l, n))
               IN
               /\ \E field \in RowFields : <<n, field>> \in edited
               /\ asked = NoRole => <<n, "remove">> \in edited
               /\ asked # NoRole =>
                    /\ <<n, "zone">> \in edited \/ asked.zone = kept.zone
                    /\ <<n, "tags">> \in edited \/ asked.tags = kept.tags
                    /\ <<n, "gib">>  \in edited \/ asked.cap  = kept.cap
    <3> DEFINE row == form.rows[n]
               asked == ChangeOf(l, n, row)
               kept == Reread(Source(l, n))
    <3>1. n \in Members /\ row \in Rows /\ ~Nothing(l, n, row) /\ ~Refused(l, n, row) /\ c.roles[n] = asked
      BY <2>3, <2>4, <2>5, <2>6
    <3>2. /\ <<n, "zone">> \in edited \/ row.zone = RowOf(l, n).zone
          /\ <<n, "tags">> \in edited \/ row.tags = RowOf(l, n).tags
          /\ <<n, "gib">> \in edited \/ row.gib = RowOf(l, n).gib
          /\ <<n, "remove">> \in edited \/ row.remove = RowOf(l, n).remove
      BY <2>2, <3>1 DEF FormHonest, RowFields
    <3>3. /\ RowOf(l, n).remove = WasRemoved(l, n) /\ RowOf(l, n).zone = Source(l, n).zone
          /\ RowOf(l, n).tags = TagText[Source(l, n).tags] /\ Source(l, n) \in NodeRoles
      BY <2>3, <3>1, RowFacts
    <3>4. /\ kept.zone = Trim[Source(l, n).zone] /\ kept.cap = Source(l, n).cap
          /\ kept.tags = ParseTags[TagText[Source(l, n).tags]]
      BY <3>3 DEF Reread, NodeRoles
    <3> HIDE DEF row, asked, kept
    <3>5. /\ ~row.remove => /\ asked # NoRole
                            /\ asked.zone = Trim[row.zone]
                            /\ asked.tags = ParseTags[row.tags]
                            /\ row.gib = RowOf(l, n).gib => asked.cap = Source(l, n).cap
                            /\ Untouched(l, n, row) => WasRemoved(l, n)
          /\ row.remove => ~WasRemoved(l, n)
          /\ row.remove => asked = NoRole
      BY <2>3, <3>1, ChangeFacts DEF asked, ChangeOf
    <3>6. row.remove \in BOOLEAN /\ WasRemoved(l, n) \in BOOLEAN
      BY <3>1 DEF Rows, WasRemoved
    <3>7. \E field \in RowFields : <<n, field>> \in edited
      <4>1. CASE Untouched(l, n, row)
        BY <3>2, <3>3, <3>5, <3>6, <4>1 DEF RowFields
      <4>2. CASE ~Untouched(l, n, row)
        BY <3>2, <4>2 DEF Untouched, RowFields
      <4> QED
        BY <4>1, <4>2
    <3>8. asked = NoRole => <<n, "remove">> \in edited
      BY <3>2, <3>3, <3>5, <3>6
    <3>9. asked # NoRole =>
            /\ <<n, "zone">> \in edited \/ asked.zone = kept.zone
            /\ <<n, "tags">> \in edited \/ asked.tags = kept.tags
            /\ <<n, "gib">>  \in edited \/ asked.cap  = kept.cap
      BY <3>2, <3>3, <3>4, <3>5, <3>6
    <3> QED
      BY <3>1, <3>7, <3>8, <3>9 DEF kept
  <2>7. c.zr # {} => <<NoNode, "zr">> \in edited \/ NextZr(l) # NextZr(data)
    BY <2>2, <2>5 DEF FormHonest
  <2> QED
    BY <2>6, <2>7
<1>2. LayoutInv /\ [LayoutNext]_lvars =>
        \A c \in calls' \ calls, l \in form.base : c.kind = "stage" /\ c.phase = "sent" => Honest(c, l)
  BY <1>1
<1>3. LayoutInv /\ [LayoutNext]_lvars =>
        [ \A c \in calls' \ calls, l \in form.base : c.kind = "stage" /\ c.phase = "sent" => Honest(c, l) ]_lvars
  BY <1>2
<1> QED
  BY <1>3, LayoutInvariant, PTL DEF LayoutSpec, StagedAsEdited

\* Staging the applied role of one node takes back its change and no other.
LEMMA TakesBackOne ==
  ASSUME NEW l, IsLayout(l), NEW n \in Members, NEW zr \in SUBSET Redundancies,
         NEW roles, roles = [m \in {n} |-> l.roles[m]]
  PROVE  Stage(l, roles, zr).staged = [m \in DOMAIN l.staged \ {n} |-> l.staged[m]]
<1>1. DOMAIN roles = {n} /\ roles[n] = l.roles[n]
  OBVIOUS
<1>2. Stage(l, roles, zr).staged =
        [k \in {m \in DOMAIN l.staged \union DOMAIN roles :
                  (IF m \in DOMAIN roles THEN roles[m] ELSE l.staged[m]) # l.roles[m]} |->
           IF k \in DOMAIN roles THEN roles[k] ELSE l.staged[k]]
  BY StagedThen
<1>3. \A m \in DOMAIN l.staged : l.staged[m] # l.roles[m]
  BY DEF IsLayout
<1>4. {m \in DOMAIN l.staged \union DOMAIN roles :
         (IF m \in DOMAIN roles THEN roles[m] ELSE l.staged[m]) # l.roles[m]} = DOMAIN l.staged \ {n}
  BY <1>1, <1>3
<1> DEFINE X == DOMAIN l.staged \ {n}
<1>5. [k \in X |-> IF k \in DOMAIN roles THEN roles[k] ELSE l.staged[k]] = [m \in X |-> l.staged[m]]
  BY <1>1
<1> QED
  BY <1>2, <1>4, <1>5

\* Reverting the staged change of one node, in a version of the layout the page
\* knows, removes that change and leaves the others (backend Garage's staging of
\* an applied role, frontend/src/routes/layout.tsx revertChangeFor).
THEOREM RevertsOne == LayoutSpec => RevertTakesBack
<1> DEFINE Back(c) ==
      c.seen.version = garage.version =>
        \A n \in DOMAIN c.roles :
          garage'.staged = [m \in DOMAIN garage.staged \ {n} |-> garage.staged[m]]
<1>1. ASSUME LayoutInv, [LayoutNext]_lvars, NEW c \in calls,
             c.kind = "node", c.phase = "sent", Executed(c) \in calls'
      PROVE  Back(c)
  <2> SUFFICES ASSUME c.seen.version = garage.version, NEW n \in DOMAIN c.roles
               PROVE  garage'.staged = [m \in DOMAIN garage.staged \ {n} |-> garage.staged[m]]
    OBVIOUS
  <2>1. garage' = Stage(garage, c.roles, c.zr)
    BY <1>1, ExecutionOnly DEF Execute
  <2>2. IsLayout(garage) /\ c.zr \in SUBSET Redundancies
    BY <1>1 DEF LayoutInv, LayoutTypes, CallTypes
  <2>3. c.seen.roles = garage.roles
    BY <1>1 DEF LayoutInv, CallsPast, Past
  <2>4. PICK k \in Members : c.roles = [m \in {k} |-> c.seen.roles[m]]
    BY <1>1 DEF LayoutInv, CallTypes
  <2>5. k = n
    BY <2>4
  <2>6. c.roles = [m \in {n} |-> garage.roles[m]] /\ n \in Members
    BY <2>3, <2>4, <2>5
  <2> QED
    BY <2>1, <2>2, <2>6, TakesBackOne
<1>2. LayoutInv /\ [LayoutNext]_lvars =>
        [ \A c \in calls : c.kind = "node" /\ c.phase = "sent" /\ Executed(c) \in calls' => Back(c) ]_lvars
  BY <1>1
<1> QED
  BY <1>2, LayoutInvariant, PTL DEF LayoutSpec, RevertTakesBack

\* What the page marks in its rows is what applying does to them.
LEMMA MarkedAsApplied ==
  ASSUME NEW l, IsLayout(l), NEW n \in RoleRows(l)
  PROVE  /\ ChangeKind(l, n) = "unchanged" <=> NextRoles(l)[n] = l.roles[n]
         /\ ChangeKind(l, n) = "removed"   <=> NextRoles(l)[n] = NoRole
<1>1. n \in Members /\ l.roles[n] # NoRole
  BY DEF RoleRows
<1>2. n \in DOMAIN l.staged => l.staged[n] # l.roles[n]
  BY DEF IsLayout
<1>3. NextRoles(l)[n] = IF n \in DOMAIN l.staged THEN l.staged[n] ELSE l.roles[n]
  BY <1>1 DEF NextRoles
<1> QED
  BY <1>1, <1>2, <1>3 DEF ChangeKind

\* What is applied for the operator is what the page showed at the confirmation,
\* and no preview older than an own change stays on the page
\* (frontend/src/routes/layout.tsx).
THEOREM AppliesWhatWasShown == LayoutSpec => AppliedAsShown
<1> DEFINE AsShown(c) ==
      \/ /\ garage'.roles = NextRoles(c.seen) /\ garage'.zr = NextZr(c.seen)
         /\ TotalsOf(garage'.roles) = TotalsAfter(c.seen)
         /\ \A n \in RoleRows(c.seen) :
              /\ ChangeKind(c.seen, n) = "unchanged" <=> garage'.roles[n] = c.seen.roles[n]
              /\ ChangeKind(c.seen, n) = "removed"   <=> garage'.roles[n] = NoRole
      \/ c.seen.foreign # garage.foreign \/ ~c.calm
<1>1. ASSUME LayoutInv, [LayoutNext]_lvars, NEW c \in calls,
             c.kind = "apply", c.phase = "sent", Executed(c) \in calls'
      PROVE  AsShown(c)
  <2> SUFFICES ASSUME c.seen.foreign = garage.foreign, c.calm PROVE AsShown(c)
    BY DEF LayoutInv, CallTypes
  <2>1. garage' = Applied(garage)
    BY <1>1, ExecutionOnly DEF Execute
  <2>2. c.seen = garage /\ IsLayout(garage)
    BY <1>1 DEF LayoutInv, LayoutTypes, CallsPast, Undisturbed
  <2>3. garage'.roles = NextRoles(c.seen) /\ garage'.zr = NextZr(c.seen)
    BY <2>1, <2>2, AppliedFacts
  <2>4. TotalsOf(garage'.roles) = TotalsAfter(c.seen)
    BY <2>3 DEF TotalsAfter
  <2>5. \A n \in RoleRows(c.seen) :
          /\ ChangeKind(c.seen, n) = "unchanged" <=> NextRoles(c.seen)[n] = c.seen.roles[n]
          /\ ChangeKind(c.seen, n) = "removed"   <=> NextRoles(c.seen)[n] = NoRole
    BY <2>2, MarkedAsApplied
  <2> QED
    BY <2>3, <2>4, <2>5
<1>2. LayoutInv' => OwnChangesDropPreview'
  BY DEF LayoutInv, ShownPast, Present, OwnChangesDropPreview
<1>3. LayoutInv /\ LayoutInv' /\ [LayoutNext]_lvars =>
        [ OwnChangesDropPreview' /\ \A c \in calls : c.kind = "apply" /\ c.phase = "sent" /\ Executed(c) \in calls' =>
            AsShown(c) ]_lvars
  BY <1>1, <1>2
<1> QED
  BY <1>3, LayoutInvariant, PTL DEF LayoutSpec, AppliedAsShown
=============================================================================
