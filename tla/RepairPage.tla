------------------------------ MODULE RepairPage ------------------------------
(***************************************************************************)
(* A repair launched from the console: the maintenance page (all nodes,    *)
(* routes/repair.tsx) and the page of a node (routes/nodes.$id.tsx) in     *)
(* front of the guard of module RepairGuard.                               *)
(*                                                                         *)
(* The pages poll the health, the roles and the workers, and enable the    *)
(* button of a destructive repair only when evaluateRepairGuard has no     *)
(* reason against it.  Polling pauses in a background tab, so what enabled *)
(* the button says nothing of the cluster now: when the operator confirms, *)
(* assertRepairAllowed fetches the three again and judges those, and only  *)
(* then is the request sent, for the backend to ask once more.             *)
(*                                                                         *)
(* The backend answers the page's three questions with the calls the guard *)
(* itself makes, so the page's re-check is a second asking phase, instance *)
(* Check, with answers of its own.  It differs where react-query does: a   *)
(* failed fetch of the roles leaves the earlier roles in place.  What a    *)
(* page holds from earlier is any answer.                                  *)
(***************************************************************************)
EXTENDS RepairGuard

VARIABLES
  cpc, cbody,                            \* where the confirmed repair is, and what it is
  chealth, cstatus, cworkers, clisting,  \* what the re-check's fetches returned
  cunfit, cheld, cbad                    \* the history of RepairGuard, since the
                                         \* operator confirmed

Check == INSTANCE RepairGuard
           WITH pc <- cpc, body <- cbody, health <- chealth, status <- cstatus,
                workers <- cworkers, listing <- clisting,
                unfit <- cunfit, held <- cheld, bad <- cbad

guardVars == <<pc, body, avars, hvars>>
pageVars  == <<cpc, cbody, chealth, cstatus, cworkers, clisting, cunfit, cheld, cbad>>
pvars     == <<vars, pageVars>>

PageInit == Init /\ Check!Init

\* REPAIR_OPERATIONS and SCRUB_COMMANDS: what the pages offer, and which of it
\* isDestructiveRepair.
Offered == {"destructive", "other"}

-----------------------------------------------------------------------------
(* The re-check (refetchGuardInputs, assertRepairAllowed).                  *)

ConfirmOnSnapshot(b) ==
  /\ pc = "idle" /\ cpc = "idle"
  /\ cpc' = "forward" /\ cbody' = b
  /\ cunfit' = IF b = "destructive" THEN {n \in Nodes : Holds(role[n]) /\ ~Fit(up[n], busy[n])} ELSE {}
  /\ UNCHANGED <<cvars, guardVars, chealth, cstatus, cworkers, clisting, cheld, cbad>>

\* The operator confirms the dialog.  The re-check is part of the mutation: the
\* dialog waits for it, and one repair is in the making at a time.
Confirm(b) ==
  /\ pc = "idle" /\ Check!Arrive(b)
  /\ UNCHANGED guardVars

\* The refetch of the health or of the workers fails: fetchState is "error",
\* whatever data is left from before.
RefetchFails == Check!HealthUnknown \/ Check!ListingFails

\* The refetch of the roles fails: guardInputsFrom looks at the data only, and
\* that is still what an earlier fetch returned.
RolesStay(old) ==
  /\ cpc = "asking" /\ cstatus.st = Asked
  /\ cstatus' = [st |-> "stale", roles |-> old]
  /\ UNCHANGED <<cvars, cpc, cbody, chealth, cworkers, clisting, cunfit, cheld, cbad>>

Refetched ==
  \/ Check!HealthAnswers \/ Check!StatusAnswers
  \/ \E n \in Nodes : Check!NodeAnswers(n) \/ Check!NodeSilent(n)
  \/ RefetchFails
  \/ \E old \in [Nodes -> Roles] : RolesStay(old)

-----------------------------------------------------------------------------
(* evaluateRepairGuard.                                                     *)

\* isStorageNode.
StorageIds == {n \in Nodes : Holds(cstatus.roles[n])}

Answered == {n \in Nodes : cworkers[n].st = "answered"}

\* TABLE_SYNC_WORKERS: Merkle and insert-queue workers are busy under load.
Syncing == {n \in Answered : "sync" \in cworkers[n].busy}

NotKnown == chealth.st = "failed" \/ clisting = "failed"

Degraded == chealth.down \/ chealth.short

Refuses ==
  NotKnown \/ Degraded \/ ~(StorageIds \subseteq Answered) \/ StorageIds \intersect Syncing # {}

\* Promise.all: the three fetches are back.
Recheck ==
  /\ cpc = "asking" /\ Check!AllReturned
  /\ cpc' = IF Refuses THEN "conflict" ELSE "forward"
  /\ UNCHANGED <<cvars, guardVars, cbody, chealth, cstatus, cworkers, clisting, cunfit, cheld, cbad>>

\* launchRepair, launchNodeRepair: the request reaches the guard.
Send ==
  /\ cpc = "forward" /\ Arrive(cbody)
  /\ cpc' = "idle" /\ cbody' = "none"
  /\ chealth' = [st |-> Asked, down |-> FALSE, short |-> FALSE]
  /\ cstatus' = [st |-> Asked, roles |-> [n \in Nodes |-> "none"]]
  /\ cworkers' = [n \in Nodes |-> [st |-> Asked, busy |-> {}]]
  /\ clisting' = "on"
  /\ cunfit' = {} /\ cheld' = {} /\ cbad' = {}

-----------------------------------------------------------------------------
\* A caller other than the pages goes straight to the guard; and nothing else
\* is asked while the page's re-check is.
PageNext ==
  \/ \E b \in Offered : Confirm(b)
  \/ (Refetched \/ Check!Cluster) /\ UNCHANGED guardVars
  \/ Recheck
  \/ Send
  \/ cpc = "idle" /\ Next /\ UNCHANGED pageVars

PageSpec == PageInit /\ [][PageNext]_pvars

-----------------------------------------------------------------------------
(* Properties *)

\* A page sends a destructive repair only when the cluster was fit for it: no
\* node it takes for a storage node was down or syncing from before the
\* operator confirmed until the request was sent, however old the polled
\* answers that enabled the button; and unless the roles could not be fetched,
\* no storage node at all.
PageAsksOnlyWhenFit ==
  cpc = "forward" /\ cbody = "destructive" =>
    /\ cunfit \intersect StorageIds = {}
    /\ cstatus.st # "stale" => cunfit = {}

\* The inductive invariant behind it: nothing reaches the guard while the page
\* asks; before the fetches nothing is held of them; and each that is back tells
\* of every node that has been out of step throughout.
PageTypes ==
  /\ role \in [Nodes -> Roles] /\ up \in [Nodes -> BOOLEAN] /\ busy \in [Nodes -> SUBSET Kinds]
  /\ cpc \in {"idle", "asking", "conflict", "forward"} /\ cbody \in Offered \cup {"none"}
  /\ cstatus \in [st : {Asked, "ok", "stale"}, roles : [Nodes -> Roles]]
  /\ cworkers \in [Nodes -> [st : {Asked, "answered", "silent"}, busy : SUBSET Kinds]]
  /\ cunfit \subseteq Nodes

PageSeen ==
  /\ cpc \in {"asking", "forward"} => pc = "idle" /\ cbody \in Offered
  /\ cpc = "idle" => cstatus.st = Asked /\ \A n \in Nodes : cworkers[n].st = Asked
  /\ cpc = "asking" =>
       \A n \in cunfit :
         /\ Holds(role[n]) /\ ~Fit(up[n], busy[n])
         /\ cstatus.st = "ok" => Holds(cstatus.roles[n])
         /\ cworkers[n].st = "answered" => "sync" \in cworkers[n].busy

PageInv == PageTypes /\ PageSeen /\ PageAsksOnlyWhenFit
=============================================================================
