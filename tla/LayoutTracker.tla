---------------------------- MODULE LayoutTracker -----------------------------
(***************************************************************************)
(* The progress of a layout update, on the layout page and as a banner on  *)
(* the dashboard, and the dialog that forces a stuck one                   *)
(* (components/layout-update-tracker.tsx).                                 *)
(*                                                                         *)
(* Garage keeps every layout version that some node still needs; while     *)
(* more than one is live it reports, per node, the newest version the node *)
(* has acknowledged (ack), copied the metadata for (sync), and seen the    *)
(* others finish (syncAck).  A history is what one fetch returned of that. *)
(***************************************************************************)
EXTENDS Naturals, FiniteSetsExt

CONSTANTS
  Tracked,      \* the nodes
  Versions      \* the layout versions

ASSUME TrackerAssumption == IsFiniteSet(Tracked) /\ IsFiniteSet(Versions) /\ Versions \subseteq Nat

Steps == <<"ack", "sync", "syncAck">>

Reached == [{"ack", "sync", "syncAck"} -> Versions]

\* live: the versions that are not historical; the newest is the current one,
\* and there are trackers only while an older one is live too.
Histories ==
  {h \in [live : SUBSET Versions \ {{}}, trackers : UNION {[N -> Reached] : N \in SUBSET Tracked}] :
     DOMAIN h.trackers # {} => Cardinality(h.live) > 1}

CurrentVersion(h) == Max(h.live)

\* A role stores data unless it is a gateway's.
RoleMaps == UNION {[N -> {"storage", "gateway"}] : N \in SUBSET Tracked}

-----------------------------------------------------------------------------
(* computeSteps, given the roles of the current layout.                    *)

IsUpdateInFlight(h) == DOMAIN h.trackers # {}

EveryoneCounts(step, h, roles) == DOMAIN h.trackers

\* Gateways sync nothing, and a node without a role only acknowledges.
Population(step, h, roles) ==
  CASE step = "ack"     -> DOMAIN h.trackers
    [] step = "sync"    -> {n \in DOMAIN h.trackers \intersect DOMAIN roles : roles[n] = "storage"}
    [] step = "syncAck" -> DOMAIN h.trackers \intersect DOMAIN roles

Progress(step, h, roles) ==
  {n \in Population(step, h, roles) : h.trackers[n][step] >= CurrentVersion(h)}

Done(step, h, roles) == Progress(step, h, roles) = Population(step, h, roles)

StepState(i, h, roles) ==
  IF Done(Steps[i], h, roles) THEN "completed"
  ELSE IF i = 1 \/ Done(Steps[i - 1], h, roles) THEN "inprogress"
  ELSE "waiting"

\* What the tracker shows of a query result r, as the dashboard's banner or not.
Banner(r, compact) ==
  IF r.isError THEN "error"
  ELSE IF r.data = {} THEN "nothing"
  ELSE IF \A h \in r.data : ~IsUpdateInFlight(h) THEN IF compact THEN "nothing" ELSE "everywhere"
  ELSE "steps"

-----------------------------------------------------------------------------
(* ForceUpdateDialog.                                                      *)

\* The versions after the oldest live one.
SkipTargets(h) == {v \in h.live : v > Min(h.live) /\ v <= CurrentVersion(h)}

SelectedAlways(selected, targets) == selected

\* The version shown and sent: the selected one while it is a target.
ForceVersion(selected, targets) ==
  IF selected # {} /\ selected \subseteq targets THEN selected
  ELSE IF targets = {} THEN {} ELSE {Max(targets)}

\* Garage skips to versions newer than its oldest, up to the current one.
Accepted(h) == {v \in Versions : v > Min(h.live) /\ v <= Max(h.live)}

-----------------------------------------------------------------------------
(* Properties.                                                             *)

\* While an update waits for someone, some step is shown in progress; and once
\* every node has gone as far as its role takes it, all three are completed: no
\* step waits for a node that will never take it.
StepsAreHonest ==
  \A h \in {x \in Histories : IsUpdateInFlight(x)}, roles \in RoleMaps :
    LET states == {StepState(i, h, roles) : i \in 1..3}
        There(n, step) == h.trackers[n][step] >= CurrentVersion(h)
    IN
    /\ states # {"completed"} => "inprogress" \in states
    /\ (\A n \in DOMAIN h.trackers :
          /\ There(n, "ack")
          /\ n \in DOMAIN roles => There(n, "syncAck")
          /\ n \in DOMAIN roles /\ roles[n] = "storage" => There(n, "sync"))
         <=> states = {"completed"}

\* The page says that a layout is everywhere, and the dashboard nothing, only
\* of an answer that no error stands over and that has no update in flight.
BannerIsEvidenced ==
  \A isError \in BOOLEAN, data \in {{}} \union {{h} : h \in Histories}, compact \in BOOLEAN :
    Banner([isError |-> isError, data |-> data], compact) \in {"nothing", "everywhere"} =>
      /\ ~isError
      /\ \A h \in data : h.trackers = [n \in {} |-> Versions]

\* The versions polled under an open dialog may change: what is shown and sent
\* is always a version that Garage takes, and the selected one while that is.
ForceIsAccepted ==
  \A before, after \in {h \in Histories : ~IsUpdateInFlight(h)} :
    \A selected \in {{}} \union {{v} : v \in SkipTargets(before)} :
      LET version == ForceVersion(selected, SkipTargets(after)) IN
      /\ version \subseteq Accepted(after)
      /\ version = {} => Accepted(after) \intersect after.live = {}
      /\ selected \subseteq Accepted(after) \intersect after.live /\ selected # {} => version = selected

\* What the tracker shows and sends.
TrackerIsHonest == StepsAreHonest /\ BannerIsEvidenced /\ ForceIsAccepted
=============================================================================
