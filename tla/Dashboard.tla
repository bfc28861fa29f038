------------------------------ MODULE Dashboard -------------------------------
(***************************************************************************)
(* What the dashboard and the maintenance page show besides the verdicts   *)
(* of module StorageHealth: the attention panel's other sources            *)
(* (lib/attention.ts), the rises of the nodes' corruption counters and the *)
(* card of each node (routes/index.tsx), and the figures of the            *)
(* maintenance page (lib/maintenance-status.ts).                           *)
(*                                                                         *)
(* The state is StorageHealth's.  The other sources are queries of their   *)
(* own, so each is whatever its last fetch returned of a cluster that is   *)
(* described by what is wrong with it (Worlds); a fetch may fail, also     *)
(* over data that is still there, and a list may be cut short or lack the  *)
(* details of some of its rows.                                            *)
(***************************************************************************)
EXTENDS StorageHealth, LayoutTracker, Sequences

CONSTANTS
  Things,       \* the keys, tokens and buckets of a list
  Counts,       \* the values of a corruption counter
  MaxPolls      \* bound: answers a page sees of one counter

ASSUME DashboardAssumption ==
  IsFiniteSet(Things) /\ Counts \subseteq Nat /\ MaxPolls \in Nat

-----------------------------------------------------------------------------
(* The attention panel's other sources (collectAttentionItems).            *)

\* A react-query result: an error may stand over the data of an earlier fetch.
Results(answers) == [isError : BOOLEAN, data : {{}} \union {{a} : a \in answers}]

\* take, with what its judge says of the data.
Judged(r, says) ==
  IF r.isError THEN {"unknown"}
  ELSE IF r.data = {} THEN {"pending"}
  ELSE UNION says

Whenever(flag, word) == IF flag THEN {word} ELSE {}

HealthStates == {"healthy", "degraded", "unavailable"}

HealthSays(a) == Whenever(a # "healthy", "item")

Staged == [changes : BOOLEAN, parameters : BOOLEAN]

LayoutSays(a) == Whenever(a.changes \/ a.parameters, "item")

\* A key or a token: Garage's own verdict, and the date, which may pass after
\* the list was fetched.
Times == {"past", "thisWeek", "later", "never"}

NeedsAttention(e) == e.expired \/ e.at \in {"past", "thisWeek"}

KeysSay(a) ==
  Whenever(a.truncated, "unknown") \union
  Whenever(\E k \in a.listed : NeedsAttention(a.expiry[k]), "item")

TokensSay(a) == Whenever(\E k \in Things : NeedsAttention(a[k]), "item")

\* A row without its details is in neither of counted and permitted.
BucketsSay(a, consoleKey) ==
  Whenever(a.truncated, "unknown") \union
  Whenever(\E b \in a.listed : b \notin a.counted \/ (consoleKey /\ b \notin a.permitted), "unknown") \union
  Whenever(a.manyUploads # {}, "item") \union
  Whenever(consoleKey /\ a.notGranted # {}, "item")

\* Nothing to show and nothing unknown or to come: the panel's green line.
Quiet(words) == words = {}

-----------------------------------------------------------------------------
(* The cluster behind those answers, and what a list shows of it.           *)

Worlds == [many : SUBSET Things, granted : SUBSET Things]

BucketRow(w, listed, counted, permitted) ==
  [truncated |-> listed # Things, listed |-> listed,
   counted |-> counted, permitted |-> permitted,
   manyUploads |-> counted \intersect w.many,
   notGranted |-> permitted \ w.granted]

BucketLists(w) ==
  UNION {{BucketRow(w, listed, counted, permitted) : counted, permitted \in SUBSET listed} :
           listed \in SUBSET Things}

\* The connection tells whether the console has an S3 key at all.
SourcesSay(buckets, conn) ==
  LET key == ~conn.isError /\ conn.data = {TRUE} IN
  Judged(conn, {}) \union Judged(buckets, {BucketsSay(a, key) : a \in buckets.data})

Expiries == [expired : BOOLEAN, at : Times]

KeyLists(e) == {[truncated |-> listed # Things, listed |-> listed, expiry |-> e] : listed \in SUBSET Things}

-----------------------------------------------------------------------------
(* trackCorruptions: the counter a node reported first since the page was  *)
(* loaded, or since it dropped; an answer without it changes nothing.      *)

RebasesOnAnyDrop(base, report) == IF report = {} THEN base ELSE report

Baseline(base, report) ==
  IF report = {} THEN base
  ELSE IF base = {} \/ (\E v \in report, b \in base : v < b) THEN report
  ELSE base

Baselines(reports) ==
  LET base[i \in 0..Len(reports)] ==
        IF i = 0 THEN {} ELSE Baseline(base[i - 1], reports[i])
  IN  base[Len(reports)]

\* The rise the card and the panel show after the last of these answers.
Rise(reports) ==
  UNION {{v - b : v \in {x \in reports[Len(reports)] : x > b}} : b \in Baselines(reports)}

-----------------------------------------------------------------------------
(* The card of a node (StorageHealthSection, StorageHealthCard).  The      *)
(* section shows cards only while it has the nodes and a healthy answer.   *)

IgnoresAbsence(a, n) == n \in DOMAIN a.nodes /\ a.nodes[n].error

NodeHealthError(a, n) ==
  \/ a.noStats \/ a.noVars
  \/ n \notin DOMAIN a.nodes
  \/ a.nodes[n].error

CardAlert(a, n, live) == n \notin live \/ (n \in DOMAIN a.nodes /\ a.nodes[n].errs = "sick")

QuietCards(live) ==
  IF err THEN {} ELSE
  {n \in Storage : \E a \in shown : ~CardAlert(a, n, live) /\ ~NodeHealthError(a, n)}

-----------------------------------------------------------------------------
(* The figures of the maintenance page.                                    *)

\* summarizeNodeMetric for the resync errors: the nodes that reported them,
\* those that did not, and whether the sum is above zero.
Summary(a, known) ==
  LET nodes == DOMAIN a.nodes \ Skip(known) IN
  [perNode  |-> {n \in nodes : a.nodes[n].errs # "unknown"},
   missing  |-> {n \in nodes : a.nodes[n].errs = "unknown"},
   positive |-> \E n \in nodes : a.nodes[n].errs = "sick"]

\* unavailableCard when no node reported.
MetricTone(s) ==
  IF s.perNode = {} THEN "warning"
  ELSE IF s.positive THEN "danger"
  ELSE IF s.missing # {} THEN "warning"
  ELSE "neutral"

\* staleCard, when the last fetch failed over this answer.
ResyncErrorsTone(a, known) ==
  LET tone == MetricTone(Summary(a, known)) IN
  IF err /\ tone = "neutral" THEN "warning" ELSE tone

BlockErrorsTone(b, known) ==
  IF b.items THEN "danger"
  ELSE IF b.checked \ Skip(known) = {} \/ b.errors \ Skip(known) # {} THEN "warning"
  ELSE "neutral"

-----------------------------------------------------------------------------
(* Properties.                                                             *)

\* The panel's other sources are quiet only about what they saw to be well: a
\* healthy cluster with nothing staged, no expired or expiring token or key, and
\* no key cut off, no bucket with many unfinished uploads, and a console with a
\* key has it granted everywhere.
OtherSourcesEvidenced ==
  /\ \A health \in Results(HealthStates), layout \in Results(Staged) :
       Quiet(Judged(health, {HealthSays(a) : a \in health.data}) \union
             Judged(layout, {LayoutSays(a) : a \in layout.data})) =>
         health.data = {"healthy"} /\ layout.data = {[changes |-> FALSE, parameters |-> FALSE]}
  /\ \A tokens \in Results([Things -> Expiries]) :
       Quiet(Judged(tokens, {TokensSay(a) : a \in tokens.data})) =>
         \A a \in tokens.data, t \in Things : ~a[t].expired /\ a[t].at \in {"later", "never"}
  /\ \A e \in [Things -> Expiries] : \A keys \in Results(KeyLists(e)) :
       Quiet(Judged(keys, {KeysSay(a) : a \in keys.data})) => \A k \in Things : e[k].at \notin {"past", "thisWeek"}
  /\ \A w \in Worlds : \A buckets \in Results(BucketLists(w)), conn \in Results(BOOLEAN) :
       Quiet(SourcesSay(buckets, conn)) =>
         /\ w.many = {}
         /\ conn.data = {TRUE} => w.granted = Things

\* A rise is shown exactly when the last answer is above the lowest seen since
\* the page was loaded, and by that much.
Reports == UNION {[1..k -> {{}} \union {{c} : c \in Counts}] : k \in 1..MaxPolls}

RisesAreNoticed ==
  \A r \in Reports :
    LET seen == UNION {r[i] : i \in DOMAIN r} IN
    Rise(r) = {v - (CHOOSE m \in seen : \A c \in seen : m <= c) :
                 v \in {x \in r[Len(r)] : \E c \in seen : c < x}}

\* What the dashboard shows as well has evidence.  The panel's green line: see
\* ClearPanelIsEvidenced and the two above.  The progress of a layout update: see
\* TrackerIsHonest (module LayoutTracker).  The card of a node without an alert
\* and without an error: that node answered, and did not have resync errors for
\* the whole of the asking; a node missing from the answer is never quiet.
QuietIsEvidenced ==
  /\ ClearPanelIsEvidenced
  /\ OtherSourcesEvidenced
  /\ RisesAreNoticed
  /\ TrackerIsHonest
  /\ \A live \in SUBSET Nodes : \A n \in QuietCards(live) : \A a \in shown :
       n \in DOMAIN a.nodes /\ n \notin a.sick

\* What the maintenance page shows as well has evidence: the recommendation, see
\* OkIsEvidenced; and a figure in its neutral colour, which no node that is known
\* to be unread, and no earlier answer, stands behind.
MaintenanceIsEvidenced ==
  /\ OkIsEvidenced
  /\ \A known \in BOOLEAN : \A a \in shown :
       ResyncErrorsTone(a, known) = "neutral" =>
         /\ ~err
         /\ \E n \in DOMAIN a.nodes : a.nodes[n].errs = "clean"
         /\ \A n \in DOMAIN a.nodes \intersect Storage : a.nodes[n].errs = "clean"
  /\ \A ill \in SUBSET Storage, known \in BOOLEAN, parts \in [Nodes -> Parts] :
       BlockErrorsTone(BlockAnswer(parts, ill), known) = "neutral" =>
         /\ \A n \in ill : parts[n] = "absent"
         /\ \E n \in Nodes : parts[n] = "read"
=============================================================================
