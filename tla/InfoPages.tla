------------------------------ MODULE InfoPages -------------------------------
(***************************************************************************)
(* A bucket or key list from the start: listAllInfo (backend/              *)
(* list_enrich.go) asks a Garage that has ListBucketsInfo and ListKeysInfo *)
(* page by page; on one that has not, the list goes on as in ListCache.    *)
(*                                                                         *)
(* Garage's offset is the id of the first entry to return, so every page   *)
(* after the first is expected to begin with the last entry of the page    *)
(* before; yet entries are created and deleted between two pages.          *)
(***************************************************************************)
EXTENDS ListCache, Functions

CONSTANTS
  Ids,         \* of the entries, in the order of Garage's list
  PageLimit,   \* infoPageLimit
  MaxPages     \* infoMaxPages

NoOffset == 0

ASSUME PagesAssumption ==
  /\ Ids \subseteq Nat \ {NoOffset} /\ IsFiniteSet(Ids)
  /\ PageLimit \in Nat /\ PageLimit > 1
  /\ MaxPages \in Nat \ {0}

VARIABLES
  world,    \* the entries Garage has
  walk,     \* what listAllInfo collected, where it goes on, how it ended
  stayed    \* history: the entries that exist ever since the walk began

ivars == <<world, walk, stayed>>

Started == [all |-> <<>>, offset |-> NoOffset, pages |-> 0, end |-> "none"]

Walking == walk.end = "none"

InfoInit == Init /\ world \in SUBSET Ids /\ stayed = world /\ walk = Started

-----------------------------------------------------------------------------
(* Other operators.                                                         *)

Created(i) ==
  /\ Walking /\ i \notin world
  /\ world' = world \cup {i}
  /\ UNCHANGED <<walk, stayed, vars>>

Deleted(i) ==
  /\ Walking /\ i \in world
  /\ world' = world \ {i} /\ stayed' = stayed \ {i}
  /\ UNCHANGED <<walk, vars>>

-----------------------------------------------------------------------------
(* listAllInfo.                                                             *)

Increasing(s) == \A j, k \in DOMAIN s : j < k => s[j] < s[k]

\* What Garage answers: the first entries from the offset on.
Page(offset) ==
  LET later == {i \in world : i >= offset}
  IN  CHOOSE s \in UNION {[1..k -> later] : k \in 0..PageLimit} :
        /\ Increasing(s)
        /\ \A i \in later \ Range(s) : Len(s) = PageLimit /\ \A k \in DOMAIN s : s[k] < i

DropsAlways(items, offset) == IF offset = NoOffset \/ items = <<>> THEN items ELSE Tail(items)

DropsNever(items, offset) == items

\* The overlap is dropped if it is there.
WithoutOverlap(items, offset) ==
  IF offset # NoOffset /\ items # <<>> /\ items[1] = offset THEN Tail(items) ELSE items

\* The place of the first entry that was seen before, 0 if there is none.
Repeats(items) ==
  LET again == {k \in DOMAIN items : items[k] \in Range(walk.all)}
  IN  IF again = {} THEN 0 ELSE CHOOSE k \in again : \A j \in again : k <= j

Last(s) == s[Len(s)]

ListInfoPage ==
  LET page   == Page(walk.offset)
      items  == WithoutOverlap(page, walk.offset)
      repeat == Repeats(items)
      all    == walk.all \o (IF repeat = 0 THEN items ELSE SubSeq(items, 1, repeat - 1))
      pages  == walk.pages + 1
      end    == IF repeat # 0 THEN "truncated"
                ELSE IF Len(page) < PageLimit \/ items = <<>> THEN "whole"
                ELSE IF Last(all) = walk.offset \/ pages = MaxPages THEN "truncated"
                ELSE "none"
  IN
  /\ Walking
  /\ walk' = [all |-> all, pages |-> pages, end |-> end,
              offset |-> IF end = "none" THEN Last(all) ELSE walk.offset]
  /\ UNCHANGED <<world, stayed, vars>>

\* "Unknown API endpoint", or, for the first page only, a 400, a 404 or a body
\* that is no list (isUnknownEndpoint): remembered, and the list falls back.
Unsupported ==
  /\ Walking /\ walk' = [Started EXCEPT !.end = "unsupported"]
  /\ UNCHANGED <<world, stayed, vars>>

\* Any other error, and those for a later page.
PageFails ==
  /\ Walking /\ walk' = [Started EXCEPT !.end = "error"]
  /\ UNCHANGED <<world, stayed, vars>>

-----------------------------------------------------------------------------
\* The lists of ListCache follow a walk of nothing: one of other entries that
\* finds the endpoint missing goes on in the same way.
FallsBack == walk.end = "unsupported" /\ world = {} /\ stayed = {}

InfoNext ==
  \/ \E i \in Ids : Created(i) \/ Deleted(i)
  \/ ListInfoPage \/ Unsupported \/ PageFails
  \/ FallsBack /\ Next /\ UNCHANGED ivars

InfoSpec == InfoInit /\ [][InfoNext]_<<vars, ivars>>

-----------------------------------------------------------------------------
(* Properties *)

\* A list that is not called truncated has every entry that existed as long as
\* it was paged, whatever was created and deleted between the pages, and none
\* twice; and it is called truncated only when the page cap was hit: losing the
\* entry that a page should begin with neither ends the walk nor costs another.
PagesAreWhole ==
  /\ walk.end = "whole" => stayed \subseteq Range(walk.all)
  /\ IsInjective(walk.all)
  /\ walk.end = "truncated" =>
       walk.pages = MaxPages /\ Len(walk.all) > MaxPages * (PageLimit - 1)

\* The inductive invariant behind PagesAreWhole: the walk collected, in order,
\* at least what exists ever since up to the place where it goes on, and every
\* page brought all but the entry that it may share with the page before.
WalkInv ==
  /\ world \subseteq Ids /\ stayed \subseteq world
  /\ walk \in [all : Seq(Ids), offset : Ids \union {NoOffset}, pages : Nat,
               end : {"none", "whole", "truncated", "unsupported", "error"}]
  /\ Increasing(walk.all)
  /\ Walking =>
       /\ walk.all = <<>> <=> walk.pages = 0
       /\ walk.offset = IF walk.all = <<>> THEN NoOffset ELSE Last(walk.all)
       /\ \A i \in stayed : i <= walk.offset => i \in Range(walk.all)
       /\ walk.pages > 0 => Len(walk.all) > walk.pages * (PageLimit - 1)
  /\ walk.end = "whole" => stayed \subseteq Range(walk.all)
  /\ walk.end = "truncated" =>
       walk.pages = MaxPages /\ Len(walk.all) > MaxPages * (PageLimit - 1)
=============================================================================
