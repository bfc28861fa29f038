----------------------------- MODULE LayoutEdit -----------------------------
(***************************************************************************)
(* The layout page (frontend/src/routes/layout.tsx, lib/layout-draft.ts):  *)
(* one operator edits the roles of the nodes, stages them, previews the    *)
(* staged set and applies or reverts it, while other operators of the same *)
(* cluster do the same.  The handlers of backend/handler_cluster.go pass   *)
(* every request to Garage unchanged, so Garage's layout is the only state *)
(* behind the page.                                                        *)
(*                                                                         *)
(* The page shows the layout it fetched last, and its forms and dialogs    *)
(* outlive refetches.  Its mutations are those of react-query: a mutation  *)
(* that was reset, or sent again, is no longer watched, yet it goes on,    *)
(* and so does the promise the dialog waits for.                           *)
(***************************************************************************)
EXTENDS Integers, FiniteSetsExt

CONSTANTS
  Members,
  NoNode,
  Zones,       \* the texts of zones, the empty one included
  Trim,        \* Trim[z]: the text z without the blanks around it
  TypedZones,  \* what the operator types into a zone
  TagLists,    \* the lists of tags of roles
  TagTexts,    \* the texts of the tags field
  TagText,     \* TagText[t]: the tags t joined by commas
  ParseTags,   \* ParseTags[x]: the parts of x between commas, trimmed, the empty ones left out
  TypedTags,   \* what the operator types into the tags
  Redundancies,
  Invalid,     \* a redundancy typed that is not a positive number
  GiB,         \* bytes in a GiB
  Typed,       \* the capacities the operator types, in GiB, or Blank
  OtherRoles,  \* the roles the other operators stage
  InitRoles, InitStaged, InitRedundancy,
  MaxEdits, MaxCalls, MaxOthers  \* bounds: edits of one form, mutations sent,
                                 \* what the other operators do

\* The empty capacity field, and the capacity of a gateway (null in Garage).
Blank   == -1
Gateway == 0

\* The empty zone field.
NoZone == ""

NoRole == [zone |-> NoZone, tags |-> <<>>, cap |-> Gateway]

NodeRoles == [zone : Zones, tags : TagLists, cap : Nat]

ASSUME LayoutAssumption ==
  /\ IsFiniteSet(Members) /\ NoNode \notin Members
  /\ NoZone \in Zones /\ TypedZones \subseteq Zones
  /\ Trim \in [Zones -> Zones] /\ Trim[NoZone] = NoZone
  /\ <<>> \in TagLists /\ TypedTags \subseteq TagTexts
  /\ TagText \in [TagLists -> TagTexts] /\ ParseTags \in [TagTexts -> TagLists]
  /\ GiB \in Nat \ {0} /\ Typed \subseteq Int
  /\ OtherRoles \subseteq NodeRoles /\ InitRoles \in [Members -> NodeRoles]
  /\ DOMAIN InitStaged \subseteq Members /\ InitStaged \in [DOMAIN InitStaged -> OtherRoles]
  /\ \A n \in DOMAIN InitStaged : InitStaged[n] \in OtherRoles \ {InitRoles[n]}
  /\ InitRedundancy \in Redundancies /\ Invalid \notin Redundancies
  /\ MaxEdits \in Nat /\ MaxCalls \in Nat /\ MaxOthers \in Nat

VARIABLES
  garage,   \* Garage's layout
  data,     \* what the page shows of it
  fetch,    \* the answer of GetClusterLayout that is on its way, if any
  stale,    \* data was invalidated and not fetched since
  form,     \* the edit form: what it was filled from (none when closed), its
            \* rows, its redundancy
  edited,   \* history: the fields the operator edited in it
  calls,    \* the mutations in flight
  watched,  \* which of them the page watches, per kind
  sent,     \* counter of MaxCalls
  preview,  \* the layout the shown preview was computed from, if any
  dialog,   \* the open confirmation and the node it is about
  others    \* counter of MaxOthers

lvars == <<garage, data, fetch, stale, form, edited, calls, watched, sent,
          preview, dialog, others>>

CallKinds   == {"stage", "preview", "apply", "revert", "node"}
Dialogs == {"apply", "revert", "node"}

-----------------------------------------------------------------------------
(* Garage.  staged holds the nodes whose staged role differs from the      *)
(* applied one, stagedZr a staged redundancy; foreign counts the changes   *)
(* the operator was not told of (history).                                 *)

Stage(l, roles, zr) ==
  LET all == [n \in DOMAIN l.staged \union DOMAIN roles |->
                IF n \in DOMAIN roles THEN roles[n] ELSE l.staged[n]]
  IN [l EXCEPT !.staged   = [n \in {m \in DOMAIN all : all[m] # l.roles[m]} |-> all[n]],
               !.stagedZr = IF zr = {} THEN @ ELSE zr \ {l.zr}]

NextRoles(l) == [n \in Members |-> IF n \in DOMAIN l.staged THEN l.staged[n] ELSE l.roles[n]]
NextZr(l)    == IF l.stagedZr = {} THEN l.zr ELSE CHOOSE z \in l.stagedZr : TRUE

Unstaged(l) == [l EXCEPT !.staged = [n \in {} |-> NoRole], !.stagedZr = {}]

Applied(l) ==
  Unstaged([l EXCEPT !.version = @ + 1, !.roles = NextRoles(l), !.zr = NextZr(l)])

Foreign(l) == [l EXCEPT !.foreign = @ + 1]

-----------------------------------------------------------------------------
(* The rows of the form.                                                   *)

HasStaged(l) == DOMAIN l.staged # {} \/ l.stagedZr # {}

\* The string "capacity in GiB", rounded (to tenths here, hundredths there).
ToGiB(cap) == IF cap = Gateway THEN Blank ELSE (2 * cap + GiB) \div (2 * GiB)

WasRemoved(l, n) == NextRoles(l)[n] = NoRole /\ l.roles[n] # NoRole

\* The role a row is filled from: a row staged for removal shows the applied one.
Source(l, n) == IF WasRemoved(l, n) THEN l.roles[n] ELSE NextRoles(l)[n]

RowOf(l, n) == [zone   |-> Source(l, n).zone,
                tags   |-> TagText[Source(l, n).tags],
                gib    |-> ToGiB(Source(l, n).cap),
                remove |-> WasRemoved(l, n)]

\* The texts of the row are the ones it was filled with.
Untouched(l, n, row) == \A field \in {"zone", "tags", "gib"} : row[field] = RowOf(l, n)[field]

KeepsCapacity(l, n, row) == row.gib = RowOf(l, n).gib /\ Source(l, n).cap # Gateway

\* The capacity of a reader who parses the rounded field.
Reparsed(l, n, row) == IF row.gib = Blank THEN Gateway ELSE row.gib * GiB

CapacityOf(l, n, row) ==
  IF KeepsCapacity(l, n, row) THEN Source(l, n).cap
  ELSE IF row.gib = Blank THEN Gateway ELSE row.gib * GiB

NoRoleAtAll(l, n) == l.roles[n] = NoRole /\ NextRoles(l)[n] = NoRole

NamesNoZone(row) == Trim[row.zone] = NoZone

\* draftToChange: rows that stage nothing, and rows that are refused.
Nothing(l, n, row) ==
  IF row.remove
  THEN WasRemoved(l, n) \/ l.roles[n] = NoRole
  ELSE \/ Untouched(l, n, row) /\ ~WasRemoved(l, n)
       \/ NamesNoZone(row) /\ (Untouched(l, n, row) \/ NoRoleAtAll(l, n))

Refused(l, n, row) ==
  /\ ~row.remove
  /\ ~(Untouched(l, n, row) /\ (~WasRemoved(l, n) \/ NamesNoZone(row)))
  /\ \/ ~KeepsCapacity(l, n, row) /\ row.gib # Blank /\ row.gib <= 0
     \/ NamesNoZone(row) /\ ~NoRoleAtAll(l, n)

\* Whatever of the row was edited, its zone is trimmed and its tags are read from
\* their text.
ChangeOf(l, n, row) ==
  IF row.remove THEN NoRole
  ELSE [zone |-> Trim[row.zone], tags |-> ParseTags[row.tags], cap |-> CapacityOf(l, n, row)]

-----------------------------------------------------------------------------
(* What the page says of a layout it shows: the rows of the current roles, *)
(* each with what is staged for it, and the totals before and after.       *)

RoleRows(l) == {n \in Members : l.roles[n] # NoRole}

ChangeKind(l, n) ==
  IF l.roles[n] # NoRole /\ NextRoles(l)[n] = NoRole THEN "removed"
  ELSE IF n \in DOMAIN l.staged THEN "changed"
  ELSE "unchanged"

TotalsOf(roles) ==
  LET assigned == {n \in Members : roles[n] # NoRole} IN
  [assigned |-> Cardinality(assigned),
   zones    |-> Cardinality({roles[n].zone : n \in assigned}),
   capacity |-> MapThenSumSet(LAMBDA n : roles[n].cap, assigned)]

StagedOnTop(l) == TotalsOf([n \in Members |-> IF n \in DOMAIN l.staged /\ l.staged[n] # NoRole
                                             THEN l.staged[n] ELSE l.roles[n]])

TotalsAfter(l) == TotalsOf(NextRoles(l))

-----------------------------------------------------------------------------
NoRow  == [zone |-> NoZone, tags |-> TagText[<<>>], gib |-> Blank, remove |-> FALSE]
NoForm == [base |-> {}, rows |-> [n \in Members |-> NoRow], zr |-> InitRedundancy]
Closed == [kind |-> "none", node |-> NoNode]

LayoutInit ==
  /\ garage = [version |-> 1, roles |-> InitRoles, zr |-> InitRedundancy,
               staged |-> InitStaged, stagedZr |-> {}, foreign |-> 0]
  /\ data = garage /\ fetch = {} /\ stale = FALSE
  /\ form = NoForm /\ edited = {}
  /\ calls = {} /\ watched = [k \in CallKinds |-> 0] /\ sent = 0
  /\ preview = {} /\ dialog = Closed
  /\ others = 0

Editing    == form.base # {}
Pending(k) == \E c \in calls : c.id = watched[k]
Free       == dialog = Closed   \* dialogs are modal

-----------------------------------------------------------------------------
(* Fetching.  A layout query that is running when it is invalidated starts *)
(* again; when Garage answers it is taken from then on.  (A fetch that     *)
(* brings what the page already shows changes nothing and is left out.)    *)

GarageReads ==
  /\ fetch = {} /\ (stale \/ garage # data)
  /\ fetch' = {garage}
  /\ UNCHANGED <<garage, data, stale, form, edited, calls, watched, sent, preview, dialog, others>>

FetchLands ==
  /\ fetch # {}
  /\ data' \in fetch /\ fetch' = {} /\ stale' = FALSE
  /\ UNCHANGED <<garage, form, edited, calls, watched, sent, preview, dialog, others>>

FetchFails ==
  /\ fetch # {} /\ fetch' = {}
  /\ UNCHANGED <<garage, data, stale, form, edited, calls, watched, sent, preview, dialog, others>>

-----------------------------------------------------------------------------
(* The form.                                                               *)

StartEditing ==
  /\ ~Editing /\ Free
  /\ form' = [base |-> {data}, rows |-> [n \in Members |-> RowOf(data, n)], zr |-> NextZr(data)]
  /\ edited' = {}
  /\ UNCHANGED <<garage, data, fetch, stale, calls, watched, sent, preview, dialog, others>>

EditRow(n, field, value) ==
  /\ Editing /\ Cardinality(edited) < MaxEdits
  /\ \A l \in form.base : field = "remove" => ~NoRoleAtAll(l, n)
  /\ form.rows[n].remove => field = "remove"
  /\ form.rows[n][field] # value
  /\ form' = [form EXCEPT !.rows[n][field] = value]
  /\ edited' = edited \union {<<n, field>>}
  /\ UNCHANGED <<garage, data, fetch, stale, calls, watched, sent, preview, dialog, others>>

UpdateDraft ==
  \E n \in Members :
    \/ \E z \in TypedZones : EditRow(n, "zone", z)
    \/ \E x \in TypedTags  : EditRow(n, "tags", x)
    \/ \E g \in Typed      : EditRow(n, "gib", g)
    \/ \E r \in BOOLEAN    : EditRow(n, "remove", r)

EditRedundancy(z) ==
  /\ Editing /\ Cardinality(edited) < MaxEdits /\ form.zr # z
  /\ form' = [form EXCEPT !.zr = z]
  /\ edited' = edited \union {<<NoNode, "zr">>}
  /\ UNCHANGED <<garage, data, fetch, stale, calls, watched, sent, preview, dialog, others>>

CancelEditing ==
  /\ Editing /\ form' = NoForm /\ edited' = {}
  /\ UNCHANGED <<garage, data, fetch, stale, calls, watched, sent, preview, dialog, others>>

-----------------------------------------------------------------------------
(* Mutations.  seen is the layout the page showed when it was sent (for a  *)
(* preview: the layout it was computed from); calm says that no change of  *)
(* the operator's own was unsettled then (history).                        *)

Calm == ~stale /\ \A c \in calls : c.kind = "preview"

NoChange == [n \in {} |-> NoRole]

\* A preview takes the place of the last result of applying.
Watching(kind) ==
  [watched EXCEPT !["apply"] = IF kind = "preview" THEN 0 ELSE @, ![kind] = sent + 1]

SendCall(kind, roles, zr) ==
  /\ sent < MaxCalls /\ ~Pending(kind)
  /\ sent' = sent + 1
  /\ watched' = Watching(kind)
  /\ calls' = calls \union {[id |-> sent + 1, kind |-> kind, phase |-> "sent", roles |-> roles,
                             zr |-> zr, seen |-> data, calm |-> Calm]}
  /\ UNCHANGED <<garage, data, fetch, stale, form, edited, others>>

\* submitStage.  The rows are compared with what the form was filled from, the
\* redundancy with what the page shows now.
SubmitStage ==
  \E l \in form.base :
    LET changed == {n \in Members : ~Nothing(l, n, form.rows[n])}
        zr      == {form.zr} \ {NextZr(data)}
    IN
    /\ \A n \in Members : ~Refused(l, n, form.rows[n])
    /\ form.zr # Invalid
    /\ changed # {} \/ zr # {}
    /\ SendCall("stage", [n \in changed |-> ChangeOf(l, n, form.rows[n])], zr)
    /\ UNCHANGED <<preview, dialog>>

PreviewStaged ==
  /\ ~Editing /\ Free /\ HasStaged(data)
  /\ SendCall("preview", NoChange, {})
  /\ preview' = {} /\ UNCHANGED dialog

-----------------------------------------------------------------------------
(* ConfirmDialog.                                                          *)

Open(kind, n) ==
  /\ ~Editing /\ Free
  /\ IF kind = "node" THEN n \in DOMAIN data.staged ELSE n = NoNode /\ HasStaged(data)
  /\ dialog' = [kind |-> kind, node |-> n]
  /\ UNCHANGED <<garage, data, fetch, stale, form, edited, calls, watched, sent, preview, others>>

CanDismiss(kind) == ~Pending(kind)

Dismiss ==
  /\ ~Free /\ CanDismiss(dialog.kind)
  /\ dialog' = Closed
  /\ UNCHANGED <<garage, data, fetch, stale, form, edited, calls, watched, sent, preview, others>>

RevertBySource(l, n) == Source(l, n)

\* revertChangeFor: staging the applied role again makes the entry disappear.
RevertChange(l, n) == l.roles[n]

ConfirmAll ==
  /\ dialog.kind \in {"apply", "revert"} /\ SendCall(dialog.kind, NoChange, {})
  /\ UNCHANGED <<preview, dialog>>

ConfirmNode ==
  /\ dialog.kind = "node" /\ ~Pending("node")
  /\ IF dialog.node \in DOMAIN data.staged
     THEN /\ SendCall("node", [n \in {dialog.node} |-> RevertChange(data, n)], {})
          /\ UNCHANGED dialog
     ELSE /\ dialog' = Closed
          /\ UNCHANGED <<garage, data, fetch, stale, form, edited, calls, watched, sent, others>>
  /\ UNCHANGED preview

-----------------------------------------------------------------------------
(* Garage executes a request, then the answer arrives or an error does.    *)

Accepted(c) == c.kind = "apply" => c.seen.version = garage.version

Executed(c) == [c EXCEPT !.phase = "done", !.seen = IF c.kind = "preview" THEN garage ELSE @]

Execute(c) ==
  /\ c.phase = "sent" /\ Accepted(c)
  /\ calls' = (calls \ {c}) \union {Executed(c)}
  /\ garage' = CASE c.kind \in {"stage", "node"} -> Stage(garage, c.roles, c.zr)
                 [] c.kind = "apply"   -> Applied(garage)
                 [] c.kind = "revert"  -> Unstaged(garage)
                 [] c.kind = "preview" -> garage
  /\ UNCHANGED <<data, fetch, stale, form, edited, watched, sent, preview, dialog, others>>

\* An error answer: Garage refused, or the answer (or the request) was lost.
\* No onError of the page does more than show it, and the dialog stays.
CallFails(c) ==
  /\ calls' = calls \ {c}
  /\ garage' = IF c.phase = "done" /\ c.kind # "preview" THEN Foreign(garage) ELSE garage
  /\ UNCHANGED <<data, fetch, stale, form, edited, watched, sent, preview, dialog, others>>

KeepsPreview == stale' = TRUE /\ fetch' = {} /\ UNCHANGED preview
KeepsLayout  == UNCHANGED <<stale, fetch>> /\ preview' = {}

\* invalidate(): the layout is fetched again and the preview is reset.
Invalidate == stale' = TRUE /\ fetch' = {} /\ preview' = {}

\* What a success resets besides the preview: applyMutation is reset by
\* whatever changes the staged set.
Resets(c) == [watched EXCEPT !["preview"] = 0,
                             !["apply"] = IF c.kind = "apply" THEN @ ELSE 0]

PreviewAnswers(c) ==
  /\ c.kind = "preview" /\ c.phase = "done"
  /\ calls' = calls \ {c}
  /\ preview' = IF watched["preview"] = c.id THEN {c.seen} ELSE preview
  /\ UNCHANGED <<garage, data, fetch, stale, form, edited, watched, sent, dialog, others>>

\* onSuccess, then the dialog's promise: setEditing(false) for "stage", and
\* onOpenChange(false) of the dialog of that kind for the others.
ChangeAnswers(c) ==
  /\ c.kind # "preview" /\ c.phase = "done"
  /\ calls' = calls \ {c}
  /\ Invalidate
  /\ watched' = Resets(c)
  /\ IF c.kind = "stage" THEN form' = NoForm /\ edited' = {} ELSE UNCHANGED <<form, edited>>
  /\ dialog' = IF dialog.kind = c.kind THEN Closed ELSE dialog
  /\ UNCHANGED <<garage, data, sent, others>>

-----------------------------------------------------------------------------
(* The other operators.                                                    *)

Elsewhere(l) ==
  /\ others < MaxOthers /\ l # garage /\ others' = others + 1
  /\ garage' = Foreign(l)
  /\ UNCHANGED <<data, fetch, stale, form, edited, calls, watched, sent, preview, dialog>>

OthersAct ==
  \/ \E n \in Members, r \in OtherRoles : Elsewhere(Stage(garage, [m \in {n} |-> r], {}))
  \/ \E z \in Redundancies : Elsewhere(Stage(garage, NoChange, {z}))
  \/ HasStaged(garage) /\ Elsewhere(Applied(garage))
  \/ Elsewhere(Unstaged(garage))

-----------------------------------------------------------------------------
LayoutNext ==
  \/ GarageReads \/ FetchLands \/ FetchFails
  \/ StartEditing \/ UpdateDraft \/ CancelEditing
  \/ \E z \in Redundancies \union {Invalid} : EditRedundancy(z)
  \/ SubmitStage \/ PreviewStaged
  \/ \E k \in Dialogs, n \in Members \union {NoNode} : Open(k, n)
  \/ Dismiss \/ ConfirmAll \/ ConfirmNode
  \/ \E c \in calls : Execute(c) \/ CallFails(c) \/ PreviewAnswers(c) \/ ChangeAnswers(c)
  \/ OthersAct

LayoutSpec == LayoutInit /\ [][LayoutNext]_lvars

-----------------------------------------------------------------------------
(* Properties.                                                             *)

Assigns(f) == DOMAIN f \subseteq Members /\ f \in [DOMAIN f -> NodeRoles]

IsLayout(l) ==
  /\ l \in [version : Nat, roles : [Members -> NodeRoles], zr : Redundancies, staged : {l.staged},
            stagedZr : SUBSET Redundancies, foreign : Nat]
  /\ Assigns(l.staged) /\ \A n \in DOMAIN l.staged : l.staged[n] # l.roles[n]
  /\ l.zr \notin l.stagedZr

LayoutTypes ==
  /\ IsLayout(garage) /\ IsLayout(data)
  /\ \A l \in fetch \union preview \union form.base : IsLayout(l)
  /\ stale \in BOOLEAN
  /\ dialog.kind \in Dialogs \union {"none"} /\ dialog.node \in Members \union {NoNode}
  /\ watched \in [CallKinds -> 0..MaxCalls]
  /\ sent \in 0..MaxCalls /\ others \in 0..MaxOthers

\* "Any change to the staged set makes a previous preview stale" (layout.tsx):
\* no change of the operator's own that was answered leaves an older preview on
\* the page.  What it may miss is a change of others, or one whose answer was lost.
OwnChangesDropPreview ==
  \A p \in preview :
    p.foreign = garage.foreign /\ (\A c \in calls : c.kind # "preview" => c.phase = "sent")
      => /\ p.version = garage.version
         /\ p.staged = garage.staged /\ p.stagedZr = garage.stagedZr

\* A role that went through a row of the form and was not edited there.
Reread(role) == [role EXCEPT !.zone = Trim[@], !.tags = ParseTags[TagText[@]]]

RowFields == {"zone", "tags", "gib", "remove"}

\* "untouched rows never re-stage" (layout-draft.ts): something is staged for a
\* node only if its row was edited, a removal only if that was ticked, and a role
\* differs from the one the row was filled from only in the fields that were
\* edited: the capacity to the byte, while an edit of any field trims the zone
\* and splits a tag that has a comma in it.  The redundancy is staged unedited
\* only when the layout the page shows has changed under the form.
StagedAsEdited ==
  [][ \A c \in calls' \ calls, l \in form.base : c.kind = "stage" /\ c.phase = "sent" =>
        /\ \A n \in DOMAIN c.roles :
             LET role == c.roles[n]
                 kept == Reread(Source(l, n))
             IN
             /\ \E field \in RowFields : <<n, field>> \in edited
             /\ role = NoRole => <<n, "remove">> \in edited
             /\ role # NoRole =>
                  /\ <<n, "zone">> \in edited \/ role.zone = kept.zone
                  /\ <<n, "tags">> \in edited \/ role.tags = kept.tags
                  /\ <<n, "gib">>  \in edited \/ role.cap  = kept.cap
        /\ c.zr # {} => <<NoNode, "zr">> \in edited \/ NextZr(l) # NextZr(data) ]_lvars

\* What Garage applies for the operator is what the page showed when it was
\* confirmed, unless others changed the staged set since that was fetched, an
\* answer was lost, or an own change was not settled: the roles, the totals the
\* page announced, and the rows it marked.  And no preview on the page is older
\* than an own change.
AppliedAsShown ==
  [][ OwnChangesDropPreview' /\ \A c \in calls : c.kind = "apply" /\ c.phase = "sent" /\ Executed(c) \in calls' =>
        \/ /\ garage'.roles = NextRoles(c.seen) /\ garage'.zr = NextZr(c.seen)
           /\ TotalsOf(garage'.roles) = TotalsAfter(c.seen)
           /\ \A n \in RoleRows(c.seen) :
                /\ ChangeKind(c.seen, n) = "unchanged" <=> garage'.roles[n] = c.seen.roles[n]
                /\ ChangeKind(c.seen, n) = "removed"   <=> garage'.roles[n] = NoRole
        \/ c.seen.foreign # garage.foreign \/ ~c.calm ]_lvars

\* "re-staging its applied role makes its staged entry disappear": reverting one
\* node removes its staged change and no other, provided the layout was not
\* applied since the page fetched it.
RevertTakesBack ==
  [][ \A c \in calls : c.kind = "node" /\ c.phase = "sent" /\ Executed(c) \in calls' =>
        (c.seen.version = garage.version =>
          \A n \in DOMAIN c.roles :
            garage'.staged = [m \in DOMAIN garage.staged \ {n} |-> garage.staged[m]]) ]_lvars

\* The inductive invariant behind the three.
Rows == [zone : Zones, tags : TagTexts, gib : Int, remove : BOOLEAN]

FormTypes ==
  /\ form \in [base : {form.base}, rows : [Members -> Rows], zr : Redundancies \union {Invalid}]
  /\ \A l \in form.base : IsLayout(l) /\ form.base = {l}

\* The form is what it was filled from, but for what was edited.
FormHonest ==
  \A l \in form.base :
    /\ \A n \in Members : \A field \in RowFields :
         <<n, field>> \in edited \/ form.rows[n][field] = RowOf(l, n)[field]
    /\ <<NoNode, "zr">> \in edited \/ form.zr = NextZr(l)

CallTypes ==
  /\ \A c \in calls :
       /\ c \in [id : 1..sent, kind : CallKinds, phase : {"sent", "done"}, roles : {c.roles},
                 zr : SUBSET Redundancies, seen : {c.seen}, calm : BOOLEAN]
       /\ Assigns(c.roles) /\ IsLayout(c.seen)
       /\ c.kind = "node" => \E n \in Members : c.roles = [m \in {n} |-> c.seen.roles[m]]
  /\ \A c, d \in calls : c.id = d.id => c = d

\* A layout that the page got is one that Garage had: versions tell roles apart.
Past(l) ==
  /\ l.foreign <= garage.foreign /\ l.version <= garage.version
  /\ l.version = garage.version => l.roles = garage.roles

\* It is the present one unless others, or an unsettled call, came between.
Present(l) ==
  (\A c \in calls : c.kind # "preview" => c.phase = "sent") /\ l.foreign = garage.foreign => l = garage

\* While a calm apply is under way, its dialog keeps the page from anything else.
Undisturbed(c) ==
  /\ c.seen.foreign = garage.foreign => c.seen = garage
  /\ \A d \in calls : d.kind # "preview" => d = c
  /\ dialog.kind = "apply" /\ watched["apply"] = c.id

ShownPast ==
  /\ Past(data) /\ \A l \in fetch \union preview : Past(l) /\ Present(l)
  /\ ~stale => Present(data)

CallsPast ==
  \A c \in calls :
    /\ Past(c.seen)
    /\ c.kind = "preview" /\ c.phase = "done" /\ watched["preview"] = c.id => Present(c.seen)
    /\ c.kind = "apply" /\ c.phase = "sent" /\ c.calm => Undisturbed(c)

LayoutInv ==
  /\ LayoutTypes /\ FormTypes /\ CallTypes
  /\ FormHonest /\ (Editing => Free)
  /\ ShownPast /\ CallsPast
=============================================================================
