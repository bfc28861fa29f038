---------------------------- MODULE ConsoleForms ----------------------------
(***************************************************************************)
(* The forms of the console: what each is filled with, how it follows the  *)
(* data on its page, and what it sends (components/bucket-settings.tsx,    *)
(* edit-permissions-dialog.tsx, key-settings-dialog.tsx,                   *)
(* routes/admin-tokens.$id.tsx, routes/nodes.$id.tsx, routes/blocks.tsx).  *)
(*                                                                         *)
(* An item is what Garage stores: two fields with the values 0 and 1.  For *)
(* a website x stands for the routing rules, 0 for none, and y for whether *)
(* access is on; for a rules card x stands for the rules; for a token      *)
(* ("remount") x is its scope: 1 and 2 are two scopes that amount to "*",  *)
(* 0 is one that does not (module TokenForms takes scopes apart); of the   *)
(* block errors ("ticks", "retries") x and y are two blocks, 1 if      *)
(* listed.  A form holds the data it started from and a draft of each      *)
(* field; the selection of blocks is a form that starts empty.             *)
(***************************************************************************)
EXTENDS Naturals

Fields == {"x", "y"}

Kinds     == {"none", "quota", "website", "rules", "whole", "live", "remount", "drafts", "ticks", "retries"}
Following == {"quota", "website", "rules"}    \* useServerForm
Selecting == {"ticks", "retries"}             \* a purge, a resync of blocks
Dialogs   == {"whole", "live"}                \* opened by the operator
Cards     == Kinds \ (Dialogs \cup {"none"})  \* on the page with its data
Locked    == {"whole", "live", "remount"}     \* disabled while saving,
               \cup Selecting                 \* or behind the dialog that waits
Wholesale == {"quota", "whole"}               \* send every field

\* A failed fetch hides the page's data, and with it the form: the bucket page
\* alone keeps showing what it has.
HiddenByErrors == {"live", "remount", "drafts"}

\* A text that is not the text of the empty list, or of the number 0, and means
\* it nonetheless.
Blank     == 3
Parsed(v) == IF v = Blank THEN 0 ELSE v

Items(kind) ==
  LET all == [Fields -> 0..1] IN
  CASE kind = "website" -> {i \in all : i["y"] = 0 => i["x"] = 0}
    [] kind = "remount" -> {i \in [Fields -> 0..2] : i["y"] # 2}
    [] kind = "rules"   -> {i \in all : i["y"] = 0}
    [] kind = "none"    -> {[f \in Fields |-> 0]}
    [] OTHER            -> all

\* What Garage has at first, up to renaming values that are alike.
FirstItems(kind) ==
  IF kind \in {"quota", "live", "drafts"} THEN {[f \in Fields |-> 0]}
  ELSE IF kind = "remount" THEN {i \in Items(kind) : i["y"] = 0 /\ i["x"] # 2}
  ELSE Items(kind)

Fresh(item) == [base |-> item, draft |-> item]

Nowhere == [f \in Fields |-> 0]

Started(kind, item) == Fresh(IF kind \in Selecting THEN Nowhere ELSE item)

Pristine(form) == form.draft = form.base

FollowsAlways(kind, form, touched, item) == Fresh(item)

\* The form once its page shows item.
Follow(kind, form, touched, item) ==
  CASE kind \in Following -> IF Pristine(form) THEN Fresh(item) ELSE form
    [] kind = "remount"   -> IF form.base = item THEN form ELSE Fresh(item)
    [] kind = "drafts"    -> [base |-> item,
                              draft |-> [f \in Fields |-> IF f \in touched THEN form.draft[f] ELSE item[f]]]
    [] OTHER              -> form

\* What the operator can enter: rules only while the website is on; a block only
\* has a checkbox while it is listed.
Entries(kind, form, item) ==
  CASE kind = "website" -> {<<"y", 0>>, <<"y", 1>>}
                             \cup (IF form.draft["y"] = 0 THEN {} ELSE {"x"} \X {0, 1, Blank})
    [] kind = "rules"   -> {"x"} \X {0, 1, Blank}
    [] kind = "drafts"  -> Fields \X {0, 1, Blank}
    [] kind = "remount" -> ({"x"} \X (0..2)) \cup ({"y"} \X (0..1))
    [] kind \in Selecting -> {f \in Fields : item[f] = 1} \X {0, 1}
    [] OTHER            -> Fields \X {0, 1}

\* toggleSelectAll: it counts, so as many selected as listed are unselected.
Toggled(form, item) ==
  LET size(v) == v["x"] + v["y"] IN
  [form EXCEPT !.draft = IF size(@) = size(item) THEN Nowhere ELSE item]

-----------------------------------------------------------------------------
(* What a form sends: a function from the fields it sends to their values  *)

Body(form, S) == [f \in S |-> Parsed(form.draft[f])]

NoBody == [f \in {} |-> 0]

RulesAlways(form) == {"x", "y"}

\* "Omitting routingRules keeps the current ones; only send them when edited",
\* and an emptied text only when there was something to empty.
WebsiteFields(form) ==
  IF form.draft["x"] # form.base["x"] /\ (Parsed(form.draft["x"]) # 0 \/ form.base["x"] # 0)
  THEN {"x", "y"} ELSE {"y"}

\* The expiration is compared with what the dialog started from, the name and
\* createBucket with what the page shows by now.
KeyFields(form, item) ==
  {f \in Fields : form.draft[f] # (IF f = "x" THEN item[f] ELSE form.base[f])}

SendsAnything(form) == Fields

\* "draft.trim() !== ''": an emptied input would read as 0.
ValidFields(form) == {f \in Fields : form.draft[f] # Blank}

\* The bodies that the form's save button may send now; none while it is off.
Bodies(kind, form, touched, item) ==
  LET changed == {f \in Fields : form.draft[f] # form.base[f]} IN
  CASE kind = "none"    -> {NoBody}
    [] kind = "website" -> IF changed = {} \/ (form.draft["y"] = 0 /\ form.base["y"] = 0) THEN {}
                           ELSE IF form.draft["y"] = 0 THEN {Body(form, {"y"})}
                           ELSE {Body(form, WebsiteFields(form))}
    [] kind = "quota"   -> IF changed = {} THEN {} ELSE {Body(form, Fields)}
    [] kind = "whole"   -> IF changed = {} \/ \A f \in Fields : form.draft[f] = 0 THEN {}
                           ELSE {Body(form, Fields)}
    [] kind = "live"    -> {Body(form, S) : S \in {KeyFields(form, item)} \ {{}}}
    [] kind = "drafts"  -> {Body(form, {f}) : f \in changed \cap touched \cap ValidFields(form)}
    [] kind \in Selecting -> {Body(form, S) : S \in {changed} \ {{}}}
    [] OTHER            -> {Body(form, S) : S \in {changed} \ {{}}}

ConfirmsDisabling(kind, form, body) == kind = "website" /\ form.draft["y"] = 0

\* Whether the operator is asked once more before the body is sent.
Confirms(kind, form, body) ==
  \/ ConfirmsDisabling(kind, form, body)
  \/ kind \in {"website", "rules"} /\ "x" \in DOMAIN body
       /\ body["x"] = 0 /\ form.base["x"] # 0
  \/ kind \in Selecting
  \/ kind = "remount" /\ "x" \in DOMAIN body /\ body["x"] > 0 /\ form.base["x"] = 0

\* Garage without website access keeps no website configuration.
Stored(kind, item, body) ==
  LET merged == [f \in Fields |-> IF f \in DOMAIN body THEN body[f] ELSE item[f]] IN
  IF kind = "website" /\ merged["y"] = 0 THEN Nowhere
  ELSE IF kind \in Selecting THEN [f \in Fields |-> IF f \in DOMAIN body THEN 0 ELSE item[f]]
  ELSE merged

-----------------------------------------------------------------------------
(* An answer made of one per node (lib/multi-response.ts).                 *)

Outcome(succeeded, failed) ==
  IF succeeded = 0 THEN "failure" ELSE IF failed > 0 THEN "partial" ELSE "success"

\* How many of the nodes asked, of two, may fail: a variable is set on the one
\* node unless it is to be set everywhere, and then a failure of all is an error.
Failures(kind, wide) ==
  IF kind \in Selecting THEN 0..2 ELSE IF wide THEN 0..1 ELSE {0}

ClearsAlways(outcome) == TRUE

\* "Keep the selection when some node failed so the purge can be retried."
Clears(outcome) == outcome = "success"
=============================================================================
