------------------------------- MODULE Console ------------------------------
(***************************************************************************)
(* The console in one tab: one operation of its pages, and one query that  *)
(* shows what the operation changes (module ConsolePages).  The operator   *)
(* moves between pages, fills the operation's form in (module              *)
(* ConsoleForms), sends it and is told how it ended; the query is fetched, *)
(* invalidated, written and dropped as react-query does it.                *)
(*                                                                         *)
(* Invalidating asks again at once for what is on screen and drops a fetch *)
(* of it under way, unless that is its first; what is not on screen is     *)
(* marked, and asked for when it is.  Writing keeps a fetch under way.     *)
(***************************************************************************)
EXTENDS ConsolePages, ConsoleForms, TokenForms, FiniteSets

CONSTANTS
  MaxChanges     \* bound: operations of this tab and changes by others, together

ASSUME ConsoleAssumption == MaxChanges \in Nat \ {0}

VARIABLES
  op, q,         \* the operation and the query: fixed
  page, opened,  \* the page, and whether its on-demand part is open
  cache,         \* what react-query holds for q
  garage,        \* how many of the operations took effect, and the item
  form, touched, \* the form, if there is one, and the fields entered
  call,          \* the operation under way, if any
  sent, others,  \* how many this tab sent, and others made
  owed,          \* history: the operations the operator was told of
  due,           \* history: those known when q last came on screen with nothing
                 \* fresh to show
  missed         \* history: an answer found nobody to hear it

cvars == <<op, q, page, opened, cache, garage, form, touched, call, sent, others, owed, due, missed>>

scenario == <<op, q>>

The(S) == CHOOSE x \in S : TRUE

O == Operations[op]

\* The query whose data the operation's form is filled from.
FormQuery ==
  CASE O.form \in Following \cup {"whole"} -> Bucket
    [] O.form = "live"    -> Key
    [] O.form = "remount" -> Token
    [] O.form = "drafts"  -> NodeVariables
    [] O.form \in Selecting -> BlockErrors
    [] OTHER              -> Status

Kind == IF q = FormQuery THEN O.form ELSE "none"

Relevant(o, x) ==
  \/ x.reads \cap Operations[o].changes # {}
  \/ x \in Secrets /\ "key" \in Operations[o].pages \cup Operations[o].goes

\* The pages of this behaviour: the operation's, one that shows the query and
\* one that does not.
Tour ==
  O.pages \cup O.goes
    \cup {IF q \in Dashboard THEN "dashboard" ELSE CHOOSE p \in Pages : q \in Shows[p]}
    \cup {CHOOSE p \in Pages : q \notin Shows[p]}

-----------------------------------------------------------------------------
(* The cache *)

\* stale: invalidated; old: fetched longer ago than data counts as fresh.
Empty == [entry |-> {}, stale |-> FALSE, old |-> FALSE, failed |-> FALSE, fetch |-> {}]

Entry(own, item, crossed) == [own |-> own, item |-> item, crossed |-> crossed]

Asked == [phase |-> "asked", answer |-> Entry(0, [f \in Fields |-> 0], FALSE)]

MountedAt(p, o) == q \in Shows[p] /\ (q \in OnDemand[p] => o)

Mounted == MountedAt(page, opened)

Ask(c) == [c EXCEPT !.fetch = {Asked}]

\* A fetch that is not asked again may have read what has changed since.
Cross(c) ==
  [c EXCEPT !.fetch = {[r EXCEPT !.answer.crossed = @ \/ r.phase = "read"] : r \in @}]

Marked(c) == [c EXCEPT !.stale = c.entry # {} \/ c.fetch # {}]

Invalidated(c) ==
  IF Mounted /\ (c.entry # {} \/ c.fetch = {}) THEN Ask(Marked(c)) ELSE Cross(Marked(c))

\* setQueryData.
Written(c, e) == [Cross(c) EXCEPT !.entry = {e}, !.stale = FALSE, !.old = FALSE, !.failed = FALSE]

\* Nothing fresh is there, or on its way.
Outdated(c) == c.fetch = {} /\ (c.entry = {} \/ c.stale \/ c.old)

OnlyUnread(c) == IF c.fetch = {} /\ (c.entry = {} \/ c.stale) THEN Ask(c) ELSE c

\* A page with the query appears.
Appeared(c) == IF Outdated(c) THEN Ask(c) ELSE c

MatchedBy(filters) == \E f \in filters : Matches(f, q)

-----------------------------------------------------------------------------
(* The form *)

\* The page's data is there for a form to show.
Up(p, c) ==
  Kind # "none" /\ p \in O.pages /\ c.entry # {} /\ (Kind \in HiddenByErrors => ~c.failed)

\* The page p with the cache c; f0 is the form that was there, t0 its fields.
Shown(p, c, f0, t0) ==
  LET item == The(c.entry).item
      f1   == IF ~Up(p, c) THEN {}
              ELSE IF f0 = {} THEN IF Kind \in Cards THEN {Started(Kind, item)} ELSE {}
              ELSE {Follow(Kind, f, t0, item) : f \in f0}
  IN
  /\ form' = f1
  /\ touched' = IF f1 = f0 \/ (f0 # {} /\ f1 # {} /\ Kind = "drafts") THEN t0 ELSE {}

\* The call's answer resets its form only if that form is still there.
Calls(left) ==
  {[c EXCEPT !.left = @ \/ left, !.same = @ /\ form' # {} /\ ~left] : c \in call}

\* Going to page p with the cache c, when n operations are known to be done.
Visit(p, c, n) ==
  /\ page' = p /\ opened' = FALSE
  /\ cache' = IF q \in Secrets /\ page = "key" THEN Empty
              ELSE IF MountedAt(p, FALSE) THEN Appeared(c) ELSE c
  /\ due' = IF MountedAt(p, FALSE) /\ Outdated(c) THEN n ELSE due
  /\ Shown(p, cache', {}, {})

-----------------------------------------------------------------------------
ConsoleInit ==
  /\ op \in DOMAIN Operations /\ q \in {x \in Queries : Relevant(op, x)}
  /\ page \in Tour /\ opened = FALSE
  /\ cache = IF MountedAt(page, FALSE) THEN Ask(Empty) ELSE Empty
  /\ garage \in [own : {0}, item : FirstItems(Kind)]
  /\ form = {} /\ touched = {} /\ call = {} /\ sent = 0 /\ others = 0
  /\ owed = 0 /\ due = 0 /\ missed = FALSE

-----------------------------------------------------------------------------
(* The operator *)

Navigate(p) ==
  /\ p # page /\ Visit(p, cache, owed)
  /\ call' = Calls(TRUE)
  /\ UNCHANGED <<scenario, garage, sent, others, owed, missed>>

\* A secret is revealed, a picker or a row opened.
Open ==
  /\ q \in OnDemand[page] /\ ~opened
  /\ opened' = TRUE /\ cache' = Appeared(cache)
  /\ due' = IF Outdated(cache) THEN owed ELSE due
  /\ UNCHANGED <<scenario, page, garage, form, touched, call, sent, others, owed, missed>>

\* "Hiding it evicts the cached value".
Hide ==
  /\ opened /\ q \in Secrets \cup {BlockInfo}
  /\ opened' = FALSE
  /\ cache' = IF q \in Secrets THEN Empty ELSE cache
  /\ UNCHANGED <<scenario, page, garage, form, touched, call, sent, others, owed, due, missed>>

OpenDialog ==
  /\ Kind \in Dialogs /\ form = {} /\ call = {} /\ page \in O.pages
  /\ cache.entry # {} /\ (Kind \in HiddenByErrors => ~cache.failed)
  /\ form' = {Fresh(e.item) : e \in cache.entry} /\ touched' = {}
  /\ UNCHANGED <<scenario, page, opened, cache, garage, call, sent, others, owed, due, missed>>

Enter(f, v) ==
  /\ form # {} /\ (Kind \in Locked => call = {})
  /\ <<f, v>> \in Entries(Kind, The(form), The(cache.entry).item) /\ The(form).draft[f] # v
  /\ Kind \in Selecting => ~cache.failed
  /\ form' = {[x EXCEPT !.draft[f] = v] : x \in form}
  /\ touched' = touched \cup {f}
  /\ UNCHANGED <<scenario, page, opened, cache, garage, call, sent, others, owed, due, missed>>

\* The checkbox above the list of blocks.
ToggleSelectAll ==
  /\ Kind \in Selecting /\ form # {} /\ call = {} /\ ~cache.failed
  /\ form' = {Toggled(x, The(cache.entry).item) : x \in form} /\ form' # form
  /\ touched' = touched \cup {f \in Fields : \A x \in form' : x.draft[f] # 0}
  /\ UNCHANGED <<scenario, page, opened, cache, garage, call, sent, others, owed, due, missed>>

\* Reset or cancel; the card then shows what the page shows.
Discard ==
  /\ form # {} /\ touched # {} /\ call = {} /\ Kind \notin Selecting
  /\ IF Kind \in Dialogs THEN form' = {} /\ touched' = {}
     ELSE Shown(page, cache, {Fresh(x.base) : x \in form}, {})
  /\ UNCHANGED <<scenario, page, opened, cache, garage, call, sent, others, owed, due, missed>>

\* mutate(): the operator confirmed where there is something to confirm.
Send ==
  /\ page \in O.pages /\ call = {} /\ sent + others < MaxChanges
  /\ ~(q = ConnectionSecret /\ opened)
  /\ Kind # "none" => form # {}
  /\ \E body \in IF Kind = "none" THEN {NoBody}
                 ELSE Bodies(Kind, The(form), touched, The(cache.entry).item),
        wide \in IF Kind = "drafts" THEN BOOLEAN ELSE {FALSE} :
       call' = {[phase |-> "sent", body |-> body, left |-> FALSE, same |-> TRUE,
                 wide |-> wide, outcome |-> "success",
                 confirmed |-> Kind # "none" /\ (wide \/ Confirms(Kind, The(form), body)),
                 bare |-> Kind # "none" /\ The(form).base["x"] = 0,
                 answer |-> Entry(0, garage.item, FALSE)]}
  /\ sent' = sent + 1
  /\ UNCHANGED <<scenario, page, opened, cache, garage, form, touched, others, owed, due, missed>>

\* The dashboard's refresh button.
RefreshButton ==
  /\ page = "dashboard" /\ MatchedBy(RefreshAll)
  /\ cache' = Invalidated(cache)
  /\ UNCHANGED <<scenario, page, opened, garage, form, touched, call, sent, others, owed, due, missed>>

-----------------------------------------------------------------------------
(* The query *)

\* The window gets the focus, an interval passes, "retry" is clicked.
Refetch ==
  /\ Mounted /\ cache.fetch = {}
  /\ q \in Secrets => cache.entry = {} \/ cache.stale
  /\ cache' = Ask(cache)
  /\ UNCHANGED <<scenario, page, opened, garage, form, touched, call, sent, others, owed, due, missed>>

GarageReads ==
  /\ \E r \in cache.fetch :
       /\ r.phase = "asked"
       /\ cache' = [cache EXCEPT !.fetch =
                      {[phase |-> "read", answer |-> Entry(garage.own, garage.item, FALSE)]}]
  /\ UNCHANGED <<scenario, page, opened, garage, form, touched, call, sent, others, owed, due, missed>>

Landed(c) ==
  /\ cache' = c
  /\ Shown(page, c, form, touched)
  /\ call' = Calls(FALSE)
  /\ UNCHANGED <<scenario, page, opened, garage, sent, others, owed, due, missed>>

FetchLands ==
  \E r \in cache.fetch :
    r.phase = "read" /\ Landed([Empty EXCEPT !.entry = {r.answer}])

\* An error, the retry included.
FetchFails ==
  /\ cache.fetch # {}
  /\ Landed([cache EXCEPT !.fetch = {}, !.failed = TRUE, !.stale = TRUE])

\* Data is fresh for 30 seconds, a secret for ever.
GrowsOld ==
  /\ cache.entry # {} /\ q \notin Secrets /\ ~cache.old
  /\ cache' = [cache EXCEPT !.old = TRUE]
  /\ UNCHANGED <<scenario, page, opened, garage, form, touched, call, sent, others, owed, due, missed>>

\* What no page shows is dropped after five minutes.
Collect ==
  /\ ~Mounted /\ cache.fetch = {} /\ cache # Empty
  /\ cache' = Empty
  /\ UNCHANGED <<scenario, page, opened, garage, form, touched, call, sent, others, owed, due, missed>>

-----------------------------------------------------------------------------
(* The operation *)

Done(c) ==
  [own |-> garage.own + 1, item |-> Stored(Kind, garage.item, c.body)]

Answered(c, phase, g) == {[c EXCEPT !.phase = phase, !.answer = Entry(g.own, g.item, FALSE)]}

\* Some nodes may answer with an error; then the others did it.
GarageExecutes ==
  \E c \in call, failed \in 0..2 :
    /\ c.phase = "sent" /\ failed \in Failures(Kind, c.wide)
    /\ garage' \in (IF failed < 2 THEN {Done(c)} ELSE {})
                     \cup (IF failed > 0 THEN {[Done(c) EXCEPT !.item = garage.item]} ELSE {})
    /\ call' = Answered([c EXCEPT !.outcome = Outcome(2 - failed, failed)], "done", garage')
    /\ UNCHANGED <<scenario, page, opened, cache, form, touched, sent, others, owed, due, missed>>

\* Refused, or done without an answer.
CallFails ==
  \E c \in call :
    /\ c.phase = "sent"
    /\ garage' \in {garage, Done(c)} /\ call' = Answered(c, "failed", garage')
    /\ UNCHANGED <<scenario, page, opened, cache, form, touched, sent, others, owed, due, missed>>

\* The form once its save has succeeded: a dialog closes, a card starts over
\* from the answer, a variable's draft is dropped.
AfterSave(c) ==
  CASE Kind \in Dialogs              -> [form |-> {}, touched |-> {}]
    [] Kind \in Following /\ c.same  -> [form |-> {Fresh(c.answer.item)}, touched |-> {}]
    [] Kind = "ticks" /\ c.same /\ Clears(c.outcome) ->
         [form |-> {Started(Kind, c.answer.item)}, touched |-> {}]
    [] Kind = "drafts" /\ c.same     -> [form |-> form, touched |-> touched \ DOMAIN c.body]
    [] OTHER                         -> [form |-> form, touched |-> touched]

\* onSuccess.  Callbacks given to mutate() die with their component.
Succeeds ==
  \E c \in call :
    LET heard == ~(O.perCall /\ c.left)
        told  == IF ~heard THEN cache
                 ELSE IF q \in O.sets THEN Written(cache, c.answer)
                 ELSE IF MatchedBy(O.tells) THEN Invalidated(cache)
                 ELSE cache
        kept  == IF MatchedBy(O.drops) THEN Empty ELSE told
    IN
    /\ c.phase = "done"
    /\ call' = {} /\ owed' = c.answer.own /\ missed' = (missed \/ ~heard)
    /\ IF heard /\ O.goes \ {page} # {}
       THEN Visit(The(O.goes), kept, c.answer.own)
       ELSE /\ cache' = kept
            /\ Shown(page, kept, AfterSave(c).form, AfterSave(c).touched)
            /\ UNCHANGED <<page, opened, due>>
    /\ UNCHANGED <<scenario, garage, sent, others>>

\* onError, onSettled.
Fails ==
  \E c \in call :
    /\ c.phase = "failed"
    /\ call' = {}
    /\ cache' = IF MatchedBy(O.fails) THEN Invalidated(cache) ELSE cache
    /\ owed'  = IF O.partly THEN c.answer.own ELSE owed
    /\ UNCHANGED <<scenario, page, opened, garage, form, touched, sent, others, due, missed>>

\* Another operator.
OthersChange ==
  /\ sent + others < MaxChanges /\ others' = others + 1
  /\ garage' \in [own : {garage.own}, item : Items(Kind) \ {garage.item}]
  /\ UNCHANGED <<scenario, page, opened, cache, form, touched, call, sent, owed, due, missed>>

-----------------------------------------------------------------------------
Operator ==
  \/ \E p \in Tour : Navigate(p)
  \/ Open \/ Hide \/ OpenDialog \/ ToggleSelectAll \/ Discard \/ Send \/ RefreshButton
  \/ \E f \in Fields, v \in 0..Blank : Enter(f, v)

Fetching == Refetch \/ GarageReads \/ FetchLands \/ FetchFails \/ GrowsOld \/ Collect

Answering == GarageExecutes \/ CallFails \/ Succeeds \/ Fails \/ OthersChange

ConsoleNext == Operator \/ Fetching \/ Answering

ConsoleSpec == ConsoleInit /\ [][ConsoleNext]_cvars
-----------------------------------------------------------------------------
(* The inductive invariant *)

AtMostOne(S) == \A a, b \in S : a = b

Item        == [Fields -> 0..2]
EntryType   == [own : Nat, item : Item, crossed : BOOLEAN]
FetchType   == [phase : {"asked", "read"}, answer : EntryType]
CacheType   == [entry : SUBSET EntryType, stale : BOOLEAN, old : BOOLEAN, failed : BOOLEAN,
                fetch : SUBSET FetchType]
FormType    == [base : Item, draft : [Fields -> 0..Blank]]
BodyType    == UNION {[S -> 0..2] : S \in SUBSET Fields}
CallType    == [phase : {"sent", "done", "failed"}, body : BodyType, left : BOOLEAN,
                same : BOOLEAN, wide : BOOLEAN, outcome : {"success", "partial", "failure"},
                confirmed : BOOLEAN, bare : BOOLEAN, answer : EntryType]

CacheTypes(c) == c \in CacheType /\ AtMostOne(c.entry) /\ AtMostOne(c.fetch)

\* The values of the variables; there is at most one of each thing.
ConsoleTypes ==
  /\ op \in DOMAIN Operations /\ q \in Queries /\ Relevant(op, q)
  /\ page \in Pages /\ opened \in BOOLEAN
  /\ CacheTypes(cache)
  /\ garage \in [own : Nat, item : Item]
  /\ form \in SUBSET FormType /\ AtMostOne(form)
  /\ touched \in SUBSET Fields
  /\ call \in SUBSET CallType /\ AtMostOne(call)
  /\ sent \in Nat /\ others \in Nat /\ owed \in Nat /\ due \in Nat /\ missed \in BOOLEAN

\* A secret that is held is fresh and not asked for, and only held while revealed.
SecretInv ==
  q \in Secrets => /\ cache.entry # {} => cache.fetch = {} /\ ~cache.stale
                   /\ ~opened => cache = Empty
                   /\ ~cache.old

\* What is held or was read shows n of the operations, or crossed one, or is marked.
Told(c, n) ==
  /\ \A e \in c.entry : e.own >= n \/ e.crossed \/ c.stale
  /\ \A r \in c.fetch : r.phase = "read" => r.answer.own >= n \/ r.answer.crossed

\* What is marked was asked for.
AskedFor(c) == c.entry # {} /\ c.stale => c.fetch # {} \/ c.failed

ReadInv ==
  q \notin O.ages \cup Secrets =>
    /\ ~missed => Told(cache, owed)
    /\ Mounted => AskedFor(cache)

\* What is on screen shows what was known when it came there, or is asked for.
UpToDate(c, n) ==
  /\ \A e \in c.entry : e.own >= n \/ c.fetch # {} \/ c.failed
  /\ \A r \in c.fetch : r.phase = "read" => r.answer.own >= n

DueInv == due <= owed /\ UpToDate(cache, due)

CallInv ==
  /\ opened => q \in OnDemand[page]
  /\ owed <= garage.own
  /\ \A c \in call : c.phase # "sent" => c.answer.own = garage.own

\* The forms fs on the page p with the cache c, where the fields ts were entered: a card
\* shows a form whenever it can, what differs from its base was entered, and a selection
\* starts empty.
Fits(p, c, fs, ts) ==
  /\ fs # {} => Up(p, c)
  /\ Kind \in Cards /\ Up(p, c) => fs # {}
  /\ \A f \in fs, z \in Fields : f.draft[z] # f.base[z] => z \in ts
  /\ Kind = "website" => \A f \in fs : f.draft["y"] # Blank
  /\ Kind \in Selecting => \A f \in fs : f.base = Nowhere

FormInv == Fits(page, cache, form, touched)

\* What was sent without being confirmed does no harm.
BodyInv ==
  \A c \in call :
    /\ Kind = "website" => "y" \in DOMAIN c.body /\ (c.body["y"] = 0 => c.confirmed)
    /\ Kind \in {"website", "rules"} /\ "x" \in DOMAIN c.body /\ c.body["x"] = 0
         => c.confirmed \/ (Kind = "rules" /\ c.bare)
    /\ Kind = "remount" /\ "x" \in DOMAIN c.body /\ c.body["x"] > 0 => c.confirmed \/ ~c.bare

ConsoleInv == ConsoleTypes /\ SecretInv /\ ReadInv /\ DueInv /\ CallInv /\ FormInv /\ BodyInv

-----------------------------------------------------------------------------
(* Properties *)

\* Once the operator was told that an operation succeeded, or that it failed
\* where failing may leave a part of it done, every settled page that shows what it
\* changes shows it once it is opened with data over 30 seconds old; and at once,
\* except for the queries that the code leaves to age (ages), an answer that crossed
\* the operation (a fetch that was not asked again), and an operation whose page was
\* left before its answer came and which does not refresh without it.
OwnChangeShown ==
  Mounted /\ cache.fetch = {} /\ ~cache.failed =>
    \A e \in cache.entry :
      /\ e.own >= due
      /\ ~missed /\ q \notin O.ages \cup Secrets => e.own >= owed \/ e.crossed

\* "Refresh the detail without touching the separately cached secret": a secret
\* is never fetched again while it is shown, and is kept nowhere once it is hidden
\* or its page was left.
SecretUndisturbed ==
  q \in Secrets =>
    /\ cache.entry # {} => cache.fetch = {}
    /\ ~opened => cache.entry = {} /\ cache.fetch = {}

\* "Only the fields that changed are sent": a form sends what the operator
\* entered.  The quota and the permissions are sent whole and a website's access
\* always; the key dialog sends a name that someone else changed meanwhile back.
\* A token's scope and expiration are sent as they were entered, and a variable's
\* emptied input is not sent as a 0.
OnlyEditedSent ==
  [][TokenSentAsEntered /\ (call = {} /\ Kind # "none" =>
       \A c \in call', f \in form :
         /\ Kind = "drafts" => \A z \in DOMAIN c.body : c.body[z] = f.draft[z]
         /\ DOMAIN c.body \subseteq
           touched \cup (CASE Kind \in Wholesale -> Fields
                           [] Kind = "website"   -> {"y"}
                           [] Kind = "live"      -> {z \in {"x"} : The(cache.entry).item[z] # f.base[z]}
                           [] OTHER              -> {}))]_cvars

\* "In-progress edits are never overwritten": no answer to a background fetch,
\* good or bad, changes a field that was edited; except an admin token's form,
\* which starts over with every change on the server, and forms on pages that
\* hide behind an error.  Nor does the answer to a purge that some node failed
\* take the selection away.
EditsKept ==
  [][/\ cache' # cache /\ call' = call /\ page' = page /\ Kind # "remount" =>
          \A f \in form :
            /\ Kind \notin HiddenByErrors => form' # {}
            /\ \A g \in form', z \in Fields : f.draft[z] # f.base[z] => g.draft[z] = f.draft[z]
     /\ Kind = "ticks" /\ call' = {} /\ page' = page =>
          \A c \in call : c.phase = "failed" \/ c.outcome # "success" => form' = form]_cvars

\* "An emptied textarea deletes every rule: never do that silently", and neither
\* is a token made equal to "*": a save that does was confirmed, unless the card had
\* no rules to show, or the token shown amounted to "*" already (one that someone else
\* narrowed meanwhile is widened again unasked).
HarmConfirmed ==
  [][PowersAsTicked /\ (sent' = sent /\ garage'.own > garage.own
       /\ \/ Kind \in {"website", "rules"} /\ garage.item["x"] # 0 /\ garage'.item["x"] = 0
          \/ Kind = "remount" /\ garage.item["x"] = 0 /\ garage'.item["x"] > 0
     => \A c \in call : c.confirmed \/ (Kind = "rules" /\ c.bare) \/ (Kind = "remount" /\ ~c.bare))]_cvars
=============================================================================
