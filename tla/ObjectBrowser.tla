---------------------------- MODULE ObjectBrowser ---------------------------
(***************************************************************************)
(* The object browser of one bucket (frontend/src/components/              *)
(* object-browser.tsx) in one tab: the prefix and its debounced input, the *)
(* cached listings, the selection, the deletions and the ZIP download, and *)
(* the panel shown while S3 refuses the console's key.                     *)
(*                                                                         *)
(* Every answer arrives as a callback that finds the page as it then is.   *)
(* Listings live in react-query: one entry per prefix, invalidated after a *)
(* mutation; the entry on screen is then fetched again at once and any     *)
(* fetch of it under way is dropped, unless it is the entry's first load;  *)
(* the others keep theirs.                                                 *)
(***************************************************************************)
EXTENDS Naturals, FiniteSets

CONSTANTS
  Objects,               \* the objects' keys: numbers, in S3's order
  Prefixes, Home,        \* Home is the empty prefix
  Parent,                \* parentPrefix
  Listed,                \* Listed[p]: the keys that a listing of p shows
  Below,                 \* Below[p]: the keys that start with p
  PageSize,
  KeyStates,             \* the states of the console's own S3 key
  MaxActs                \* bound on what the operator and others do

ASSUME BrowserAssumption ==
  /\ Objects \subseteq Nat /\ IsFiniteSet(Objects)
  /\ Home \in Prefixes /\ Parent \in [Prefixes -> Prefixes]
  /\ Listed \in [Prefixes -> SUBSET Objects] /\ Below \in [Prefixes -> SUBSET Objects]
  /\ PageSize \in Nat \ {0} /\ MaxActs \in Nat
  /\ KeyStates \subseteq {"good", "expired", "missing", "broken"}

None == "none"

VARIABLES
  objs, perm, key,  \* S3: the objects, whether the key may use the bucket,
                    \* and the state of the key itself
  prefix,
  typed,            \* the prefix of the pending debounce, or None
  selected,         \* selectedKeys
  list,             \* list[p]: the cached listing of p
  open,             \* the dialogs that are open
  single, folder,   \* deleteObjectTarget, prefixDeleteTarget
  summary,          \* the target of summaryMutation, or None
  call,             \* call[d]: the deletion confirmed in dialog d
  zip,              \* whether batchDownloadMutation is pending
  lookup,           \* what useConsoleKey found out
  granting, grant,  \* the grantConsole call, and lastConsoleGrant
  acts,             \* how much the operator and others did
  gone,             \* history: keys this tab deleted, as it was told, and
                    \* nobody uploaded again
  crossed,          \* history: listings fetched across such an answer, or
                    \* whose refresh gave way to the next page
  stray,            \* history: keys a deletion failed for after its prefix
                    \* was left; call[d].stray: those when it was confirmed
  proved, excused   \* history: since the last grant a listing on screen
                    \* succeeded; the key was revoked before one did

svars == <<objs, perm, key>>
dvars == <<open, single, folder, call>>
gvars == <<lookup, granting, grant>>
hvars == <<gone, stray>>
avars == <<proved, excused>>
pvars == <<prefix, typed, selected>>
lvars == <<list, crossed>>
rvars == <<summary, zip>>
bvars == <<svars, pvars, lvars, dvars, rvars, gvars, acts, hvars, avars>>

Deletions == {"single", "bulk", "prefix"}
NoCall == [st |-> None, keys |-> {}, from |-> Home, failed |-> {}, whole |-> FALSE,
           deleted |-> {}, stray |-> {}]

NoFolder == [prefix |-> None, count |-> 0]

Unvisited == [data |-> {}, loaded |-> FALSE, st |-> "pending", pages |-> 1, more |-> FALSE,
              denied |-> FALSE, late |-> FALSE, stale |-> FALSE,
              fetch |-> None, next |-> FALSE, answer |-> None, got |-> {}]

\* A new fetch; without data to show meanwhile the entry is pending again.
Started(l) ==
  [l EXCEPT !.fetch = "sent", !.next = FALSE, !.answer = None, !.got = {},
            !.st = IF l.loaded THEN @ ELSE "pending", !.denied = IF l.loaded THEN @ ELSE FALSE]

\* S3 serves the console's key on this bucket.
Usable == perm /\ key = "good"

\* A first load under way: react-query drops a fetch only for an entry with data.
FirstLoad(l) == ~l.loaded /\ l.fetch # None

RefreshCurrentOnly(L) == [L EXCEPT ![prefix] = Started(@)]

\* invalidateQueries on ['objects', bucketId].
Invalidated(L) ==
  [p \in Prefixes |-> IF p = prefix /\ ~FirstLoad(L[p]) THEN Started(L[p])
                      ELSE [L[p] EXCEPT !.stale = TRUE]]

\* History: fetches that an invalidation does not restart.
Crossing == [p \in Prefixes |->
               [crossed[p] EXCEPT !.fetch = IF p = prefix THEN FirstLoad(list[p])
                                            ELSE list[p].fetch # None]]

-----------------------------------------------------------------------------
(* What is on screen *)

\* consoleAccessView for the listing L of the prefix p.
View(l) ==
  IF ~(l.st = "error" /\ l.denied)                      THEN "list"
  ELSE IF lookup = "expired"                            THEN "key-expired"
  ELSE IF lookup = "missing" \/ grant = "missing"       THEN "key-missing"
  ELSE IF grant \in {"changed", "unchanged"}
          /\ (grant = "unchanged" \/ l.late)            THEN "key-invalid"
  ELSE "grant"

AccessDenied == View(list[prefix]) # "list"

\* The rows of the table.
ShownRows == IF ~AccessDenied /\ list[prefix].st = "success" THEN list[prefix].data ELSE {}

\* Something is done from outside the page's own code.
Act == acts < MaxActs /\ acts' = acts + 1

\* The operator clicks or types in the page: not under a modal dialog.
Free == open = {} /\ Act

KeepGrant(L, p, g) == g

\* "Once the listing works again it is forgotten": at every render.
GrantAfter(L, p, g) == IF L[p].st = "success" THEN None ELSE g

-----------------------------------------------------------------------------
BrowserInit ==
  /\ objs \in SUBSET Objects /\ perm \in BOOLEAN /\ key \in KeyStates
  /\ prefix = Home /\ typed = None /\ selected = {}
  /\ list = [p \in Prefixes |-> IF p = Home THEN Started(Unvisited) ELSE Unvisited]
  /\ open = {} /\ single = {} /\ folder = NoFolder
  /\ summary = None /\ zip = FALSE
  /\ call = [d \in Deletions |-> NoCall]
  /\ lookup = None /\ granting = None /\ grant = None
  /\ acts = 0
  /\ gone = {} /\ stray = {} /\ proved = FALSE /\ excused = FALSE
  /\ crossed = [p \in Prefixes |-> [fetch |-> FALSE, data |-> FALSE]]

\* An entry that is visited without data, or invalidated, is fetched.
Fetches(l) == ~l.loaded \/ l.stale

SelectionKept(p) == selected

\* A changed prefix drops the selection.
SelectionFollows(p) == IF p = prefix THEN selected ELSE {}

\* The page is at prefix p.  The entry of p gains an observer, which fetches it
\* also when it is older than 30 seconds: any entry may be.  L is the cache
\* before the visit, C its history.
Visit(p, L, C) ==
  /\ prefix' = p
  /\ selected' = SelectionFollows(p)
  /\ IF p = prefix \/ L[p].fetch # None THEN list' = L
     ELSE \/ (L[p].loaded \/ Fetches(L[p])) /\ list' = [L EXCEPT ![p] = Started(@)]
          \/ ~Fetches(L[p]) /\ list' = L
  /\ crossed' = IF list'[p] # L[p] THEN [C EXCEPT ![p].fetch = FALSE] ELSE C
  /\ stray' = IF p = prefix THEN stray ELSE {}
  /\ grant' = GrantAfter(list', p, grant)
-----------------------------------------------------------------------------
(* Moving between prefixes *)

\* handlePrefixInput: the debounce starts over.
Type(p) ==
  /\ Free /\ ~AccessDenied
  /\ typed' = p
  /\ UNCHANGED <<svars, prefix, selected, lvars, dvars, rvars, gvars, hvars, avars>>

DebounceFires ==
  /\ typed # None
  /\ Visit(typed, list, crossed)
  /\ typed' = None
  /\ UNCHANGED <<svars, dvars, rvars, lookup, granting, acts, gone, avars>>

\* goToPrefix: a pending debounce is dropped.
GoToPrefix(p, L, C) == Visit(p, L, C) /\ typed' = None

\* The breadcrumb and "../" are always there, the folders with the listing.
Click(p) ==
  /\ Free /\ p # prefix
  /\ p = Parent[prefix] \/ (Parent[p] = prefix /\ ~AccessDenied /\ list[prefix].loaded)
  /\ GoToPrefix(p, list, crossed)
  /\ UNCHANGED <<svars, dvars, rvars, lookup, granting, gone, avars>>

\* Back, forward or a link: the prefix changes from outside, dialog or not.
BackOrForward(p) ==
  /\ Act /\ p # prefix
  /\ Visit(p, list, crossed)
  /\ UNCHANGED <<svars, typed, dvars, rvars, lookup, granting, gone, avars>>

-----------------------------------------------------------------------------
(* The listing: listObjects *)

FirstN(S, n) == {k \in S : Cardinality({j \in S : j <= k}) <= n}

\* Refetch a stale entry (the window gets the focus back).
Refocus ==
  /\ Act /\ list[prefix].fetch = None
  /\ list'    = [list EXCEPT ![prefix] = Started(@)]
  /\ crossed' = [crossed EXCEPT ![prefix].fetch = FALSE]
  /\ UNCHANGED <<svars, pvars, dvars, rvars, gvars, hvars, avars>>

\* "Load more": whatever was being fetched is dropped for it.
FetchNextPage ==
  LET l == list[prefix] IN
  /\ Free /\ ~AccessDenied /\ l.st = "success" /\ l.more
  /\ ~(l.fetch # None /\ l.next)
  /\ list' = [list EXCEPT ![prefix] = [Started(l) EXCEPT !.next = TRUE]]
  /\ crossed' = [crossed EXCEPT ![prefix].fetch = l.fetch # None \/ crossed[prefix].data]
  /\ UNCHANGED <<svars, pvars, dvars, rvars, gvars, hvars, avars>>

\* S3 answers: all loaded pages again, or the page after the last key.
S3Lists(p) ==
  LET l    == list[p]
      all  == Listed[p] \cap objs
      rest == IF l.next THEN {k \in all : \A j \in l.data : k > j} ELSE all
      n    == IF l.next THEN PageSize ELSE l.pages * PageSize
  IN
  /\ l.fetch = "sent"
  /\ list' = [list EXCEPT ![p] =
       IF Usable
       THEN [l EXCEPT !.fetch = "answered", !.answer = IF FirstN(rest, n) = rest THEN "end" ELSE "more",
                      !.got = FirstN(rest, n)]
       ELSE [l EXCEPT !.fetch = "answered", !.answer = "denied"]]
  /\ UNCHANGED <<svars, pvars, dvars, rvars, gvars, acts, hvars, avars, crossed>>

\* 5xx or no answer, the retry included.
ListFails(p) ==
  /\ list[p].fetch = "sent"
  /\ list' = [list EXCEPT ![p] = [@ EXCEPT !.fetch = "answered", !.answer = "failed"]]
  /\ UNCHANGED <<svars, pvars, dvars, rvars, gvars, acts, hvars, avars, crossed>>

Landed(l) ==
  IF l.answer \in {"denied", "failed"}
  THEN [l EXCEPT !.st = "error", !.denied = l.answer = "denied", !.late = TRUE, !.stale = TRUE,
                 !.fetch = None, !.answer = None, !.got = {}]
  ELSE [l EXCEPT !.data = IF l.next THEN @ \cup l.got ELSE l.got, !.loaded = TRUE,
                 !.pages = IF l.next THEN @ + 1 ELSE @,
                 !.st = "success", !.denied = FALSE, !.more = l.answer = "more", !.stale = FALSE,
                 !.fetch = None, !.answer = None, !.got = {}]

\* The answer arrives; a listing that works forgets the last grant.
ListLands(p) ==
  /\ list[p].fetch = "answered"
  /\ list' = [list EXCEPT ![p] = Landed(@)]
  /\ crossed' = [crossed EXCEPT ![p].data = crossed[p].fetch]
  /\ grant'  = GrantAfter(list', prefix, grant)
  /\ proved' = (proved \/ (p = prefix /\ list'[p].st = "success"))
  /\ UNCHANGED <<svars, pvars, dvars, rvars, lookup, granting, acts, hvars, excused>>

-----------------------------------------------------------------------------
(* The selection *)

Select(S) ==
  /\ selected' = S
  /\ UNCHANGED <<svars, prefix, typed, lvars, dvars, rvars, gvars, hvars, avars>>

Toggle(k) == Free /\ k \in ShownRows /\ Select((selected \ {k}) \cup ({k} \ selected))

ToggleAll ==
  /\ Free /\ ~AccessDenied /\ list[prefix].st = "success"
  /\ Select(IF ShownRows # {} /\ ShownRows \subseteq selected
            THEN selected \ ShownRows ELSE selected \cup ShownRows)

Unselect == Free /\ selected # {} /\ Select({})

\* The ZIP: the mutation ends when the ticket is there, and unselects.
ZipStart ==
  /\ Free /\ selected # {} /\ ~zip
  /\ zip' = TRUE
  /\ UNCHANGED <<svars, pvars, lvars, dvars, summary, gvars, hvars, avars>>

ZipAnswers(ok) ==
  /\ zip /\ zip' = FALSE
  /\ selected' = IF ok THEN {} ELSE selected
  /\ UNCHANGED <<svars, prefix, typed, lvars, dvars, summary, gvars, acts, hvars, avars>>

-----------------------------------------------------------------------------
(* Deletions: a dialog, a call, its effect, its answer *)

AskSingle(k) ==
  /\ Free /\ k \in ShownRows
  /\ single' = {k} /\ open' = open \cup {"single"}
  /\ UNCHANGED <<svars, pvars, lvars, folder, call, rvars, gvars, hvars, avars>>

AskBulk ==
  /\ Free /\ selected # {} /\ call["bulk"].st = None
  /\ open' = open \cup {"bulk"}
  /\ UNCHANGED <<svars, pvars, lvars, single, folder, call, rvars, gvars, hvars, avars>>

\* "Delete everything under this prefix" first asks for the number of objects.
AskSummary ==
  /\ Free /\ prefix # Home /\ ~AccessDenied /\ summary = None
  /\ summary' = prefix
  /\ UNCHANGED <<svars, pvars, lvars, dvars, zip, gvars, hvars, avars>>

SummaryAnswers(ok) ==
  /\ ok => Usable
  /\ summary # None /\ summary' = None
  /\ IF ok
     THEN /\ folder' = [prefix |-> summary, count |-> Cardinality(Below[summary] \cap objs)]
          /\ open' = open \cup {"prefix"}
     ELSE UNCHANGED <<folder, open>>
  /\ UNCHANGED <<svars, pvars, lvars, single, call, zip, gvars, acts, hvars, avars>>

\* A dialog is open as long as it has its target.
Closed(d) ==
  /\ open'   = open \ {d}
  /\ single' = IF d = "single" THEN {} ELSE single
  /\ folder' = IF d = "prefix" THEN NoFolder ELSE folder

\* Not while the confirmed call is under way.
Cancel(d) ==
  /\ Act /\ d \in open
  /\ IF d \in Deletions THEN call[d].st = None ELSE granting = None
  /\ Closed(d)
  /\ UNCHANGED <<svars, pvars, lvars, call, rvars, gvars, hvars, avars>>

Target(d) ==
  CASE d = "single" -> single
    [] d = "bulk"   -> selected
    [] d = "prefix" -> Below[folder.prefix]

\* The keys are those of the moment of the confirmation.
Confirm(d) ==
  /\ Act /\ d \in open /\ call[d].st = None
  /\ d = "prefix" => folder.count > 0
  /\ call' = [call EXCEPT ![d] = [NoCall EXCEPT !.st = "sent", !.keys = Target(d),
                                           !.from = IF d = "prefix" THEN folder.prefix ELSE prefix,
                                           !.stray = stray]]
  /\ UNCHANGED <<svars, pvars, lvars, open, single, folder, rvars, gvars, hvars, avars>>

\* What module ObjectDelete promises of an answer: without errors and not
\* truncated, every key is gone.  A failed request may have done some of it.
DeleteHappens(d, D, F, whole) ==
  LET c == call[d] IN
  /\ c.st = "sent" /\ c.keys # {} /\ Usable
  /\ D \subseteq c.keys \cap objs /\ F \subseteq c.keys \ D
  /\ whole => F = {} /\ D = c.keys \cap objs
  /\ d = "single" => whole
  /\ d = "bulk"   => whole \/ F # {}
  /\ objs' = objs \ D
  /\ call' = [call EXCEPT ![d] = [@ EXCEPT !.st = "ok", !.failed = F, !.whole = whole,
                                           !.deleted = D \cup (IF whole THEN c.keys ELSE {})]]
  /\ UNCHANGED <<perm, key, pvars, lvars, open, single, folder, rvars, gvars, acts, hvars, avars>>

DeleteFails(d, D) ==
  /\ call[d].st = "sent"
  /\ D \subseteq call[d].keys \cap objs /\ (D = {} \/ Usable)
  /\ objs' = objs \ D
  /\ call' = [call EXCEPT ![d].st = "error"]
  /\ UNCHANGED <<perm, key, pvars, lvars, open, single, folder, rvars, gvars, acts, hvars, avars>>

\* onError: the dialog stays open.
ErrorAnswers(d) ==
  /\ call[d].st = "error"
  /\ call' = [call EXCEPT ![d] = NoCall]
  /\ UNCHANGED <<svars, pvars, lvars, open, single, folder, rvars, gvars, acts, hvars, avars>>

\* onSuccess, common part: refresh the listings, close the dialog.
Succeeds(d) ==
  /\ call[d].st = "ok"
  /\ call' = [call EXCEPT ![d] = NoCall]
  /\ Closed(d)
  /\ gone' = gone \cup (call[d].deleted \ objs)
  /\ UNCHANGED <<svars, rvars, lookup, granting, acts, avars>>

SingleAnswers ==
  /\ Succeeds("single")
  /\ list' = Invalidated(list) /\ crossed' = Crossing
  /\ selected' = selected \ call["single"].keys
  /\ grant' = GrantAfter(list', prefix, grant)
  /\ UNCHANGED <<prefix, typed, stray>>

\* "Keep only the keys that failed selected so they can be retried."
BulkAnswers ==
  LET c == call["bulk"] IN
  /\ Succeeds("bulk")
  /\ list' = Invalidated(list) /\ crossed' = Crossing
  /\ selected' = c.failed
  /\ stray' = stray \cup (IF c.from = prefix THEN c.failed \cap c.stray ELSE c.failed)
  /\ grant' = GrantAfter(list', prefix, grant)
  /\ UNCHANGED <<prefix, typed>>

\* A prefix that is gone and still on screen is left for its parent.
PrefixAnswers ==
  /\ Succeeds("prefix")
  /\ IF call["prefix"].whole /\ call["prefix"].from = prefix
     THEN GoToPrefix(Parent[prefix], Invalidated(list), Crossing)
     ELSE /\ list' = Invalidated(list) /\ crossed' = Crossing
          /\ grant' = GrantAfter(list', prefix, grant)
          /\ UNCHANGED <<pvars, stray>>

-----------------------------------------------------------------------------
(* Access for the console's key *)

\* useConsoleKey looks the key up while the listing is refused; a failed
\* lookup leaves it unknown.
LookupAnswers ==
  /\ list[prefix].st = "error" /\ list[prefix].denied /\ lookup = None
  /\ lookup' = IF key \in {"expired", "missing"} THEN key ELSE "fine"
  /\ UNCHANGED <<svars, pvars, lvars, dvars, rvars, granting, grant, acts, hvars, avars>>

AskGrant ==
  /\ Free /\ View(list[prefix]) = "grant"
  /\ open' = open \cup {"grant"}
  /\ UNCHANGED <<svars, pvars, lvars, single, folder, call, rvars, gvars, hvars, avars>>

ConfirmGrant ==
  /\ Act /\ "grant" \in open /\ granting = None
  /\ granting' = "sent"
  /\ UNCHANGED <<svars, pvars, lvars, dvars, rvars, lookup, grant, hvars, avars>>

\* Garage knows the key, whatever the secret the console has for it.
GrantHappens ==
  /\ granting = "sent"
  /\ IF key = "missing"
     THEN granting' = "missing" /\ UNCHANGED <<perm, avars>>
     ELSE /\ granting' = IF perm THEN "unchanged" ELSE "changed"
          /\ perm' = TRUE
          /\ proved' = FALSE /\ excused' = FALSE
  /\ UNCHANGED <<objs, key, pvars, lvars, dvars, rvars, lookup, grant, acts, hvars>>

\* An error, or no answer to a grant that happened or did not.
GrantFails ==
  /\ granting = "sent" /\ granting' = "failed"
  /\ perm' \in {perm, key # "missing"}
  /\ UNCHANGED <<objs, key, pvars, lvars, dvars, rvars, lookup, grant, acts, hvars, avars>>

\* onSettled refreshes the listings, then the outcome is recorded with the
\* time: no error so far is later than it.
GrantAnswers ==
  LET unlate == [p \in Prefixes |-> [list[p] EXCEPT !.late = FALSE]] IN
  /\ granting \notin {None, "sent"} /\ granting' = None
  /\ list' = Invalidated(unlate) /\ crossed' = Crossing
  /\ grant' = GrantAfter(list', prefix, granting)
  /\ proved' = (list'[prefix].st = "success")
  /\ open' = IF granting \in {"changed", "unchanged"} THEN open \ {"grant"} ELSE open
  /\ UNCHANGED <<svars, pvars, single, folder, call, rvars, lookup, acts, hvars, excused>>

-----------------------------------------------------------------------------
(* Others: other operators, S3 clients, and this tab's upload queue *)

Others ==
  /\ Act
  /\ UNCHANGED <<key, pvars, dvars, rvars, lookup, granting, stray>>

OtherPuts(k) ==
  /\ Others
  /\ objs' = objs \cup {k} /\ gone' = gone \ {k}
  /\ UNCHANGED <<perm, lvars, grant, avars>>

OtherRemoves(k) ==
  /\ Others
  /\ objs' = objs \ {k}
  /\ UNCHANGED <<perm, lvars, grant, gone, avars>>

ChangePermission ==
  /\ Others
  /\ perm' = ~perm
  /\ excused' = (excused \/ (perm /\ (~proved \/ granting # None)))
  /\ UNCHANGED <<objs, lvars, grant, gone, proved>>

\* onUploaded: the queue drained.
UploadsDrain(k) ==
  /\ Others
  /\ objs' = objs \cup {k} /\ gone' = gone \ {k}
  /\ list' = Invalidated(list) /\ crossed' = Crossing
  /\ grant' = GrantAfter(list', prefix, grant)
  /\ UNCHANGED <<perm, avars>>

-----------------------------------------------------------------------------
Navigate ==
  \/ \E p \in Prefixes : Type(p) \/ Click(p) \/ BackOrForward(p)
  \/ DebounceFires

Listing ==
  \/ Refocus \/ FetchNextPage
  \/ \E p \in Prefixes : S3Lists(p) \/ ListFails(p) \/ ListLands(p)

Choose ==
  \/ \E k \in Objects : Toggle(k)
  \/ ToggleAll \/ Unselect \/ ZipStart
  \/ \E ok \in BOOLEAN : ZipAnswers(ok)

Delete ==
  \/ \E k \in Objects : AskSingle(k)
  \/ AskBulk \/ AskSummary
  \/ \E ok \in BOOLEAN : SummaryAnswers(ok)
  \/ \E d \in Deletions \cup {"grant"} : Cancel(d)
  \/ \E d \in Deletions :
       \/ Confirm(d) \/ ErrorAnswers(d)
       \/ \E D \in SUBSET Objects :
            \/ DeleteFails(d, D)
            \/ \E F \in SUBSET Objects, whole \in BOOLEAN : DeleteHappens(d, D, F, whole)
  \/ SingleAnswers \/ BulkAnswers \/ PrefixAnswers

Access == LookupAnswers \/ AskGrant \/ ConfirmGrant \/ GrantHappens \/ GrantFails \/ GrantAnswers

Outside == ChangePermission \/ \E k \in Objects : OtherPuts(k) \/ OtherRemoves(k) \/ UploadsDrain(k)

BrowserNext == Navigate \/ Listing \/ Choose \/ Delete \/ Access \/ Outside

BrowserSpec == BrowserInit /\ [][BrowserNext]_bvars
-----------------------------------------------------------------------------
(* Properties *)

Outcomes == {None, "changed", "unchanged", "missing", "failed"}

Listings ==
  [data : SUBSET Objects, loaded : BOOLEAN, st : {"pending", "success", "error"}, pages : Nat,
   more : BOOLEAN, denied : BOOLEAN, late : BOOLEAN, stale : BOOLEAN,
   fetch : {None, "sent", "answered"}, next : BOOLEAN,
   answer : {None, "end", "more", "denied", "failed"}, got : SUBSET Objects]

Calls ==
  [st : {None, "sent", "ok", "error"}, keys : SUBSET Objects, from : Prefixes,
   failed : SUBSET Objects, whole : BOOLEAN, deleted : SUBSET Objects, stray : SUBSET Objects]

\* Every variable has its type; the listing on screen always has data, an
\* error or a fetch under way: the page never loads forever.
BrowserTypes ==
  /\ objs \subseteq Objects /\ perm \in BOOLEAN /\ key \in KeyStates
  /\ prefix \in Prefixes /\ typed \in Prefixes \cup {None}
  /\ selected \subseteq Objects
  /\ list \in [Prefixes -> Listings]
  /\ open \subseteq Deletions \cup {"grant"}
  /\ single \subseteq Objects
  /\ folder \in [prefix : Prefixes \cup {None}, count : Nat]
  /\ summary \in Prefixes \cup {None} /\ zip \in BOOLEAN
  /\ call \in [Deletions -> Calls]
  /\ lookup \in {None, "fine", "expired", "missing"}
  /\ granting \in Outcomes \cup {"sent"} /\ grant \in Outcomes
  /\ gone \subseteq Objects /\ stray \subseteq Objects
  /\ crossed \in [Prefixes -> [fetch : BOOLEAN, data : BOOLEAN]]
  /\ proved \in BOOLEAN /\ excused \in BOOLEAN
  /\ list[prefix].st = "pending" => list[prefix].fetch # None

\* "Granting is offered only when it can help": with the listing settled and no
\* grant under way, the panel blames the key itself only if the key is at fault,
\* or its permission was taken away again before a listing worked.  An answer
\* from before the grant, or a revocation long after it, never makes the key look
\* broken; except the answer of a fetch that the grant's refresh did not drop:
\* one without data that was under way, or one of another prefix.
BlameIsEvidenced ==
  /\ list[prefix].fetch = None /\ ~crossed[prefix].data
  /\ granting = None /\ View(list[prefix]) = "key-invalid"
  => key # "good" \/ excused

\* Once this tab was told that it deleted an object, the settled listing on
\* screen does not show it, whatever fetches were under way; except when the
\* listing was fetched across the answer for a prefix that was not on screen or
\* for the first time, which an invalidation does not fetch again, or when "load
\* more" was clicked during the refresh, which drops the refresh.
OwnDeletesLeave ==
  list[prefix].fetch = None /\ ~crossed[prefix].data => ShownRows \cap gone = {}

\* A key of another prefix is selected only when a deletion that was confirmed
\* there failed for it after the prefix was left.
StrayOnlyFailed == selected \ Listed[prefix] \subseteq stray

\* What a deletion leaves on the page: neither the objects it deleted nor a
\* selection of what is not listed, except as the two above say.
DeletionsSettle == OwnDeletesLeave /\ StrayOnlyFailed

\* The comment on the change of the prefix: "objects that are no longer visible
\* must not ride along into a ZIP or a bulk delete".
SelectedIsVisible == selected \subseteq Listed[prefix]

\* The inductive invariant behind them.  What each cached listing says of the
\* objects in G, those that are gone, and how it got there.
EntryInv(p, l, c, G) ==
  /\ l.data \subseteq Listed[p] /\ l.got \subseteq Listed[p]
  /\ l.answer # None <=> l.fetch = "answered"
  /\ l.fetch # "answered" => l.got = {}
  /\ l.st = "error" => l.stale
  /\ l.loaded => l.st # "pending"
  /\ l.got \cap G # {} => c.fetch
  /\ l.next /\ l.fetch # None /\ l.data \cap G # {} => c.fetch
  /\ l.data \cap G # {} => c.data \/ l.fetch # None \/ l.stale

\* The listing on screen is fetched when it is stale, and settled only by an
\* answer; a listing that works forgets the grant.
ScreenInv ==
  /\ list[prefix].stale /\ list[prefix].fetch = None => list[prefix].st = "error"
  /\ list[prefix].st = "success" => grant = None
  /\ grant # None => ~proved

CallInv ==
  /\ folder.count > 0 => folder.prefix \in Prefixes
  /\ call["bulk"].failed \subseteq call["bulk"].keys
  /\ call["bulk"].keys \ Listed[call["bulk"].from] \subseteq call["bulk"].stray

\* With a good key, a grant that went through leaves the permission there or its
\* loss excused, so a refusal is from before its refresh.
Granted == grant \in {"changed", "unchanged"} /\ granting \notin {"changed", "unchanged"}

AccessInv ==
  key = "good" =>
    /\ Granted \/ granting \in {"changed", "unchanged"} => perm \/ excused
    /\ Granted /\ ~excused =>
         /\ \A p \in Prefixes : list[p].answer = "denied" => crossed[p].fetch
         /\ LET l == list[prefix] IN
            l.fetch = None /\ l.st = "error" /\ l.denied => crossed[prefix].data

BrowserInv ==
  /\ gone \cap objs = {}
  /\ \A p \in Prefixes : EntryInv(p, list[p], crossed[p], gone)
  /\ ScreenInv /\ CallInv /\ AccessInv /\ StrayOnlyFailed
=============================================================================
