------------------------------- MODULE Upload -------------------------------
(***************************************************************************)
(* Uploads into one bucket: the queue in the browser (ObjectUploader in    *)
(* frontend/src/components/object-browser.tsx), which keeps a bounded      *)
(* number of requests in flight, and the handler of each request           *)
(* (backend/handler_objects.go, handleUploadObject), which asks S3 whether *)
(* the key exists and then writes.                                         *)
(*                                                                         *)
(* The uploader is mounted only while the listing is not refused.  Its     *)
(* queue lives in closures: it goes on when the uploader is unmounted,     *)
(* and an uploader mounted later starts with an empty one.                 *)
(***************************************************************************)
EXTENDS Naturals, Sequences, FiniteSets

CONSTANTS
  Files, Keys,
  KeyOf,          \* KeyOf[f]: the key f is uploaded to
  MaxConcurrent,  \* MAX_CONCURRENT_UPLOADS
  MaxTries,       \* bound on the requests of a behaviour
  MaxMounts,      \* bound on how often the uploader is mounted
  MaxForeign      \* bound on what others do to the objects

ASSUME UploadAssumption ==
  /\ KeyOf \in [Files -> Keys] /\ IsFiniteSet(Files)
  /\ MaxConcurrent \in Nat \ {0} /\ MaxTries \in Nat
  /\ MaxMounts \in Nat \ {0} /\ MaxForeign \in Nat

VARIABLES
  exists,           \* S3: the keys that have an object
  mount, mounted,   \* which uploader it is, and whether it is there
  file,             \* file[f]: its row in the uploader it was given to
  pending, active,  \* per uploader: pendingUploads and activeUploads
  tries,            \* the requests sent so far, in order
  foreign,          \* counter of MaxForeign
  replaced,         \* history: the requests that replaced an object they were
                    \* not to replace and that was there when they asked
  unlisted          \* history, per uploader: it wrote an object since it last
                    \* refreshed the listing

qvars == <<file, pending, active, tries>>
mvars == <<mount, mounted>>
vars  == <<exists, mvars, qvars, foreign, replaced, unlisted>>

Mounts == 1..MaxMounts

\* A row: "none" is a file that was not chosen yet, or whose row was dismissed.
Row(st, over, m) == [st |-> st, over |-> over, in |-> m]

\* A request.  srv is where the handler is, cli whether the browser waits;
\* raced: somebody wrote the key since the handler asked for it.
Request(f) == [file |-> f, over |-> file[f].over, in |-> file[f].in,
               srv |-> "check", cli |-> "waits", raced |-> FALSE]

InFlight == {n \in 1..Len(tries) : tries[n].cli = "waits"}

-----------------------------------------------------------------------------
Init ==
  /\ exists \in SUBSET Keys
  /\ mount = 1 /\ mounted = TRUE
  /\ file = [f \in Files |-> Row("none", FALSE, 1)]
  /\ pending = [m \in Mounts |-> <<>>] /\ active = [m \in Mounts |-> 0]
  /\ tries = <<>>
  /\ foreign = 0 /\ replaced = {} /\ unlisted = [m \in Mounts |-> FALSE]

\* What is free of the slots when n requests are in flight.
FreeSlots(n) == MaxConcurrent - n

PeekOnly(queue, k) == SubSeq(queue, IF k = 0 THEN 1 ELSE k, Len(queue))

\* What waits when the first k files of the queue are sent.
Waiting(queue, k) == SubSeq(queue, k + 1, Len(queue))

\* pumpUploads for uploader m, whose rows, queue and count of requests have
\* just become rows, queue and n: what fits is sent.
Pump(m, rows, queue, n, ts) ==
  LET k == IF Len(queue) <= FreeSlots(n) THEN Len(queue) ELSE FreeSlots(n)
      sent == SubSeq(queue, 1, k)
  IN
  /\ Len(ts) + k <= MaxTries
  /\ pending' = [pending EXCEPT ![m] = Waiting(queue, k)]
  /\ active'  = [active EXCEPT ![m] = n + k]
  /\ file' = [f \in Files |->
       IF \E i \in 1..k : sent[i] = f THEN [rows[f] EXCEPT !.st = "uploading"] ELSE rows[f]]
  /\ tries' = ts \o [i \in 1..k |-> [Request(sent[i]) EXCEPT !.over = rows[sent[i]].over,
                                                             !.in = m]]

\* The files of S in some order.
Orders(S) == {s \in [1..Cardinality(S) -> S] : \A i, j \in DOMAIN s : s[i] = s[j] => i = j}

\* enqueueFiles: chosen or dropped files, never to replace anything.
Enqueue(s) ==
  /\ mounted /\ s # <<>>
  /\ \A i \in DOMAIN s : file[s[i]].st = "none"
  /\ LET rows == [f \in Files |->
           IF \E i \in DOMAIN s : s[i] = f THEN Row("queued", FALSE, mount) ELSE file[f]]
     IN Pump(mount, rows, pending[mount] \o s, active[mount], tries)
  /\ UNCHANGED <<exists, mvars, foreign, replaced, unlisted>>

Shown(f) == mounted /\ file[f].in = mount /\ file[f].st # "none"

\* "Items already queued or in flight are skipped."
Requeueable(f) ==
  /\ Shown(f)
  /\ file[f].st \notin {"queued", "uploading"}
  /\ \A i \in 1..Len(pending[mount]) : pending[mount][i] # f

Requeue(s, over) ==
  LET rows == [f \in Files |->
        IF \E i \in DOMAIN s : s[i] = f THEN Row("queued", over[f], mount) ELSE file[f]]
  IN
  /\ s # <<>> /\ \A i \in DOMAIN s : Requeueable(s[i])
  /\ Pump(mount, rows, pending[mount] \o s, active[mount], tries)
  /\ UNCHANGED <<exists, mvars, foreign, replaced, unlisted>>

Overwriting == [f \in Files |-> TRUE]

\* "Overwrite" on one conflict or on all, "retry" on a failure.
OverwriteOne(f) == file[f].st = "conflict" /\ Requeue(<<f>>, Overwriting)
OverwriteAll ==
  \E s \in Orders({f \in Files : Shown(f) /\ file[f].st = "conflict"}) : Requeue(s, Overwriting)
Retry(f) == file[f].st = "error" /\ Requeue(<<f>>, [g \in Files |-> file[g].over])

\* dismissUploads: one conflict, all conflicts, or all that is finished.
Dismiss(S) ==
  /\ S # {}
  /\ \/ \E f \in Files : S = {f} /\ Shown(f) /\ file[f].st = "conflict"
     \/ S = {f \in Files : Shown(f) /\ file[f].st = "conflict"}
     \/ S = {f \in Files : Shown(f) /\ file[f].st \in {"done", "error"}}
  /\ file' = [f \in Files |-> IF f \in S THEN Row("none", FALSE, mount) ELSE file[f]]
  /\ UNCHANGED <<exists, mvars, pending, active, tries, foreign, replaced, unlisted>>

-----------------------------------------------------------------------------
(* The answer in the browser *)

RefreshOnSuccess(m, n, st) == IF n = 0 /\ st = "done" THEN FALSE ELSE unlisted[m]

\* onUploaded, when the last request of the queue is done.
Refreshed(m, n, st) == IF n = 0 THEN FALSE ELSE unlisted[m]

SlotOnSuccess(m, st) == IF st = "done" THEN active[m] - 1 ELSE active[m]

\* .finally: the slot is given back however the request ended.
SlotsAfter(m, st) == active[m] - 1

\* The promise of request n settles as st: the row, the slot, the next file,
\* and the refresh of the listing.
Settle(n, st) ==
  LET t == tries[n]
      m == t.in
      rows == IF file[t.file].in = m THEN [file EXCEPT ![t.file].st = st] ELSE file
  IN
  /\ Pump(m, rows, pending[m], SlotsAfter(m, st), [tries EXCEPT ![n].cli = "settled"])
  /\ unlisted' = [unlisted EXCEPT ![m] = Refreshed(m, active'[m], st)]
  /\ UNCHANGED <<exists, mvars, foreign, replaced>>

Answer(n) ==
  /\ n \in InFlight
  /\ \/ tries[n].srv = "written"  /\ Settle(n, "done")
     \/ tries[n].srv = "conflict" /\ Settle(n, "conflict")
     \/ tries[n].srv = "failed"   /\ Settle(n, "error")

\* The connection breaks; the handler may not notice any more.
Break(n) == n \in InFlight /\ Settle(n, "error")

-----------------------------------------------------------------------------
(* The handler *)

Serve(n, srv) ==
  /\ tries' = [tries EXCEPT ![n].srv = srv]
  /\ UNCHANGED <<mvars, file, pending, active, foreign>>

AbsentOnError(n) == tries[n].srv = "check"

\* HeadObject says that the key is free; any error but "not found" ends it.
FoundFree(n) == tries[n].srv = "check" /\ (tries[n].over \/ KeyOf[tries[n].file] \notin exists)

\* checkOverwrite lets the upload go on.
PassesCheck(n) == FoundFree(n) /\ Serve(n, "write") /\ UNCHANGED <<exists, replaced, unlisted>>

FindsConflict(n) ==
  /\ tries[n].srv = "check" /\ ~tries[n].over /\ KeyOf[tries[n].file] \in exists
  /\ Serve(n, "conflict")
  /\ UNCHANGED <<exists, replaced, unlisted>>

\* Too large, malformed, or S3 fails before anything is written.
Fails(n) ==
  /\ tries[n].srv \in {"check", "write"}
  /\ Serve(n, "failed")
  /\ UNCHANGED <<exists, replaced, unlisted>>

\* S3 has the object; its answer may still be lost.
Writes(n, srv) ==
  LET t == tries[n]  k == KeyOf[t.file] IN
  /\ t.srv = "write"
  /\ exists' = exists \cup {k}
  /\ tries' = [i \in 1..Len(tries) |->
       IF i = n THEN [t EXCEPT !.srv = srv]
       ELSE [tries[i] EXCEPT !.raced = @ \/ (KeyOf[tries[i].file] = k /\ tries[i].srv = "write")]]
  /\ replaced' = IF k \in exists /\ ~t.over /\ ~t.raced THEN replaced \cup {n} ELSE replaced
  /\ unlisted' = [unlisted EXCEPT ![t.in] = @ \/ t.cli = "waits"]
  /\ UNCHANGED <<mvars, file, pending, active, foreign>>

Handler(n) ==
  \/ PassesCheck(n) \/ FindsConflict(n) \/ Fails(n)
  \/ Writes(n, "written") \/ Writes(n, "failed")

-----------------------------------------------------------------------------
(* Around it *)

\* The listing is refused, and the uploader goes; it works again, and a new
\* uploader comes.
Unmount ==
  /\ mounted /\ mounted' = FALSE
  /\ UNCHANGED <<exists, mount, qvars, foreign, replaced, unlisted>>

Mount ==
  /\ ~mounted /\ mount < MaxMounts
  /\ mounted' = TRUE /\ mount' = mount + 1
  /\ UNCHANGED <<exists, qvars, foreign, replaced, unlisted>>

\* Others upload and delete.
Put(k) ==
  /\ foreign < MaxForeign /\ foreign' = foreign + 1
  /\ exists' = exists \cup {k}
  /\ tries' = [i \in 1..Len(tries) |->
       [tries[i] EXCEPT !.raced = @ \/ (KeyOf[tries[i].file] = k /\ tries[i].srv = "write")]]
  /\ UNCHANGED <<mvars, file, pending, active, replaced, unlisted>>

Remove(k) ==
  /\ foreign < MaxForeign /\ foreign' = foreign + 1
  /\ exists' = exists \ {k}
  /\ UNCHANGED <<mvars, qvars, replaced, unlisted>>

Next ==
  \/ \E S \in SUBSET Files : Dismiss(S) \/ \E s \in Orders(S) : Enqueue(s)
  \/ \E f \in Files : OverwriteOne(f) \/ Retry(f)
  \/ OverwriteAll
  \/ \E n \in 1..Len(tries) : Answer(n) \/ Break(n) \/ Handler(n)
  \/ Unmount \/ Mount
  \/ \E k \in Keys : Put(k) \/ Remove(k)

Spec == Init /\ [][Next]_vars
-----------------------------------------------------------------------------
(* Properties *)

Queued(m) == {pending[m][i] : i \in 1..Len(pending[m])}
Sending(m) == {n \in InFlight : tries[n].in = m}

\* Every variable has its type.
TypeOK ==
  /\ exists \subseteq Keys /\ mount \in Mounts /\ mounted \in BOOLEAN
  /\ file \in [Files -> [st : {"none", "queued", "uploading", "done", "error", "conflict"},
                         over : BOOLEAN, in : Mounts]]
  /\ pending \in [Mounts -> Seq(Files)] /\ active \in [Mounts -> 0..MaxConcurrent]
  /\ tries \in Seq([file : Files, over : BOOLEAN, in : Mounts, raced : BOOLEAN,
                    srv : {"check", "write", "written", "conflict", "failed"},
                    cli : {"waits", "settled"}])
  /\ unlisted \in [Mounts -> BOOLEAN]

\* "So a double click cannot start the same upload twice": no file is queued
\* or in flight twice in one uploader.
EachFileOnce ==
  \A m \in Mounts :
    /\ \A i, j \in 1..Len(pending[m]) : pending[m][i] = pending[m][j] => i = j
    /\ \A n \in Sending(m) : tries[n].file \notin Queued(m)
    /\ \A n, o \in Sending(m) : tries[n].file = tries[o].file => n = o

\* No slot leaks and no file is forgotten: an uploader, mounted or not, counts
\* its requests right and has files waiting only while all slots are taken.
NoIdleSlot ==
  \A m \in Mounts :
    /\ active[m] = Cardinality(Sending(m))
    /\ pending[m] # <<>> => active[m] = MaxConcurrent

\* Without "overwrite" an upload replaces an object only if that was written
\* between this upload's check and its write.
ReplacesOnlyRaced == replaced = {}

\* When a queue has drained, the listing has been refreshed since its last
\* object was written, whichever request ended last and however.
ListingRefreshed == \A m \in Mounts : active[m] = 0 => ~unlisted[m]

\* The inductive invariant behind the four.  The rows, the queues, the counts
\* and the requests tell the same story, also while a handler is between its
\* update of the queue and pumpUploads: a file that waits is in one row of its
\* uploader, as "queued", one that is being sent as "uploading", and each once.
Waits(ts, m) == {n \in 1..Len(ts) : ts[n].cli = "waits" /\ ts[n].in = m}

Consistent(rows, queues, counts, ts) ==
  \A m \in Mounts :
    /\ \A i \in 1..Len(queues[m]) : rows[queues[m][i]].st = "queued" /\ rows[queues[m][i]].in = m
    /\ \A i, j \in 1..Len(queues[m]) : queues[m][i] = queues[m][j] => i = j
    /\ \A n \in Waits(ts, m) : rows[ts[n].file].st = "uploading" /\ rows[ts[n].file].in = m
    /\ \A n, o \in Waits(ts, m) : ts[n].file = ts[o].file => n = o
    /\ counts[m] = Cardinality(Waits(ts, m))

\* A handler that was told the key is free, and that nobody overtook, is right.
StillFree(ts) ==
  \A n \in 1..Len(ts) :
    ts[n].srv = "write" /\ ~ts[n].over /\ ~ts[n].raced => KeyOf[ts[n].file] \notin exists

UploadInv ==
  /\ Consistent(file, pending, active, tries)
  /\ \A m \in Mounts : pending[m] # <<>> => active[m] = MaxConcurrent
  /\ StillFree(tries) /\ ReplacesOnlyRaced /\ ListingRefreshed
=============================================================================
