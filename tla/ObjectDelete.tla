----------------------------- MODULE ObjectDelete ---------------------------
(***************************************************************************)
(* Bulk deletion of objects (backend/handler_objects.go): deleteKeys sends *)
(* DeleteObjects chunk by chunk; the batch handler gives it the keys the   *)
(* client selected, the prefix handler lists a page, deletes it and lists  *)
(* again after the page's last key, while other clients upload and delete. *)
(*                                                                         *)
(* Keys are the objects' names under the prefix, numbered in S3's order.   *)
(* One request is modelled.                                                *)
(***************************************************************************)
EXTENDS Naturals, FiniteSets

CONSTANTS
  Keys,           \* a set of numbers
  Chunk,          \* deleteObjectsChunk, also the size of a page
  MaxBatch,       \* maxBatchDeleteKeys
  MaxObjects      \* maxPrefixDeleteObjects

ASSUME DeleteAssumption ==
  /\ Keys \subseteq Nat \ {0} /\ IsFiniteSet(Keys)
  /\ Chunk \in Nat \ {0} /\ MaxObjects \in Nat \ {0} /\ MaxBatch \in Nat \ {0}

VARIABLES
  objects,    \* the keys that exist
  kind, pc,   \* of the request: "batch" or "prefix", and where it is
  asked,      \* the keys a batch names
  todo,       \* the keys deleteKeys has not sent yet
  after,      \* StartAfter
  more,       \* IsTruncated of the last page
  processed,  \* the keys of the pages dealt with
  deleted,    \* resp.Deleted
  errors,     \* resp.Errors: how many of the entries name a key
  truncated,  \* resp.Truncated
  gone,       \* history: the keys S3 confirmed as deleted
  fresh,      \* history: the keys other clients uploaded since the request
  taken       \* history: another client deleted something since the request

resp == <<deleted, errors, truncated>>
hist == <<gone, fresh, taken>>
vars == <<objects, kind, pc, asked, todo, after, more, processed, resp, hist>>

Stopped == 0      \* the error entry "listing stopped", which names no object

Working == {"list", "delete"}

\* The first n keys of S in S3's order.
FirstOf(S, n) == {k \in S : Cardinality({j \in S : j <= k}) <= n}

\* What deleteKeys sends at once: a chunk of what is left, in the order in which
\* the client named the keys.
ChunksOf(S) ==
  {T \in SUBSET S : Cardinality(T) = IF Cardinality(S) < Chunk THEN Cardinality(S) ELSE Chunk}

NoErrors == [k \in Keys \cup {Stopped} |-> 0]
WithErrors(S) == [k \in Keys \cup {Stopped} |-> errors[k] + IF k \in S THEN 1 ELSE 0]

-----------------------------------------------------------------------------
Init ==
  /\ objects \in SUBSET Keys
  /\ kind = "none" /\ pc = "idle"
  /\ asked = {} /\ todo = {} /\ after = 0 /\ more = FALSE /\ processed = 0
  /\ deleted = 0 /\ errors = NoErrors /\ truncated = FALSE
  /\ gone = {} /\ fresh = {} /\ taken = FALSE

\* DELETE /batch: no key, or too many, is a 400.
Batch(S) ==
  /\ pc = "idle"
  /\ kind'  = "batch"
  /\ asked' = S
  /\ IF S = {} \/ Cardinality(S) > MaxBatch
     THEN pc' = "rejected" /\ UNCHANGED todo
     ELSE pc' = "delete" /\ todo' = S
  /\ UNCHANGED <<objects, after, more, processed, resp, hist>>

\* DELETE /prefix: an empty prefix is a 400.
Prefix(empty) ==
  /\ pc = "idle"
  /\ kind' = "prefix"
  /\ pc' = IF empty THEN "rejected" ELSE "list"
  /\ UNCHANGED <<objects, asked, todo, after, more, processed, resp, hist>>

CapOffByOne(page) == FirstOf(page, MaxObjects + 1 - processed)

\* The keys of a page that the cap leaves.
Capped(page) == FirstOf(page, MaxObjects - processed)

CutOffAtCap(page) == page # {} /\ processed + Cardinality(page) >= MaxObjects

\* The cap left out keys of the page.
CutOff(page) == Capped(page) # page

\* MaxKeys of the listing.
Page(found) == FirstOf(found, Chunk)

\* ListObjectsV2 after StartAfter; an empty remainder ends the request.
ListPage ==
  LET found == {k \in objects : k > after}
      page  == Page(found)
      keys  == Capped(page)
  IN
  /\ pc = "list"
  /\ more' = (page # found)
  /\ truncated' = (truncated \/ CutOff(page))
  /\ todo' = keys
  /\ pc' = IF keys = {} THEN "answered" ELSE "delete"
  /\ UNCHANGED <<objects, kind, asked, after, processed, deleted, errors, hist>>

\* The listing fails: an error answer when nothing was dealt with yet, else an
\* entry that says so.
ListFails ==
  /\ pc = "list"
  /\ pc' = IF processed = 0 THEN "failed" ELSE "answered"
  /\ errors' = IF processed = 0 THEN errors ELSE WithErrors({Stopped})
  /\ UNCHANGED <<objects, kind, asked, todo, after, more, processed, deleted, truncated, hist>>

NeverSkips(keys) == 0

\* Where the next page begins: "StartAfter skips keys that failed to delete".
NextAfter(keys) == CHOOSE k \in keys : \A j \in keys : j <= k

\* What follows a chunk that S3 answered.
Continue(rest, keys) ==
  IF rest # {} THEN pc' = "delete" /\ UNCHANGED after
  ELSE IF kind = "batch" \/ truncated \/ ~more THEN pc' = "answered" /\ UNCHANGED after
  ELSE pc' = "list" /\ after' = NextAfter(keys)

\* DeleteObjects answers: some keys may be refused one by one.
DeleteChunk(keys, refused) ==
  /\ pc = "delete" /\ keys \in ChunksOf(todo) /\ refused \subseteq keys
  /\ objects' = objects \ (keys \ refused)
  /\ gone'    = gone \cup (keys \ refused)
  /\ deleted' = deleted + Cardinality(keys \ refused)
  /\ errors'  = WithErrors(refused)
  /\ processed' = processed + Cardinality(keys)
  /\ todo' = todo \ keys
  /\ Continue(todo \ keys, keys)
  /\ UNCHANGED <<kind, asked, more, truncated, fresh, taken>>

DropChunkErrors(keys, applied) ==
  /\ pc = "delete" /\ keys \in ChunksOf(todo) /\ applied \subseteq keys
  /\ objects' = objects \ applied
  /\ pc' = IF deleted = 0 THEN "failed" ELSE "answered"
  /\ UNCHANGED <<kind, asked, todo, after, more, processed, resp, hist>>

\* The DeleteObjects request fails, whatever S3 had done of it: its keys are
\* listed and the rest is left alone; with nothing deleted, an error answer.
DeleteFails(keys, applied) ==
  /\ pc = "delete" /\ keys \in ChunksOf(todo) /\ applied \subseteq keys
  /\ objects' = objects \ applied
  /\ errors'  = WithErrors(keys)
  /\ processed' = processed + Cardinality(keys)
  /\ pc' = IF deleted = 0 THEN "failed" ELSE "answered"
  /\ UNCHANGED <<kind, asked, todo, after, more, deleted, truncated, hist>>

\* Other clients of the bucket.
OtherPuts(k) ==
  /\ pc \in Working
  /\ objects' = objects \cup {k}
  /\ fresh'   = fresh \cup {k}
  /\ UNCHANGED <<kind, pc, asked, todo, after, more, processed, resp, gone, taken>>

OtherDeletes(k) ==
  /\ pc \in Working /\ k \in objects
  /\ objects' = objects \ {k}
  /\ taken'   = TRUE
  /\ UNCHANGED <<kind, pc, asked, todo, after, more, processed, resp, gone, fresh>>

Next ==
  \/ \E S \in SUBSET Keys : Batch(S)
  \/ \E empty \in BOOLEAN : Prefix(empty)
  \/ ListPage
  \/ ListFails
  \/ \E keys \in ChunksOf(todo) :
       \E S \in SUBSET keys : DeleteChunk(keys, S) \/ DeleteFails(keys, S)
  \/ \E k \in Keys : OtherPuts(k) \/ OtherDeletes(k)

Spec == Init /\ [][Next]_vars

-----------------------------------------------------------------------------
(* Properties *)

Answered(k) == pc = "answered" /\ kind = k
Listed == {k \in Keys \cup {Stopped} : errors[k] > 0}

\* Every variable has its type, and the keys in hand fit the request: a page
\* is never larger than a chunk.
TypeOK ==
  /\ objects \subseteq Keys /\ asked \subseteq Keys
  /\ kind \in {"none", "batch", "prefix"}
  /\ pc \in Working \cup {"idle", "rejected", "failed", "answered"}
  /\ todo \subseteq Keys /\ (kind = "prefix" => Cardinality(todo) <= Chunk)
  /\ after \in Keys \cup {0}
  /\ more \in BOOLEAN /\ truncated \in BOOLEAN /\ taken \in BOOLEAN
  /\ processed \in Nat /\ deleted \in Nat
  /\ errors \in [Keys \cup {Stopped} -> Nat]
  /\ gone \subseteq Keys /\ fresh \subseteq Keys

\* An answer with neither errors nor "truncated" - the one the browser reports
\* as complete, leaving the folder - means that nothing is left but what was
\* uploaded meanwhile.
CleanMeansGone ==
  Listed = {} /\ ~truncated =>
    /\ Answered("prefix") => objects \subseteq fresh
    /\ Answered("batch")  => objects \cap asked \subseteq fresh

\* Each object is reported once, as deleted or as an error, even when others
\* upload what was just deleted.
CountedOnce ==
  /\ deleted = Cardinality(gone)
  /\ \A k \in Listed : errors[k] = 1
  /\ gone \cap Listed = {}

\* One call deals with no more objects than its cap.
CapRespected ==
  Cardinality(gone \cup (Listed \ {Stopped})) <= IF kind = "batch" THEN MaxBatch ELSE MaxObjects

\* "truncated: true means more remain": unless other clients deleted them.
TruncatedMeansMore == Answered("prefix") /\ truncated /\ ~taken => objects # {}

\* The numbers of an answer are right: no object is counted twice, none beyond
\* the cap is touched, and "truncated" is said only while there is more to do.
CountsAreTrue == CountedOnce /\ CapRespected /\ TruncatedMeansMore

\* "Keep only the keys that failed selected so they can be retried": a key of
\* the batch that was not deleted is among the errors.
FailedKeysListed == Answered("batch") => asked \subseteq gone \cup Listed

\* The inductive invariant behind CleanMeansGone and CountsAreTrue: the keys
\* dealt with, the keys in hand and the keys still to be listed follow each
\* other; what the numbers count is what was dealt with; and what a clean answer
\* will say is gone is gone already, in hand, or still to be listed.
Touched == gone \cup (Listed \ {Stopped})

InHand ==
  /\ pc \in {"idle", "rejected"} =>
       Touched = {} /\ processed = 0 /\ todo = {} /\ after = 0 /\ ~truncated
  /\ pc # "answered" => Stopped \notin Listed
  /\ pc \in Working /\ ~(kind = "prefix" /\ pc = "delete") => ~truncated
  /\ pc = "list" => kind = "prefix" /\ \A k \in Touched : k <= after
  /\ pc = "delete" => /\ kind \in {"batch", "prefix"}
                      /\ todo # {} /\ todo \cap Touched = {}
                      /\ kind = "prefix" => /\ \A k \in Touched : k <= after
                                            /\ \A k \in todo : k > after

Counted ==
  /\ CountedOnce
  /\ kind = "batch" /\ pc # "rejected" => /\ Touched \subseteq asked
                                          /\ Cardinality(asked) <= MaxBatch
  /\ Cardinality(Touched) <= processed
  /\ kind # "batch" => processed + (IF pc = "delete" THEN Cardinality(todo) ELSE 0) <= MaxObjects

Cleared ==
  /\ objects \cap gone \subseteq fresh
  /\ kind = "batch" => /\ ~truncated
                       /\ pc = "delete" => todo \subseteq asked /\ asked \subseteq Touched \cup todo
                       /\ pc = "answered" => Listed # {} \/ asked \subseteq gone
  /\ kind = "prefix" /\ Listed = {} =>
       /\ pc = "list" => \A k \in objects \ fresh : k > after
       /\ pc = "delete" /\ ~truncated =>
            \A k \in (objects \ fresh) \ todo : more /\ \A j \in todo : k > j
       /\ pc = "answered" /\ ~truncated => objects \subseteq fresh

Remaining ==
  truncated /\ ~taken =>
    /\ pc = "delete"   => objects \ todo # {}
    /\ pc = "answered" => objects # {}

DeleteInv == InHand /\ Counted /\ Cleared /\ Remaining
=============================================================================
