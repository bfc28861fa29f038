--------------------------- MODULE BatchDownload ----------------------------
(***************************************************************************)
(* Batch ZIP download (backend/handler_objects.go): a POST stores a key    *)
(* list under a short-lived, single-use token, and a GET that presents the *)
(* token redeems it and streams an archive of the objects.  Tickets live   *)
(* in the memory of the process.                                           *)
(*                                                                         *)
(* An S3 key is its path (a sequence of segments), whether it ends in "/", *)
(* and the " (n)" marks that already end the stem of its last segment.     *)
(***************************************************************************)
EXTENDS Naturals, Sequences, FiniteSets

CONSTANTS
  Posts, Gets,          \* the requests of one behaviour
  Tokens, Buckets,
  KeyLists,             \* the "keys" arrays clients send: sequences of keys
  Strip,                \* a segment without its control characters
  Neutral,              \* a first segment without its drive prefix
  MaxKeys,              \* maxBatchDownloadKeys
  TTL, MaxTickets,      \* of batchDownloadTickets
  MaxNow, MaxRestarts   \* bounds on the clock and on process restarts

NoToken == "no token"
Unsafe  == {"", ".", ".."}

ASSUME BatchAssumption ==
  /\ MaxKeys \in Nat /\ TTL \in Nat /\ MaxTickets \in Nat
  /\ MaxNow \in Nat /\ MaxRestarts \in Nat
  /\ IsFiniteSet(Tokens) /\ NoToken \notin Tokens

\* A segment without its drive prefix is as safe as it was, and has none left.
ASSUME NamesAssumption ==
  /\ KeyLists \subseteq Seq([path : Seq(DOMAIN Strip), tags : Seq(Nat), slash : BOOLEAN])
  /\ \A s \in DOMAIN Strip : Strip[s] \in DOMAIN Neutral \cup Unsafe
  /\ {"unnamed", "_errors.txt"} \subseteq DOMAIN Neutral
  /\ Neutral["unnamed"] = "unnamed" /\ Neutral["_errors.txt"] = "_errors.txt"
  /\ \A s \in DOMAIN Neutral :
       /\ Neutral[s] \in DOMAIN Neutral /\ Neutral[Neutral[s]] = Neutral[s]
       /\ s \notin Unsafe => Neutral[s] \notin Unsafe

VARIABLES
  now, epoch,   \* the clock, and how often the process restarted
  tickets,      \* batchDownloadTicketStore.tickets
  issued,       \* history: every ticket a POST was ever answered with
  post,         \* per POST: "idle", or its answer
  pc,           \* per GET
  shown,        \* the token and bucket a GET presented
  keys,         \* the ticket's keys a GET streams ...
  pos,          \* ... and which one is next
  entries,      \* the archive's entries, in order
  failures,     \* the positions listed in _errors.txt
  gone          \* the GET's client went away

svars == <<keys, pos, entries, failures>>
gvars == <<pc, shown, svars, gone>>
vars  == <<now, epoch, tickets, issued, post, gvars>>

Keep(f, S) == [x \in DOMAIN f \cap S |-> f[x]]
With(f, t, v) == [x \in DOMAIN f \cup {t} |-> IF x = t THEN v ELSE f[x]]

-----------------------------------------------------------------------------
Init ==
  /\ now = 0 /\ epoch = 0
  /\ tickets  = <<>>
  /\ issued   = <<>>
  /\ post     = [p \in Posts |-> "idle"]
  /\ pc       = [g \in Gets |-> "idle"]
  /\ shown    = [g \in Gets |-> [token |-> NoToken, bucket |-> NoToken]]
  /\ keys     = [g \in Gets |-> <<>>]
  /\ pos      = [g \in Gets |-> 1]
  /\ entries  = [g \in Gets |-> <<>>]
  /\ failures = [g \in Gets |-> {}]
  /\ gone     = [g \in Gets |-> FALSE]

NeverPurged(S) == S

\* What issue leaves in the map before it counts: a ticket is still good at
\* the instant it expires.
Unexpired(S) == {t \in S : ~(now > tickets[t].expires)}

Full(S) == Cardinality(S) >= MaxTickets

\* POST with an empty or an oversized key list.
RejectKeys(p, ks) ==
  /\ post[p] = "idle"
  /\ Len(ks) = 0 \/ Len(ks) > MaxKeys
  /\ post' = [post EXCEPT ![p] = "bad"]
  /\ UNCHANGED <<now, epoch, tickets, issued, gvars>>

\* POST: issue drops the expired tickets, then stores the new one under a
\* random token (256 bits: one that nobody ever saw or guessed), or refuses
\* when the store is full.
Issue(p, b, ks, t) ==
  LET live == Unexpired(DOMAIN tickets) IN
  /\ post[p] = "idle"
  /\ Len(ks) > 0 /\ Len(ks) <= MaxKeys
  /\ ~Full(live)
  /\ t \notin DOMAIN issued /\ \A g \in Gets : shown[g].token # t
  /\ tickets' = With(Keep(tickets, live), t, [bucket |-> b, keys |-> ks, expires |-> now + TTL])
  /\ issued'  = With(issued, t, [bucket |-> b, keys |-> ks, at |-> now, epoch |-> epoch])
  /\ post'    = [post EXCEPT ![p] = "token"]
  /\ UNCHANGED <<now, epoch, gvars>>

TooMany(p, ks) ==
  LET live == Unexpired(DOMAIN tickets) IN
  /\ post[p] = "idle"
  /\ Len(ks) > 0 /\ Len(ks) <= MaxKeys
  /\ Full(live)
  /\ tickets' = Keep(tickets, live)
  /\ post'    = [post EXCEPT ![p] = "tooMany"]
  /\ UNCHANGED <<now, epoch, issued, gvars>>

\* The ticket that redeem hands out.
Accepts(t, b) ==
  /\ t \in DOMAIN tickets
  /\ ~(now > tickets[t].expires)
  /\ tickets[t].bucket = b

ConsumeOnSuccess(t, b) == IF Accepts(t, b) THEN Keep(tickets, DOMAIN tickets \ {t}) ELSE tickets
NotConsumed(t, b) == tickets

\* redeem consumes the token it is shown, also when it then refuses it.
Consume(t, b) == Keep(tickets, DOMAIN tickets \ {t})

\* GET: redeem the token and begin the archive, or answer 404.
Redeem(g, t, b) ==
  /\ pc[g] = "idle"
  /\ shown'   = [shown EXCEPT ![g] = [token |-> t, bucket |-> b]]
  /\ tickets' = Consume(t, b)
  /\ IF Accepts(t, b)
     THEN /\ pc'   = [pc EXCEPT ![g] = "next"]
          /\ keys' = [keys EXCEPT ![g] = tickets[t].keys]
     ELSE /\ pc' = [pc EXCEPT ![g] = "refused"]
          /\ UNCHANGED keys
  /\ UNCHANGED <<now, epoch, issued, post, pos, entries, failures, gone>>

-----------------------------------------------------------------------------
DropThenStrip(path) ==
  LET out[i \in 0..Len(path)] ==
        IF i = 0 THEN <<>>
        ELSE IF path[i] \in Unsafe THEN out[i - 1]
        ELSE Append(out[i - 1], Strip[path[i]])
  IN  out[Len(path)]

\* The segments sanitizeZipEntryName keeps: control characters go first, then
\* what is empty, "." or "..".
SafeSegments(path) ==
  LET out[i \in 0..Len(path)] ==
        IF i = 0 THEN <<>>
        ELSE IF Strip[path[i]] \in Unsafe THEN out[i - 1]
        ELSE Append(out[i - 1], Strip[path[i]])
  IN  out[Len(path)]

Name(segs, tags, dir) == [segs |-> segs, tags |-> tags, dir |-> dir]

\* sanitizeZipEntryName, and "unnamed" when nothing is left.
Sanitized(k) ==
  LET segs == SafeSegments(k.path) IN
  IF segs = <<>> THEN Name(<<"unnamed">>, <<>>, FALSE)
  ELSE Name([segs EXCEPT ![1] = Neutral[@]], k.tags, k.slash)

Used(es) == {es[i].name : i \in 1..Len(es)}

NumberByCount(n, used) ==
  LET m == Cardinality({u \in used : u.segs = n.segs}) IN
  IF m = 0 THEN n ELSE [n EXCEPT !.tags = Append(@, m)]

\* zipNamer.unique: the first free " (n)".
Unique(n, used) ==
  LET Cand(i) == [n EXCEPT !.tags = Append(@, i)]
      Free == {i \in 1..(Cardinality(used) + 1) : Cand(i) \notin used}
  IN IF n \notin used THEN n ELSE Cand(CHOOSE i \in Free : \A j \in Free : i <= j)

Entry(n, from, whole) == [name |-> n, from |-> from, whole |-> whole]
ErrorsEntry == Name(<<"_errors.txt">>, <<>>, FALSE)

\* A step of the loop over the keys of a GET whose client is there.
AtKey(g) == pc[g] = "next" /\ ~gone[g] /\ pos[g] <= Len(keys[g])

\* GetObject fails for this key: it is listed, and the loop goes on.
GetFails(g) ==
  /\ AtKey(g)
  /\ failures' = [failures EXCEPT ![g] = @ \cup {pos[g]}]
  /\ pos'      = [pos EXCEPT ![g] = @ + 1]
  /\ UNCHANGED <<now, epoch, tickets, issued, post, pc, shown, keys, entries, gone>>

\* An empty object whose name ends in "/": a directory entry, once.
AddDirectory(g) ==
  LET n == Sanitized(keys[g][pos[g]]) IN
  /\ AtKey(g) /\ n.dir
  /\ entries' = [entries EXCEPT ![g] =
                   IF n \in Used(@) THEN @ ELSE Append(@, Entry(n, pos[g], TRUE))]
  /\ pos' = [pos EXCEPT ![g] = @ + 1]
  /\ UNCHANGED <<now, epoch, tickets, issued, post, pc, shown, keys, failures, gone>>

\* Any other object: its entry is created under a name of its own, and the
\* copy begins.
OpenEntry(g) ==
  LET n == [Sanitized(keys[g][pos[g]]) EXCEPT !.dir = FALSE] IN
  /\ AtKey(g)
  /\ entries' = [entries EXCEPT ![g] = Append(@, Entry(Unique(n, Used(@)), pos[g], FALSE))]
  /\ pc' = [pc EXCEPT ![g] = "copy"]
  /\ UNCHANGED <<now, epoch, tickets, issued, post, shown, keys, pos, failures, gone>>

CopyEnds(g) ==
  /\ pc[g] = "copy"
  /\ entries' = [entries EXCEPT ![g][Len(entries[g])].whole = TRUE]
  /\ pc'  = [pc EXCEPT ![g] = "next"]
  /\ pos' = [pos EXCEPT ![g] = @ + 1]
  /\ UNCHANGED <<now, epoch, tickets, issued, post, shown, keys, failures, gone>>

SkipTruncated(g) ==
  /\ pc[g] = "copy" /\ ~gone[g]
  /\ pc'  = [pc EXCEPT ![g] = "next"]
  /\ pos' = [pos EXCEPT ![g] = @ + 1]
  /\ UNCHANGED <<now, epoch, tickets, issued, post, shown, keys, entries, failures, gone>>

\* The object breaks off mid-stream: the entry stays, and the key is listed.
CopyBreaks(g) ==
  /\ pc[g] = "copy" /\ ~gone[g]
  /\ failures' = [failures EXCEPT ![g] = @ \cup {pos[g]}]
  /\ pc'  = [pc EXCEPT ![g] = "next"]
  /\ pos' = [pos EXCEPT ![g] = @ + 1]
  /\ UNCHANGED <<now, epoch, tickets, issued, post, shown, keys, entries, gone>>

\* The last key is done: _errors.txt when something failed, then the central
\* directory that makes the archive readable.
Close(g) ==
  /\ pc[g] = "next" /\ ~gone[g] /\ pos[g] > Len(keys[g])
  /\ entries' = [entries EXCEPT ![g] =
       IF failures[g] = {} THEN @ ELSE Append(@, Entry(Unique(ErrorsEntry, Used(@)), 0, TRUE))]
  /\ pc' = [pc EXCEPT ![g] = "done"]
  /\ UNCHANGED <<now, epoch, tickets, issued, post, shown, keys, pos, failures, gone>>

\* The client leaves; the loop, the copy or the close notices and returns,
\* and the archive never gets its central directory.
ClientGone(g) ==
  /\ pc[g] \in {"next", "copy"} /\ ~gone[g]
  /\ gone' = [gone EXCEPT ![g] = TRUE]
  /\ UNCHANGED <<now, epoch, tickets, issued, post, pc, shown, svars>>

Abandon(g) ==
  /\ pc[g] \in {"next", "copy"} /\ gone[g]
  /\ pc' = [pc EXCEPT ![g] = "cut"]
  /\ UNCHANGED <<now, epoch, tickets, issued, post, shown, svars, gone>>

\* The process restarts: the store is new, and every stream breaks.
Restart ==
  /\ epoch < MaxRestarts
  /\ epoch'   = epoch + 1
  /\ tickets' = <<>>
  /\ pc' = [g \in Gets |-> IF pc[g] \in {"next", "copy"} THEN "cut" ELSE pc[g]]
  /\ UNCHANGED <<now, issued, post, shown, svars, gone>>

Tick == now < MaxNow /\ now' = now + 1 /\ UNCHANGED <<epoch, tickets, issued, post, gvars>>

Stream(g) ==
  \/ GetFails(g)   \/ AddDirectory(g) \/ OpenEntry(g) \/ CopyEnds(g)
  \/ CopyBreaks(g) \/ Close(g)        \/ ClientGone(g) \/ Abandon(g)

Next ==
  \/ \E p \in Posts, ks \in KeyLists :
       \/ RejectKeys(p, ks)
       \/ TooMany(p, ks)
       \/ \E b \in Buckets, t \in Tokens : Issue(p, b, ks, t)
  \/ \E g \in Gets :
       \/ \E t \in Tokens, b \in Buckets : Redeem(g, t, b)
       \/ Stream(g)
  \/ Restart
  \/ Tick

Spec == Init /\ [][Next]_vars
-----------------------------------------------------------------------------
(* Properties *)

Served(g) == pc[g] \notin {"idle", "refused"}

\* Every variable has its type, and at most MaxTickets tickets are pending.
TypeOK ==
  /\ now \in Nat /\ epoch \in Nat
  /\ DOMAIN tickets \subseteq Tokens /\ DOMAIN issued \subseteq Tokens
  /\ \A t \in DOMAIN tickets :
       tickets[t] \in [bucket : Buckets, keys : KeyLists, expires : Nat]
  /\ \A t \in DOMAIN issued :
       issued[t] \in [bucket : Buckets, keys : KeyLists, at : Nat, epoch : Nat]
  /\ IsFiniteSet(DOMAIN tickets) /\ Cardinality(DOMAIN tickets) <= MaxTickets
  /\ post \in [Posts -> {"idle", "bad", "token", "tooMany"}]
  /\ pc \in [Gets -> {"idle", "refused", "next", "copy", "done", "cut"}]
  /\ shown \in [Gets -> [token : Tokens \cup {NoToken}, bucket : Buckets \cup {NoToken}]]
  /\ keys \in [Gets -> KeyLists \cup {<<>>}]
  /\ pos \in [Gets -> Nat]
  /\ failures \in [Gets -> SUBSET Nat]
  /\ gone \in [Gets -> BOOLEAN]

\* Told from the history alone: t was issued for b by this process at most TTL
\* ago, and nobody has shown it since, rightly or wrongly.
Fresh(t, b) ==
  /\ t \in DOMAIN issued
  /\ issued[t].epoch = epoch
  /\ now <= issued[t].at + TTL
  /\ issued[t].bucket = b
  /\ \A g \in Gets : shown[g].token # t

\* The inductive invariant behind the ticket properties: the store and the
\* history agree on which tickets are good.
Ledger ==
  /\ \A t \in DOMAIN tickets :
       /\ t \in DOMAIN issued
       /\ issued[t].epoch = epoch
       /\ tickets[t].bucket  = issued[t].bucket
       /\ tickets[t].keys    = issued[t].keys
       /\ tickets[t].expires = issued[t].at + TTL
       /\ \A g \in Gets : shown[g].token # t
  /\ \A t \in DOMAIN issued : Fresh(t, issued[t].bucket) => t \in DOMAIN tickets
  /\ \A g \in Gets : pc[g] = "idle" => shown[g].token = NoToken
  /\ \A t \in DOMAIN issued : issued[t].epoch <= epoch

\* No token ever yields two archives, however the GETs that show it, the
\* purges and the restarts interleave.
SingleUse ==
  \A g, h \in Gets : Served(g) /\ Served(h) /\ shown[g].token = shown[h].token => g = h

\* A token is a voucher for the keys POSTed for it: whatever expiry, purges,
\* restarts and wrong guesses do to the store, it goes from unused to good to
\* spent, and at most one GET takes it, for all its keys.
Ticket == INSTANCE Voucher WITH
  Codes   <- Tokens,
  Holders <- Gets,
  Goods   <- KeyLists,
  state   <- [t \in Tokens |-> IF t \in DOMAIN tickets THEN "good"
                              ELSE IF t \in DOMAIN issued THEN "spent" ELSE "unused"],
  worth   <- [t \in Tokens |-> IF t \in DOMAIN issued THEN {issued[t].keys} ELSE {}],
  got     <- [g \in Gets |-> IF Served(g) THEN {<<shown[g].token, keys[g]>>} ELSE {}]

ImplementsVoucher == Ticket!Spec

\* A GET is answered with the archive of the keys POSTed for its token exactly
\* when the token is fresh: redeem neither honours a spent, late, lost or
\* misdirected ticket nor turns a good one away.
RedeemExactly ==
  [][\A g \in Gets : pc[g] = "idle" /\ pc'[g] # "idle" =>
       LET t == shown'[g].token IN
       /\ pc'[g] = "next" <=> Fresh(t, shown'[g].bucket)
       /\ pc'[g] = "next" => keys'[g] = issued[t].keys]_vars

\* 429 only when MaxTickets tickets are really pending: issued by this process
\* in the last TTL and not shown yet.  Expired and used ones hold no slot.
RefusedOnlyWhenFull ==
  [][\A p \in Posts : post[p] = "idle" /\ post'[p] = "tooMany" =>
       Cardinality({t \in DOMAIN issued : Fresh(t, issued[t].bucket)}) >= MaxTickets]_vars

\* "Objects that cannot be fetched (or break off mid-stream) are listed in
\* _errors.txt ... instead of being silently skipped": in a readable archive
\* every requested key has a whole entry (one for equal directories) or is
\* listed, and the listing is there exactly when something failed.
CompleteArchive ==
  \A g \in Gets : pc[g] = "done" =>
    LET es == {entries[g][i] : i \in 1..Len(entries[g])} IN
    /\ \A i \in 1..Len(keys[g]) :
         \/ i \in failures[g]
         \/ \E e \in es : /\ e.whole
                          /\ e.from = i \/ (e.name.dir /\ e.name = Sanitized(keys[g][i]))
    /\ failures[g] # {} <=> \E e \in es : e.from = 0

\* The inductive invariant behind CompleteArchive: the keys before pos are in the
\* archive or in failures, the entry of a copy that runs is the last, and only
\* the report comes from no key.  An entry of a directory is whole at once.
EntryNames == [segs : Seq(DOMAIN Neutral), tags : Seq(Nat), dir : BOOLEAN]
ZipEntries == [name : EntryNames, from : Nat, whole : BOOLEAN]

Held(g, i) ==
  \E e \in {entries[g][j] : j \in 1..Len(entries[g])} :
    e.whole /\ (e.from = i \/ (e.name.dir /\ e.name = Sanitized(keys[g][i])))

Streamed(g) ==
  LET last == entries[g][Len(entries[g])] IN
  /\ pos[g] >= 1 /\ failures[g] \subseteq 1..(pos[g] - 1)
  /\ pc[g] = "idle" => pos[g] = 1
  /\ \A j \in 1..Len(entries[g]) : entries[g][j].name.dir => entries[g][j].whole
  /\ pc[g] \in {"next", "copy", "done"} =>
       \A i \in 1..Len(keys[g]) : i < pos[g] => i \in failures[g] \/ Held(g, i)
  /\ pc[g] = "copy" =>
       entries[g] # <<>> /\ last.from = pos[g] /\ ~last.whole /\ pos[g] <= Len(keys[g])
  /\ pc[g] = "done" => pos[g] > Len(keys[g])
  /\ (\E j \in 1..Len(entries[g]) : entries[g][j].from = 0) <=> pc[g] = "done" /\ failures[g] # {}

ArchiveTypes == entries \in [Gets -> Seq(ZipEntries)]

ArchiveInv == ArchiveTypes /\ \A g \in Gets : Streamed(g)

\* No two entries of an archive have the same name: an extracted file never
\* overwrites another one's.
UniqueNames ==
  \A g \in Gets : \A i, j \in 1..Len(entries[g]) :
    entries[g][i].name = entries[g][j].name => i = j

\* No entry leaves the directory it is extracted to (Zip Slip): no segment is
\* empty, "." or "..", and the first is no drive.
NoEscape ==
  \A g \in Gets : \A i \in 1..Len(entries[g]) :
    LET segs == entries[g][i].name.segs IN
    /\ segs # <<>> /\ Neutral[segs[1]] = segs[1]
    /\ \A j \in 1..Len(segs) : segs[j] \notin Unsafe

\* An archive can be extracted: each entry to a place of its own, inside the
\* directory.
SafeNames == UniqueNames /\ NoEscape
=============================================================================
