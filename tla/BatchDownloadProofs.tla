------------------------ MODULE BatchDownloadProofs -------------------------
(***************************************************************************)
(* The tickets and the archives of BatchDownload, for every number of      *)
(* requests, tokens and buckets, every TTL and limit, and every key.       *)
(***************************************************************************)
EXTENDS BatchDownload, FiniteSetTheorems, SequenceTheorems, WellFoundedInduction, TLAPS

\* Dropping tickets keeps the store finite and within its limit.
LEMMA StillBounded ==
  ASSUME TypeOK, NEW S, S \subseteq DOMAIN tickets
  PROVE  IsFiniteSet(S) /\ Cardinality(S) \in Nat /\ Cardinality(S) <= MaxTickets
<1>1. IsFiniteSet(S) /\ Cardinality(S) <= Cardinality(DOMAIN tickets)
  BY FS_Subset DEF TypeOK
<1>2. Cardinality(S) \in Nat /\ Cardinality(DOMAIN tickets) \in Nat
  BY <1>1, FS_CardinalityType DEF TypeOK
<1> QED
  BY <1>1, <1>2, BatchAssumption DEF TypeOK

\* The store stays within its limit when a ticket is added to a store that is
\* not full.
LEMMA RoomForOne ==
  ASSUME TypeOK, NEW S, S \subseteq DOMAIN tickets, ~Full(S), NEW t
  PROVE  IsFiniteSet(S \cup {t}) /\ Cardinality(S \cup {t}) <= MaxTickets
<1>1. IsFiniteSet(S) /\ Cardinality(S) \in Nat /\ Cardinality(S) < MaxTickets
  BY StillBounded, BatchAssumption DEF Full
<1>2. /\ IsFiniteSet(S \cup {t})
      /\ Cardinality(S \cup {t}) = Cardinality(S) \/ Cardinality(S \cup {t}) = Cardinality(S) + 1
  BY <1>1, FS_AddElement
<1> QED
  BY <1>1, <1>2, BatchAssumption

\* What a step of a stream leaves alone.
LEMMA StreamFrame ==
  ASSUME NEW g \in Gets, Stream(g)
  PROVE  UNCHANGED <<now, epoch, tickets, issued, post, shown, keys>>
BY DEF Stream, GetFails, AddDirectory, OpenEntry, CopyEnds, CopyBreaks, Close, ClientGone,
       Abandon, svars

\* A step of a stream moves a GET that was served to a state of a served GET.
LEMMA StreamMoves ==
  ASSUME TypeOK, NEW g \in Gets, Stream(g)
  PROVE  /\ pc[g] \in {"next", "copy"}
         /\ \E s \in {"next", "copy", "done", "cut"} : pc' = [pc EXCEPT ![g] = s]
<1>1. CASE pc' = pc /\ pc[g] \in {"next", "copy"}
  <2>1. pc' = [pc EXCEPT ![g] = pc[g]]
    BY <1>1 DEF TypeOK
  <2> QED
    BY <1>1, <2>1
<1>2. ASSUME GetFails(g) \/ AddDirectory(g) \/ ClientGone(g)
      PROVE  pc' = pc /\ pc[g] \in {"next", "copy"}
  BY <1>2 DEF GetFails, AddDirectory, ClientGone, AtKey
<1>3. ASSUME OpenEntry(g) \/ CopyEnds(g) \/ CopyBreaks(g) \/ Close(g) \/ Abandon(g)
      PROVE  /\ pc[g] \in {"next", "copy"}
             /\ \E s \in {"next", "copy", "done", "cut"} : pc' = [pc EXCEPT ![g] = s]
  BY <1>3 DEF OpenEntry, CopyEnds, CopyBreaks, Close, Abandon, AtKey
<1> QED
  BY <1>1, <1>2, <1>3 DEF Stream

-----------------------------------------------------------------------------
LEMMA TypesStep ==
  ASSUME TypeOK, [Next]_vars
  PROVE  TypeOK'
<1>1. ASSUME NEW p \in Posts, NEW ks \in KeyLists, RejectKeys(p, ks)
      PROVE  TypeOK'
  BY <1>1 DEF TypeOK, RejectKeys, gvars, svars
<1>2. ASSUME NEW p \in Posts, NEW ks \in KeyLists, TooMany(p, ks)
      PROVE  TypeOK'
  <2> DEFINE live == Unexpired(DOMAIN tickets)
  <2>1. live \subseteq DOMAIN tickets /\ tickets' = Keep(tickets, live)
    BY <1>2 DEF TooMany, Unexpired
  <2> HIDE DEF live
  <2>2. DOMAIN tickets' = live /\ \A t \in DOMAIN tickets' : tickets'[t] = tickets[t]
    BY <2>1 DEF Keep
  <2>3. IsFiniteSet(DOMAIN tickets') /\ Cardinality(DOMAIN tickets') <= MaxTickets
    BY <2>1, <2>2, StillBounded
  <2> QED
    BY <1>2, <2>1, <2>2, <2>3 DEF TypeOK, TooMany, gvars, svars
<1>3. ASSUME NEW p \in Posts, NEW ks \in KeyLists, NEW b \in Buckets, NEW t \in Tokens,
             Issue(p, b, ks, t)
      PROVE  TypeOK'
  <2> DEFINE live == Unexpired(DOMAIN tickets)
             v == [bucket |-> b, keys |-> ks, expires |-> now + TTL]
             w == [bucket |-> b, keys |-> ks, at |-> now, epoch |-> epoch]
  <2>1. /\ live \subseteq DOMAIN tickets /\ ~Full(live)
        /\ tickets' = With(Keep(tickets, live), t, v)
        /\ issued' = With(issued, t, w)
    BY <1>3 DEF Issue, Unexpired
  <2>2. /\ v \in [bucket : Buckets, keys : KeyLists, expires : Nat]
        /\ w \in [bucket : Buckets, keys : KeyLists, at : Nat, epoch : Nat]
    BY BatchAssumption DEF TypeOK
  <2> HIDE DEF live, v, w
  <2>3. /\ DOMAIN Keep(tickets, live) = live
        /\ \A x \in live : Keep(tickets, live)[x] = tickets[x]
    BY <2>1 DEF Keep
  <2>4. /\ DOMAIN tickets' = live \cup {t}
        /\ tickets'[t] = v
        /\ \A x \in live : x # t => tickets'[x] = tickets[x]
    BY <2>1, <2>3 DEF With
  <2>5. /\ DOMAIN issued' = DOMAIN issued \cup {t}
        /\ issued'[t] = w
        /\ \A x \in DOMAIN issued : x # t => issued'[x] = issued[x]
    BY <2>1 DEF With
  <2>6. IsFiniteSet(DOMAIN tickets') /\ Cardinality(DOMAIN tickets') <= MaxTickets
    BY <2>1, <2>4, RoomForOne
  <2>7. /\ DOMAIN tickets' \subseteq Tokens
        /\ \A x \in DOMAIN tickets' : tickets'[x] \in [bucket : Buckets, keys : KeyLists, expires : Nat]
    BY <2>1, <2>2, <2>4 DEF TypeOK
  <2>8. /\ DOMAIN issued' \subseteq Tokens
        /\ \A x \in DOMAIN issued' : issued'[x] \in [bucket : Buckets, keys : KeyLists, at : Nat, epoch : Nat]
    BY <2>2, <2>5 DEF TypeOK
  <2>9. post' \in [Posts -> {"idle", "bad", "token", "tooMany"}]
    BY <1>3 DEF TypeOK, Issue
  <2> QED
    BY <1>3, <2>6, <2>7, <2>8, <2>9 DEF TypeOK, Issue, gvars, svars
<1>4. ASSUME NEW g \in Gets, NEW t \in Tokens, NEW b \in Buckets, Redeem(g, t, b)
      PROVE  TypeOK'
  <2> DEFINE rest == DOMAIN tickets \ {t}
  <2>1. tickets' = Keep(tickets, rest)
    BY <1>4 DEF Redeem, Consume
  <2>2. DOMAIN tickets' = rest /\ \A x \in DOMAIN tickets' : tickets'[x] = tickets[x]
    BY <2>1 DEF Keep
  <2>3. IsFiniteSet(DOMAIN tickets') /\ Cardinality(DOMAIN tickets') <= MaxTickets
    BY <2>2, StillBounded
  <2>4. shown' \in [Gets -> [token : Tokens \cup {NoToken}, bucket : Buckets \cup {NoToken}]]
    BY <1>4 DEF TypeOK, Redeem
  <2>5. /\ keys' \in [Gets -> KeyLists \cup {<<>>}]
        /\ pc' \in [Gets -> {"idle", "refused", "next", "copy", "done", "cut"}]
    BY <1>4 DEF TypeOK, Redeem, Accepts
  <2> QED
    BY <1>4, <2>2, <2>3, <2>4, <2>5 DEF TypeOK, Redeem
<1>5. ASSUME NEW g \in Gets, Stream(g)
      PROVE  TypeOK'
  <2>1. pc' \in [Gets -> {"idle", "refused", "next", "copy", "done", "cut"}]
    BY <1>5, StreamMoves DEF TypeOK
  <2>2. pos' = pos \/ pos' = [pos EXCEPT ![g] = @ + 1]
    BY <1>5 DEF Stream, GetFails, AddDirectory, OpenEntry, CopyEnds, CopyBreaks, Close,
                ClientGone, Abandon, svars
  <2>4. failures' = failures \/ failures' = [failures EXCEPT ![g] = @ \cup {pos[g]}]
    BY <1>5 DEF Stream, GetFails, AddDirectory, OpenEntry, CopyEnds, CopyBreaks, Close,
                ClientGone, Abandon, svars
  <2>5. pos' \in [Gets -> Nat]
    BY <2>2 DEF TypeOK
  <2>6. failures[g] \cup {pos[g]} \in SUBSET Nat
    BY DEF TypeOK
  <2>7. failures' \in [Gets -> SUBSET Nat]
    BY <2>4, <2>6 DEF TypeOK
  <2>3. gone' \in [Gets -> BOOLEAN]
    BY <1>5, Zenon DEF TypeOK, Stream, GetFails, AddDirectory, OpenEntry, CopyEnds, CopyBreaks, Close,
                ClientGone, Abandon, svars
  <2> QED
    BY <1>5, <2>1, <2>3, <2>5, <2>7, StreamFrame DEF TypeOK
<1>6. ASSUME Restart
      PROVE  TypeOK'
  <2>1. DOMAIN tickets' = {}
    BY <1>6 DEF Restart
  <2>2. IsFiniteSet(DOMAIN tickets') /\ Cardinality(DOMAIN tickets') <= MaxTickets
    BY <2>1, FS_EmptySet, BatchAssumption
  <2>3. pc' \in [Gets -> {"idle", "refused", "next", "copy", "done", "cut"}] /\ epoch' \in Nat
    BY <1>6 DEF TypeOK, Restart
  <2> QED
    BY <1>6, <2>1, <2>2, <2>3 DEF TypeOK, Restart, svars
<1>7. ASSUME Tick
      PROVE  TypeOK'
  BY <1>7 DEF TypeOK, Tick, gvars, svars
<1>8. ASSUME UNCHANGED vars
      PROVE  TypeOK'
  BY <1>8 DEF TypeOK, vars, gvars, svars
<1> QED
  BY <1>1, <1>2, <1>3, <1>4, <1>5, <1>6, <1>7, <1>8 DEF Next

\* The ticket store keeps its types and never holds more than MaxTickets
\* tickets, whatever is issued, redeemed, purged or lost (issue, redeem).
THEOREM TypeCorrect == Spec => []TypeOK
<1>1. Init => TypeOK
  <2>1. Init => /\ IsFiniteSet(DOMAIN tickets) /\ Cardinality(DOMAIN tickets) <= MaxTickets
                /\ DOMAIN tickets = {} /\ DOMAIN issued = {}
    BY FS_EmptySet, BatchAssumption DEF Init
  <2> QED
    BY <2>1 DEF Init, TypeOK
<1> QED
  BY <1>1, TypesStep, PTL DEF Spec

-----------------------------------------------------------------------------
\* Steps that touch neither the tickets nor what was shown keep the ledger.
LEMMA LedgerFrame ==
  ASSUME Ledger, UNCHANGED <<now, epoch, tickets, issued, shown>>,
         \A g \in Gets : pc'[g] = "idle" => pc[g] = "idle"
  PROVE  Ledger'
BY DEF Ledger, Fresh

LEMMA LedgerStep ==
  ASSUME TypeOK, Ledger, [Next]_vars
  PROVE  Ledger'
<1>1. ASSUME NEW p \in Posts, NEW ks \in KeyLists, RejectKeys(p, ks)
      PROVE  Ledger'
  BY <1>1, LedgerFrame DEF RejectKeys, gvars
<1>2. ASSUME NEW p \in Posts, NEW ks \in KeyLists, TooMany(p, ks)
      PROVE  Ledger'
  <2> DEFINE live == Unexpired(DOMAIN tickets)
  <2>1. live = {t \in DOMAIN tickets : ~(now > tickets[t].expires)} /\ tickets' = Keep(tickets, live)
    BY <1>2 DEF TooMany, Unexpired
  <2> HIDE DEF live
  <2>2. DOMAIN tickets' = live /\ \A t \in DOMAIN tickets' : tickets'[t] = tickets[t]
    BY <2>1 DEF Keep
  <2>3. UNCHANGED <<now, epoch, issued, shown, pc>>
    BY <1>2 DEF TooMany, gvars
  <2>4. ASSUME NEW t \in DOMAIN issued', Fresh(t, issued[t].bucket)'
        PROVE  t \in DOMAIN tickets'
    <3>1. t \in DOMAIN tickets /\ now <= issued[t].at + TTL
      BY <2>3, <2>4 DEF Ledger, Fresh
    <3>2. tickets[t].expires = issued[t].at + TTL /\ issued[t].at \in Nat
      BY <2>3, <3>1 DEF Ledger, TypeOK
    <3> QED
      BY <2>1, <2>2, <3>1, <3>2, BatchAssumption DEF TypeOK
  <2>5. \A t \in DOMAIN tickets' : t \in DOMAIN tickets /\ tickets'[t] = tickets[t]
    BY <2>1, <2>2
  <2>6. \A t \in DOMAIN tickets' :
          /\ t \in DOMAIN issued' /\ issued'[t].epoch = epoch'
          /\ tickets'[t].bucket  = issued'[t].bucket
          /\ tickets'[t].keys    = issued'[t].keys
          /\ tickets'[t].expires = issued'[t].at + TTL
          /\ \A g \in Gets : shown'[g].token # t
    BY <2>3, <2>5 DEF Ledger
  <2> QED
    BY <2>3, <2>4, <2>6 DEF Ledger
<1>3. ASSUME NEW p \in Posts, NEW ks \in KeyLists, NEW b \in Buckets, NEW t \in Tokens,
             Issue(p, b, ks, t)
      PROVE  Ledger'
  <2> DEFINE live == Unexpired(DOMAIN tickets)
             v == [bucket |-> b, keys |-> ks, expires |-> now + TTL]
             w == [bucket |-> b, keys |-> ks, at |-> now, epoch |-> epoch]
  <2>1. /\ live = {x \in DOMAIN tickets : ~(now > tickets[x].expires)}
        /\ tickets' = With(Keep(tickets, live), t, v)
        /\ issued' = With(issued, t, w)
        /\ t \notin DOMAIN issued
        /\ \A g \in Gets : shown[g].token # t
        /\ UNCHANGED <<now, epoch, shown, pc>>
    BY <1>3 DEF Issue, Unexpired, gvars
  <2>2. v.bucket = w.bucket /\ v.keys = w.keys /\ v.expires = w.at + TTL /\ w.epoch = epoch
    OBVIOUS
  <2> HIDE DEF live, v, w
  <2>3. /\ DOMAIN Keep(tickets, live) = live
        /\ \A x \in live : Keep(tickets, live)[x] = tickets[x]
    BY <2>1 DEF Keep
  <2>4. /\ DOMAIN tickets' = live \cup {t}
        /\ tickets'[t] = v
        /\ \A x \in live : x # t => tickets'[x] = tickets[x]
    BY <2>1, <2>3 DEF With
  <2>5. /\ DOMAIN issued' = DOMAIN issued \cup {t}
        /\ issued'[t] = w
        /\ \A x \in DOMAIN issued : x # t => issued'[x] = issued[x]
    BY <2>1 DEF With
  <2>6. ASSUME NEW x \in DOMAIN tickets'
        PROVE  /\ x \in DOMAIN issued'
               /\ issued'[x].epoch = epoch'
               /\ tickets'[x].bucket  = issued'[x].bucket
               /\ tickets'[x].keys    = issued'[x].keys
               /\ tickets'[x].expires = issued'[x].at + TTL
               /\ \A g \in Gets : shown'[g].token # x
    <3>1. CASE x = t
      BY <2>1, <2>2, <2>4, <2>5, <3>1
    <3>2. CASE x # t
      <4>1. x \in DOMAIN tickets /\ x \in DOMAIN issued /\ tickets'[x] = tickets[x] /\ issued'[x] = issued[x]
        BY <2>1, <2>4, <2>5, <3>2 DEF Ledger
      <4> QED
        BY <2>1, <2>5, <4>1 DEF Ledger
    <3> QED
      BY <3>1, <3>2
  <2>7. ASSUME NEW x \in DOMAIN issued', Fresh(x, issued[x].bucket)'
        PROVE  x \in DOMAIN tickets'
    <3>1. CASE x = t
      BY <2>4, <3>1
    <3>2. CASE x # t
      <4>1. x \in DOMAIN issued /\ issued'[x] = issued[x]
        BY <2>5, <3>2
      <4>2. x \in DOMAIN tickets /\ now <= issued[x].at + TTL
        BY <2>1, <2>7, <4>1 DEF Ledger, Fresh
      <4>3. tickets[x].expires = issued[x].at + TTL /\ issued[x].at \in Nat
        BY <4>1, <4>2 DEF Ledger, TypeOK
      <4> QED
        BY <2>1, <2>4, <4>2, <4>3, BatchAssumption DEF TypeOK
    <3> QED
      BY <3>1, <3>2
  <2>8. \A x \in DOMAIN issued' : issued'[x].epoch <= epoch'
    BY <2>1, <2>2, <2>5 DEF Ledger, TypeOK
  <2> QED
    BY <2>1, <2>6, <2>7, <2>8 DEF Ledger
<1>4. ASSUME NEW g \in Gets, NEW t \in Tokens, NEW b \in Buckets, Redeem(g, t, b)
      PROVE  Ledger'
  <2>1. /\ tickets' = Keep(tickets, DOMAIN tickets \ {t})
        /\ UNCHANGED <<now, epoch, issued>>
        /\ pc[g] = "idle"
        /\ \A h \in Gets : /\ h # g => shown'[h] = shown[h] /\ pc'[h] = pc[h]
                           /\ h = g => shown'[h].token = t /\ pc'[h] # "idle"
    BY <1>4 DEF Redeem, Consume, TypeOK
  <2>2. DOMAIN tickets' = DOMAIN tickets \ {t} /\ \A x \in DOMAIN tickets' : tickets'[x] = tickets[x]
    BY <2>1 DEF Keep
  <2>3. ASSUME NEW x \in DOMAIN issued', Fresh(x, issued[x].bucket)'
        PROVE  x \in DOMAIN tickets'
    <3>1. x # t
      BY <2>1, <2>3 DEF Fresh
    <3>2. shown[g].token # x
      BY <2>1, <2>3, BatchAssumption DEF Ledger, TypeOK
    <3>3. \A h \in Gets : shown[h].token # x
      BY <2>1, <2>3, <3>2 DEF Fresh
    <3>4. Fresh(x, issued[x].bucket) /\ x \in DOMAIN issued
      BY <2>1, <2>3, <3>3 DEF Fresh
    <3> QED
      BY <2>2, <3>1, <3>4 DEF Ledger
  <2> QED
    <3>1. \A x \in DOMAIN tickets' : \A h \in Gets : shown'[h].token # x
      BY <2>1, <2>2 DEF Ledger
    <3>2. \A h \in Gets : pc'[h] = "idle" => shown'[h].token = NoToken
      BY <2>1 DEF Ledger
    <3>3. \A x \in DOMAIN tickets' :
            /\ x \in DOMAIN issued' /\ issued'[x].epoch = epoch'
            /\ tickets'[x].bucket  = issued'[x].bucket
            /\ tickets'[x].keys    = issued'[x].keys
            /\ tickets'[x].expires = issued'[x].at + TTL
      <4>1. \A x \in DOMAIN tickets' : x \in DOMAIN tickets /\ tickets'[x] = tickets[x]
        BY <2>2
      <4>2. epoch' = epoch /\ issued' = issued
        BY <2>1
      <4> QED
        BY <4>1, <4>2 DEF Ledger
    <3>4. \A x \in DOMAIN issued' : issued'[x].epoch <= epoch'
      BY <2>1 DEF Ledger
    <3> QED
      BY <2>3, <3>1, <3>2, <3>3, <3>4 DEF Ledger
<1>5. ASSUME NEW g \in Gets, Stream(g)
      PROVE  Ledger'
  <2>1. \A h \in Gets : pc'[h] = "idle" => pc[h] = "idle"
    BY <1>5, StreamMoves DEF TypeOK
  <2> QED
    BY <1>5, <2>1, StreamFrame, LedgerFrame
<1>6. ASSUME Restart
      PROVE  Ledger'
  <2>1. DOMAIN tickets' = {} /\ epoch' = epoch + 1 /\ UNCHANGED <<issued, shown>>
    BY <1>6 DEF Restart
  <2>2. \A g \in Gets : pc'[g] = "idle" => pc[g] = "idle"
    BY <1>6 DEF Restart
  <2>3. \A t \in DOMAIN issued : issued[t].epoch < epoch'
    BY <2>1 DEF Ledger, TypeOK
  <2>4. \A t \in DOMAIN issued' : issued'[t].epoch <= epoch' /\ issued'[t].epoch # epoch'
    BY <2>1, <2>3 DEF TypeOK
  <2> QED
    <3>1. \A t \in DOMAIN issued' : ~Fresh(t, issued[t].bucket)'
      BY <2>4, Zenon DEF Fresh
    <3>2. \A g \in Gets : pc'[g] = "idle" => shown'[g].token = NoToken
      BY <2>1, <2>2 DEF Ledger
    <3> QED
      BY <2>1, <2>4, <3>1, <3>2 DEF Ledger
<1>7. ASSUME Tick
      PROVE  Ledger'
  <2>1. now' = now + 1 /\ UNCHANGED <<epoch, tickets, issued, shown, pc>>
    BY <1>7 DEF Tick, gvars
  <2>2. ASSUME NEW t \in DOMAIN issued', Fresh(t, issued[t].bucket)'
        PROVE  t \in DOMAIN tickets'
    <3>1. issued[t].at \in Nat /\ now + 1 <= issued[t].at + TTL
      BY <2>1, <2>2 DEF Fresh, TypeOK
    <3>2. now <= issued[t].at + TTL
      BY <3>1, BatchAssumption DEF TypeOK
    <3>3. Fresh(t, issued[t].bucket) /\ t \in DOMAIN issued
      BY <2>1, <2>2, <3>2 DEF Fresh
    <3> QED
      BY <2>1, <3>3 DEF Ledger
  <2> QED
    BY <2>1, <2>2 DEF Ledger
<1>8. ASSUME UNCHANGED vars
      PROVE  Ledger'
  BY <1>8, LedgerFrame DEF vars, gvars
<1> QED
  BY <1>1, <1>2, <1>3, <1>4, <1>5, <1>6, <1>7, <1>8 DEF Next

\* Only a GET that shows a ticket of the store, which nobody showed before, is
\* served; every other step serves whom it served.
LEMMA SingleUseStep ==
  ASSUME TypeOK, Ledger, SingleUse, [Next]_vars
  PROVE  SingleUse'
<1>1. ASSUME shown' = shown, \A g \in Gets : Served(g)' => Served(g)
      PROVE  SingleUse'
  BY <1>1 DEF SingleUse
<1>2. ASSUME UNCHANGED <<shown, pc>>
      PROVE  SingleUse'
  BY <1>2 DEF SingleUse, Served
<1>3. ASSUME NEW g \in Gets, Stream(g)
      PROVE  SingleUse'
  <2>1. Served(g) /\ \A h \in Gets : h # g => pc'[h] = pc[h]
    BY <1>3, StreamMoves DEF Served, TypeOK
  <2> QED
    BY <1>1, <1>3, <2>1, StreamFrame DEF Served
<1>4. ASSUME NEW g \in Gets, NEW t \in Tokens, NEW b \in Buckets, Redeem(g, t, b)
      PROVE  SingleUse'
  <2>1. \A h \in Gets : /\ h # g => shown'[h] = shown[h] /\ pc'[h] = pc[h]
                        /\ h = g => shown'[h].token = t
    BY <1>4 DEF Redeem, TypeOK
  <2>2. CASE Accepts(t, b)
    <3>1. \A h \in Gets : shown[h].token # t
      BY <2>2 DEF Accepts, Ledger
    <3> QED
      BY <2>1, <3>1 DEF SingleUse, Served
  <2>3. CASE ~Accepts(t, b)
    <3>1. pc'[g] = "refused"
      BY <1>4, <2>3 DEF Redeem, TypeOK
    <3> QED
      BY <2>1, <3>1 DEF SingleUse, Served
  <2> QED
    BY <2>2, <2>3
<1>5. ASSUME Restart
      PROVE  SingleUse'
  <2>1. shown' = shown /\ \A g \in Gets : Served(g)' => Served(g)
    BY <1>5 DEF Restart, Served, TypeOK
  <2> QED
    BY <1>1, <2>1
<1>6. ASSUME NEW p \in Posts, NEW ks \in KeyLists,
             RejectKeys(p, ks) \/ TooMany(p, ks) \/ \E b \in Buckets, t \in Tokens : Issue(p, b, ks, t)
      PROVE  SingleUse'
  BY <1>2, <1>6 DEF RejectKeys, TooMany, Issue, gvars
<1>7. ASSUME Tick \/ UNCHANGED vars
      PROVE  SingleUse'
  BY <1>2, <1>7 DEF Tick, vars, gvars
<1> QED
  BY <1>3, <1>4, <1>5, <1>6, <1>7 DEF Next

LEMMA Invariance == Spec => [](TypeOK /\ Ledger /\ SingleUse)
<1>1. Init => Ledger /\ SingleUse
  BY DEF Init, Ledger, SingleUse, Served
<1>2. TypeOK /\ Ledger /\ SingleUse /\ [Next]_vars => Ledger' /\ SingleUse'
  BY LedgerStep, SingleUseStep
<1> QED
  BY <1>1, <1>2, TypeCorrect, PTL DEF Spec

\* No token ever yields two archives (redeem).
THEOREM TokensAreSingleUse == Spec => []SingleUse
BY Invariance, PTL

-----------------------------------------------------------------------------
(* The tickets implement vouchers *)

State(t) == IF t \in DOMAIN tickets THEN "good"
            ELSE IF t \in DOMAIN issued THEN "spent" ELSE "unused"
Worth(t) == IF t \in DOMAIN issued THEN {issued[t].keys} ELSE {}
Got(g)   == IF Served(g) THEN {<<shown[g].token, keys[g]>>} ELSE {}

\* A step that issues nothing, keeps what every GET got and the tickets it does
\* not drop, is a lapse of those it drops (or nothing, when it drops none).
LEMMA DropIsLapse ==
  ASSUME TypeOK, Ledger, issued' = issued,
         DOMAIN tickets' \subseteq DOMAIN tickets,
         \A g \in Gets : Got(g)' = Got(g),
         NEW S, S = DOMAIN tickets \ DOMAIN tickets'
  PROVE  Ticket!Lapse(S)
<1>1. S \subseteq Ticket!Good
  BY DEF Ticket!Good, TypeOK
<1>2. \A t \in Tokens : State(t)' = IF t \in S THEN "spent" ELSE State(t)
  BY DEF State, Ledger
<1>3. \A t \in Tokens : Worth(t)' = Worth(t)
  BY DEF Worth
<1> QED
  BY <1>1, <1>2, <1>3, Zenon DEF Ticket!Lapse, Ticket!Good, State, Worth, Got

\* What every GET got stays as it is when pc, shown and keys do.
LEMMA GotFrame ==
  ASSUME UNCHANGED <<shown, keys>>, \A g \in Gets : Served(g)' <=> Served(g)
  PROVE  \A g \in Gets : Got(g)' = Got(g)
BY DEF Got

\* Every step is a step of the vouchers or changes none of them.
LEMMA VoucherStep ==
  ASSUME TypeOK, Ledger, [Next]_vars
  PROVE  [Ticket!Next]_Ticket!vars
<1>1. ASSUME issued' = issued, DOMAIN tickets' \subseteq DOMAIN tickets,
             \A g \in Gets : Got(g)' = Got(g)
      PROVE  Ticket!Next
  <2>1. PICK S \in SUBSET Tokens : S = DOMAIN tickets \ DOMAIN tickets'
    BY DEF TypeOK
  <2>2. Ticket!Lapse(S)
    BY <1>1, <2>1, DropIsLapse
  <2> QED
    BY <2>2 DEF Ticket!Next
<1>2. ASSUME NEW p \in Posts, NEW ks \in KeyLists, RejectKeys(p, ks) \/ TooMany(p, ks)
      PROVE  Ticket!Next
  <2>1. issued' = issued /\ UNCHANGED <<shown, keys, pc>>
    BY <1>2 DEF RejectKeys, TooMany, gvars, svars
  <2>2. DOMAIN tickets' \subseteq DOMAIN tickets
    BY <1>2 DEF RejectKeys, TooMany, Keep, Unexpired
  <2> QED
    BY <1>1, <2>1, <2>2, GotFrame DEF Served
<1>3. ASSUME NEW p \in Posts, NEW ks \in KeyLists, NEW b \in Buckets, NEW t \in Tokens,
             Issue(p, b, ks, t)
      PROVE  Ticket!Next
  <2> DEFINE live == Unexpired(DOMAIN tickets)
  <2>0. PICK S \in SUBSET Tokens : S = DOMAIN tickets \ live
    BY DEF TypeOK
  <2>1. /\ live \subseteq DOMAIN tickets
        /\ t \notin DOMAIN issued /\ t \notin DOMAIN tickets
        /\ UNCHANGED <<shown, keys, pc>>
    BY <1>3 DEF Issue, Unexpired, Ledger, gvars, svars
  <2>2. DOMAIN tickets' = live \cup {t}
    BY <1>3 DEF Issue, With, Keep, Unexpired
  <2>3. /\ DOMAIN issued' = DOMAIN issued \cup {t}
        /\ issued'[t].keys = ks
        /\ \A x \in DOMAIN issued : x # t => issued'[x] = issued[x]
    BY <1>3 DEF Issue, With
  <2> HIDE DEF live
  <2>4. \A g \in Gets : Got(g)' = Got(g)
    BY <2>1, GotFrame DEF Served
  <2>5. \A x \in Tokens : State(x)' = IF x = t THEN "good" ELSE IF x \in S THEN "spent" ELSE State(x)
    BY <2>0, <2>1, <2>2, <2>3 DEF State, Ledger
  <2>6. \A x \in Tokens : Worth(x)' = IF x = t THEN {ks} ELSE Worth(x)
    BY <2>1, <2>3 DEF Worth
  <2>7. S \subseteq Ticket!Good
    BY <2>0 DEF Ticket!Good, TypeOK
  <2>8. State(t) = "unused"
    BY <2>1 DEF State
  <2>9. [x \in Tokens |-> Worth(x)]' = [[x \in Tokens |-> Worth(x)] EXCEPT ![t] = {ks}]
    BY <2>6
  <2>10. [x \in Tokens |-> State(x)]'
          = [x \in Tokens |-> IF x = t THEN "good" ELSE IF x \in S THEN "spent" ELSE State(x)]
    BY <2>5
  <2>11. [g \in Gets |-> Got(g)]' = [g \in Gets |-> Got(g)]
    BY <2>4
  <2>12. Ticket!Offer(t, ks, S)
    BY <2>7, <2>8, <2>9, <2>10, <2>11 DEF Ticket!Offer, State, Worth, Got
  <2> QED
    BY <2>12 DEF Ticket!Next
<1>4. ASSUME NEW g \in Gets, NEW t \in Tokens, NEW b \in Buckets, Redeem(g, t, b)
      PROVE  Ticket!Next
  <2>1. /\ issued' = issued /\ DOMAIN tickets' = DOMAIN tickets \ {t}
        /\ pc[g] = "idle" /\ ~Served(g)
        /\ \A h \in Gets : h # g => shown'[h] = shown[h] /\ pc'[h] = pc[h] /\ keys'[h] = keys[h]
        /\ shown'[g].token = t
    BY <1>4 DEF Redeem, Consume, Keep, TypeOK, Served
  <2>2. CASE Accepts(t, b)
    <3>1. /\ t \in DOMAIN tickets /\ t \in DOMAIN issued
          /\ pc'[g] = "next" /\ keys'[g] = issued[t].keys
      BY <1>4, <2>2 DEF Redeem, Accepts, TypeOK, Ledger
    <3>2. \A h \in Gets : Got(h)' = IF h = g THEN {<<t, issued[t].keys>>} ELSE Got(h)
      BY <2>1, <3>1 DEF Got, Served
    <3>3. \A x \in Tokens : State(x)' = IF x = t THEN "spent" ELSE State(x)
      BY <2>1, <3>1 DEF State
    <3>4. \A x \in Tokens : Worth(x)' = Worth(x)
      BY <2>1 DEF Worth
    <3>5. {t} \X Worth(t) = {<<t, issued[t].keys>>}
      BY <3>1 DEF Worth
    <3>6. State(t) = "good" /\ Got(g) = {}
      BY <2>1, <3>1 DEF State, Got
    <3>7. [x \in Tokens |-> State(x)]' = [[x \in Tokens |-> State(x)] EXCEPT ![t] = "spent"]
      BY <3>3
    <3>8. [h \in Gets |-> Got(h)]' = [[h \in Gets |-> Got(h)] EXCEPT ![g] = {t} \X Worth(t)]
      BY <3>2, <3>5
    <3>9. [x \in Tokens |-> Worth(x)]' = [x \in Tokens |-> Worth(x)]
      BY <3>4
    <3>10. Ticket!Take(g, t)
      BY <3>6, <3>7, <3>8, <3>9 DEF Ticket!Take, State, Worth, Got
    <3> QED
      BY <3>10 DEF Ticket!Next
  <2>3. CASE ~Accepts(t, b)
    <3>1. pc'[g] = "refused"
      BY <1>4, <2>3 DEF Redeem, TypeOK
    <3>2. \A h \in Gets : Got(h)' = Got(h)
      BY <2>1, <3>1 DEF Got, Served
    <3> QED
      BY <1>1, <2>1, <3>2
  <2> QED
    BY <2>2, <2>3
<1>5. ASSUME NEW g \in Gets, Stream(g)
      PROVE  Ticket!Next
  <2>1. UNCHANGED <<tickets, issued, shown, keys>>
    BY <1>5, StreamFrame
  <2>2. \A h \in Gets : Served(h)' <=> Served(h)
    BY <1>5, StreamMoves DEF Served, TypeOK
  <2> QED
    BY <1>1, <2>1, <2>2, GotFrame
<1>6. ASSUME Restart
      PROVE  Ticket!Next
  <2>1. DOMAIN tickets' = {} /\ UNCHANGED <<issued, shown, keys>>
    BY <1>6 DEF Restart, svars
  <2>2. \A h \in Gets : Served(h)' <=> Served(h)
    BY <1>6 DEF Restart, Served, TypeOK
  <2> QED
    BY <1>1, <2>1, <2>2, GotFrame
<1>7. ASSUME Tick \/ UNCHANGED vars
      PROVE  Ticket!Next
  <2>1. UNCHANGED <<tickets, issued, shown, keys, pc>>
    BY <1>7 DEF Tick, vars, gvars, svars
  <2> QED
    BY <1>1, <2>1, GotFrame DEF Served
<1> QED
  BY <1>2, <1>3, <1>4, <1>5, <1>6, <1>7 DEF Next

\* The store, its clock, its purges and the process's restarts keep what a
\* voucher promises (issue, redeem, handleBatchDownloadObjectsGet).
THEOREM Vouchers == Spec => ImplementsVoucher
<1>1. Init => Ticket!Init
  <2>1. ASSUME Init PROVE \A g \in Gets : Got(g) = {}
    BY <2>1 DEF Init, Got, Served
  <2>2. ASSUME Init PROVE \A t \in Tokens : State(t) = "unused" /\ Worth(t) = {}
    BY <2>2 DEF Init, State, Worth
  <2> QED
    BY <2>1, <2>2, Zenon DEF Ticket!Init, Got, State, Worth
<1>2. TypeOK /\ Ledger /\ [Next]_vars => [Ticket!Next]_Ticket!vars
  BY VoucherStep
<1> QED
  BY <1>1, <1>2, Invariance, PTL DEF Spec, ImplementsVoucher, Ticket!Spec

-----------------------------------------------------------------------------
\* What a GET gets, seen from the store: what the history says.
LEMMA RedeemStep ==
  ASSUME TypeOK, Ledger, [Next]_vars, NEW g \in Gets, pc[g] = "idle", pc'[g] # "idle"
  PROVE  LET t == shown'[g].token IN
         /\ pc'[g] = "next" <=> Fresh(t, shown'[g].bucket)
         /\ pc'[g] = "next" => keys'[g] = issued[t].keys
<1>1. ASSUME NEW h \in Gets, Stream(h) PROVE FALSE
  BY <1>1, StreamMoves DEF TypeOK
<1>2. PICK h \in Gets, t \in Tokens, b \in Buckets : Redeem(h, t, b)
  BY <1>1, Zenon DEF Next, RejectKeys, TooMany, Issue, Restart, Tick, vars, gvars
<1>3. h = g
  BY <1>2 DEF Redeem, TypeOK
<1>4. shown'[g].token = t /\ shown'[g].bucket = b
  BY <1>2, <1>3 DEF Redeem, TypeOK
<1>5. Accepts(t, b) <=> Fresh(t, b)
  <2>1. ASSUME t \in DOMAIN tickets
        PROVE  ~(now > tickets[t].expires) <=> now <= issued[t].at + TTL
    BY <2>1, BatchAssumption DEF Ledger, TypeOK
  <2> QED
    BY <2>1 DEF Accepts, Fresh, Ledger
<1>6. CASE Accepts(t, b)
  <2>1. pc'[g] = "next" /\ keys'[g] = tickets[t].keys
    BY <1>2, <1>3, <1>6 DEF Redeem, TypeOK
  <2>2. tickets[t].keys = issued[t].keys
    BY <1>6 DEF Accepts, Ledger
  <2> QED
    BY <1>4, <1>5, <1>6, <2>1, <2>2
<1>7. CASE ~Accepts(t, b)
  <2>1. pc'[g] = "refused"
    BY <1>2, <1>3, <1>7 DEF Redeem, TypeOK
  <2> QED
    BY <1>4, <1>5, <1>7, <2>1
<1> QED
  BY <1>6, <1>7

\* redeem serves exactly the fresh tokens, and serves them the keys that were
\* POSTed.
THEOREM RedeemsExactlyFresh == Spec => RedeemExactly
<1>1. TypeOK /\ Ledger /\ [Next]_vars =>
        [\A g \in Gets : pc[g] = "idle" /\ pc'[g] # "idle" =>
           LET t == shown'[g].token IN
           /\ pc'[g] = "next" <=> Fresh(t, shown'[g].bucket)
           /\ pc'[g] = "next" => keys'[g] = issued[t].keys]_vars
  BY RedeemStep
<1> QED
  BY <1>1, Invariance, PTL DEF Spec, RedeemExactly

\* A refused POST found MaxTickets fresh tickets.
LEMMA RefusalStep ==
  ASSUME TypeOK, Ledger, [Next]_vars, NEW p \in Posts, post[p] = "idle", post'[p] = "tooMany"
  PROVE  Cardinality({t \in DOMAIN issued : Fresh(t, issued[t].bucket)}) >= MaxTickets
<1> DEFINE good == {t \in DOMAIN issued : Fresh(t, issued[t].bucket)}
           live == {t \in DOMAIN tickets : ~(now > tickets[t].expires)}
<1>1. ASSUME NEW g \in Gets, Stream(g) PROVE post' = post
  BY <1>1, StreamFrame
<1>2. ASSUME NEW q \in Posts, NEW ks \in KeyLists, TooMany(q, ks) PROVE Full(live)
  BY <1>2 DEF TooMany, Unexpired
<1>3. ASSUME NEW q \in Posts, NEW ks \in KeyLists, ~TooMany(q, ks),
             RejectKeys(q, ks) \/ \E b \in Buckets, t \in Tokens : Issue(q, b, ks, t)
      PROVE  FALSE
  BY <1>3 DEF RejectKeys, Issue, TypeOK
<1>4. ASSUME NEW g \in Gets, NEW t \in Tokens, NEW b \in Buckets, Redeem(g, t, b) PROVE post' = post
  BY <1>4 DEF Redeem
<1>5. ASSUME Restart \/ Tick \/ UNCHANGED vars PROVE post' = post
  BY <1>5 DEF Restart, Tick, vars
<1>6. Full(live)
  <2> HIDE DEF live
  <2> QED BY <1>1, <1>2, <1>3, <1>4, <1>5 DEF Next
<1>7. live \subseteq good
  <2>1. ASSUME NEW t \in live PROVE t \in good
    <3>1. t \in DOMAIN tickets /\ tickets[t].expires = issued[t].at + TTL /\ tickets[t].expires \in Nat
      BY <2>1 DEF Ledger, TypeOK
    <3>2. now <= issued[t].at + TTL
      BY <2>1, <3>1 DEF TypeOK
    <3> QED
      BY <3>1, <3>2 DEF Ledger, Fresh
  <2> QED
    BY <2>1
<1>8. IsFiniteSet(good)
  <2>1. good \subseteq Tokens
    BY DEF TypeOK
  <2> QED
    BY <2>1, BatchAssumption, FS_Subset
<1>9. IsFiniteSet(live) /\ Cardinality(live) <= Cardinality(good)
  BY <1>7, <1>8, FS_Subset
<1>10. Cardinality(live) \in Nat /\ Cardinality(good) \in Nat
  BY <1>8, <1>9, FS_CardinalityType
<1> HIDE DEF live, good
<1>11. Cardinality(good) >= MaxTickets
  BY <1>6, <1>9, <1>10, BatchAssumption DEF Full
<1> QED
  BY <1>11 DEF good

\* issue turns a POST away only when MaxTickets fresh tickets are pending:
\* expired, redeemed and misused ones hold no slot.
THEOREM NoSlotLeaks == Spec => RefusedOnlyWhenFull
<1>1. TypeOK /\ Ledger /\ [Next]_vars =>
        [\A p \in Posts : post[p] = "idle" /\ post'[p] = "tooMany" =>
           Cardinality({t \in DOMAIN issued : Fresh(t, issued[t].bucket)}) >= MaxTickets]_vars
  BY RefusalStep
<1> QED
  BY <1>1, Invariance, PTL DEF Spec, RefusedOnlyWhenFull

-----------------------------------------------------------------------------
(* Induction, and the loop of sanitizeZipEntryName *)

\* Induction over the numbers: a set of them that is not empty has a least one.
LEMMA LeastNat ==
  ASSUME NEW S \in SUBSET Nat, S # {}
  PROVE  \E n \in S : \A m \in S : n <= m
<1> DEFINE F == {0..n : n \in S}
<1>1. F \subseteq FiniteSubsetsOf(Nat)
  <2>1. ASSUME NEW n \in S PROVE 0..n \in FiniteSubsetsOf(Nat)
    BY FS_Interval DEF FiniteSubsetsOf
  <2> QED
    BY <2>1
<1>2. IsWellFoundedOn(StrictSubsetOrdering(Nat), FiniteSubsetsOf(Nat))
  BY FS_StrictSubsetOrderingWellFounded
<1>3. F # {}
  OBVIOUS
<1>4. PICK x \in F : \A y \in F : ~(<<y, x>> \in StrictSubsetOrdering(Nat))
  <2> HIDE DEF F
  <2> QED BY <1>1, <1>2, <1>3, WFMin
<1>5. PICK n \in S : x = 0..n
  OBVIOUS
<1>6. ASSUME NEW m \in S, ~(n <= m) PROVE FALSE
  <2>1. 0..m \in F /\ 0..m \subseteq 0..n /\ 0..m # 0..n /\ 0..m \subseteq Nat /\ 0..n \subseteq Nat
    BY <1>6
  <2> QED
    BY <2>1, <1>4, <1>5 DEF StrictSubsetOrdering
<1> QED
  BY <1>6

\* The paths sanitizeZipEntryName is to return.
Safe == {s \in Seq(DOMAIN Neutral) : \A i \in 1..Len(s) : s[i] \notin Unsafe}

\* What the loop keeps of the first i segments, given what it keeps of one less.
Kept(path, o, i) ==
  IF i = 0 THEN <<>>
  ELSE IF Strip[path[i]] \in Unsafe THEN o[i - 1]
  ELSE Append(o[i - 1], Strip[path[i]])

LEMMA KeepsSafe ==
  ASSUME NEW path \in Seq(DOMAIN Strip), NEW o, NEW i \in 0..Len(path), i # 0 => o[i - 1] \in Safe
  PROVE  Kept(path, o, i) \in Safe
<1>1. CASE i = 0
  BY <1>1 DEF Kept, Safe
<1>2. CASE i # 0
  <2>1. path[i] \in DOMAIN Strip
    BY <1>2
  <2>2. Strip[path[i]] \notin Unsafe => Strip[path[i]] \in DOMAIN Neutral
    BY <2>1, NamesAssumption
  <2>3. ASSUME NEW s \in Safe, NEW x \in DOMAIN Neutral, x \notin Unsafe PROVE Append(s, x) \in Safe
    <3>1. /\ s \in Seq(DOMAIN Neutral) /\ Append(s, x) \in Seq(DOMAIN Neutral)
          /\ Len(Append(s, x)) = Len(s) + 1 /\ Append(s, x)[Len(s) + 1] = x
          /\ \A j \in 1..Len(s) : Append(s, x)[j] = s[j] /\ s[j] \notin Unsafe
      BY AppendProperties DEF Safe
    <3>2. \A j \in 1..Len(Append(s, x)) : j \in 1..Len(s) \/ j = Len(s) + 1
      BY <3>1
    <3> QED
      BY <2>3, <3>1, <3>2 DEF Safe
  <2> QED
    BY <1>2, <2>2, <2>3 DEF Kept
<1> QED
  BY <1>1, <1>2

\* sanitizeZipEntryName's loop keeps safe segments only.
LEMMA SafeSegmentsAreSafe ==
  ASSUME NEW path \in Seq(DOMAIN Strip)
  PROVE  SafeSegments(path) \in Safe
<1> DEFINE N == Len(path)
           Out(g, n) == g = [i \in 0..n |-> Kept(path, g, i)]
           Bad == {n \in 0..N : ~\E g : Out(g, n)}
<1>1. N \in Nat
  OBVIOUS
<1>2. Bad = {}
  <2> SUFFICES ASSUME Bad # {} PROVE FALSE
    OBVIOUS
  <2>1. PICK n \in Bad : \A m \in Bad : n <= m
    <3> Bad \in SUBSET Nat
      BY <1>1
    <3> HIDE DEF Bad
    <3> QED
      BY LeastNat
  <2>2. n \in 0..N /\ ~\E g : Out(g, n)
    OBVIOUS
  <2>3. CASE n = 0
    <3> DEFINE g == [i \in 0..0 |-> <<>>]
    <3>1. g = [i \in 0..0 |-> Kept(path, g, i)]
      BY DEF Kept
    <3> QED
      BY <2>2, <2>3, <3>1
  <2>4. CASE n # 0
    <3>1. n - 1 \in 0..N /\ n - 1 \notin Bad
      BY <2>1, <2>2, <2>4, <1>1
    <3>2. PICK g : Out(g, n - 1)
      BY <3>1
    <3> DEFINE h == [i \in 0..n |-> Kept(path, g, i)]
    <3>3. ASSUME NEW i \in 0..n PROVE Kept(path, g, i) = Kept(path, h, i)
      <4>1. i # 0 => i - 1 \in 0..(n - 1) /\ i - 1 \in 0..n
        BY <2>2, <1>1
      <4>2. i # 0 => g[i - 1] = h[i - 1]
        BY <3>2, <4>1
      <4> QED
        BY <4>2 DEF Kept
    <3>4. h = [i \in 0..n |-> Kept(path, h, i)]
      BY <3>3
    <3> QED
      BY <2>2, <3>4
  <2> QED
    BY <2>3, <2>4
<1> DEFINE out == CHOOSE g : Out(g, N)
<1>3. Out(out, N)
  <2>1. \E g : Out(g, N)
    BY <1>1, <1>2
  <2> QED
    BY <2>1
<1>4. SafeSegments(path) = out[N]
  BY DEF SafeSegments, Kept
<1> HIDE DEF out
<1> DEFINE Wrong == {n \in 0..N : out[n] \notin Safe}
<1>5. Wrong = {}
  <2> SUFFICES ASSUME Wrong # {} PROVE FALSE
    OBVIOUS
  <2>1. PICK n \in Wrong : \A m \in Wrong : n <= m
    <3> Wrong \in SUBSET Nat
      BY <1>1
    <3> HIDE DEF Wrong
    <3> QED
      BY LeastNat
  <2>2. n # 0 => out[n - 1] \in Safe
    BY <1>1, <2>1
  <2>3. out[n] = Kept(path, out, n)
    BY <1>3, <2>1
  <2> QED
    BY <2>1, <2>2, <2>3, KeepsSafe
<1> QED
  BY <1>1, <1>4, <1>5

-----------------------------------------------------------------------------
(* The names of the archive's entries *)

\* What NoEscape asks of one name.
Harmless(n) ==
  /\ n.segs # <<>> /\ Neutral[n.segs[1]] = n.segs[1]
  /\ \A j \in 1..Len(n.segs) : n.segs[j] \notin Unsafe

KeyRecords == [path : Seq(DOMAIN Strip), tags : Seq(Nat), slash : BOOLEAN]

LEMMA UnnamedIsHarmless ==
  ASSUME NEW s \in {"unnamed", "_errors.txt"}
  PROVE  Name(<<s>>, <<>>, FALSE) \in EntryNames /\ Harmless(Name(<<s>>, <<>>, FALSE))
<1>1. s \in DOMAIN Neutral /\ Neutral[s] = s
  BY NamesAssumption
<1>2. s \notin Unsafe
  BY DEF Unsafe
<1>3. <<s>> \in Seq(DOMAIN Neutral) /\ Len(<<s>>) = 1 /\ <<s>>[1] = s /\ <<s>> # <<>>
  BY <1>1
<1> QED
  BY <1>1, <1>2, <1>3 DEF Name, EntryNames, Harmless

\* sanitizeZipEntryName, with "unnamed", returns names that stay in the directory.
LEMMA SanitizedIsHarmless ==
  ASSUME NEW k \in KeyRecords
  PROVE  Sanitized(k) \in EntryNames /\ Harmless(Sanitized(k))
<1> DEFINE segs == SafeSegments(k.path)
           out  == [segs EXCEPT ![1] = Neutral[@]]
<1>1. k.path \in Seq(DOMAIN Strip) /\ k.tags \in Seq(Nat) /\ k.slash \in BOOLEAN
  BY DEF KeyRecords
<1>2. segs \in Seq(DOMAIN Neutral) /\ \A i \in 1..Len(segs) : segs[i] \notin Unsafe
  BY <1>1, SafeSegmentsAreSafe DEF Safe
<1>3. CASE segs = <<>>
  BY <1>3, UnnamedIsHarmless DEF Sanitized
<1>4. CASE segs # <<>>
  <2>1. Sanitized(k) = Name(out, k.tags, k.slash)
    BY <1>4 DEF Sanitized
  <2> HIDE DEF segs
  <2>2. Len(segs) \in Nat /\ Len(segs) >= 1 /\ segs[1] \in DOMAIN Neutral /\ segs[1] \notin Unsafe
    BY <1>2, <1>4
  <2>3. /\ Neutral[segs[1]] \in DOMAIN Neutral /\ Neutral[segs[1]] \notin Unsafe
        /\ Neutral[Neutral[segs[1]]] = Neutral[segs[1]]
    BY <2>2, NamesAssumption
  <2>4. /\ out \in Seq(DOMAIN Neutral) /\ Len(out) = Len(segs)
        /\ \A j \in 1..Len(segs) : out[j] = IF j = 1 THEN Neutral[segs[1]] ELSE segs[j]
    BY <1>2, <2>2, <2>3
  <2>5. out # <<>> /\ 1 \in 1..Len(segs)
    BY <2>2, <2>4
  <2>6. \A j \in 1..Len(out) : out[j] \notin Unsafe
    BY <1>2, <2>3, <2>4
  <2> HIDE DEF out
  <2> QED
    BY <1>1, <2>1, <2>3, <2>4, <2>5, <2>6 DEF Name, EntryNames, Harmless
<1> QED
  BY <1>3, <1>4

LEMMA UsedIsFinite ==
  ASSUME NEW es \in Seq(ZipEntries)
  PROVE  IsFiniteSet(Used(es)) /\ Cardinality(Used(es)) \in Nat
<1> DEFINE f == [i \in 1..Len(es) |-> es[i].name]
<1>1. f \in Surjection(1..Len(es), Used(es))
  BY DEF Used, Surjection
<1>2. IsFiniteSet(1..Len(es))
  BY FS_Interval
<1>3. IsFiniteSet(Used(es))
  BY <1>1, <1>2, FS_Surjection
<1> QED
  BY <1>3, FS_CardinalityType

\* zipNamer.unique finds a free " (n)", however many are taken.
LEMMA UniqueIsFree ==
  ASSUME NEW n \in EntryNames, NEW used, IsFiniteSet(used), Cardinality(used) \in Nat
  PROVE  /\ Unique(n, used) \in EntryNames /\ Unique(n, used) \notin used
         /\ Unique(n, used).segs = n.segs /\ Unique(n, used).dir = n.dir
<1> DEFINE Cand(i) == [n EXCEPT !.tags = Append(@, i)]
           Most == Cardinality(used) + 1
           Free == {i \in 1..Most : Cand(i) \notin used}
<1>1. ASSUME NEW i \in Nat
      PROVE  Cand(i) \in EntryNames /\ Cand(i).segs = n.segs /\ Cand(i).dir = n.dir
             /\ Cand(i).tags = Append(n.tags, i)
  <2>1. n.segs \in Seq(DOMAIN Neutral) /\ n.tags \in Seq(Nat) /\ n.dir \in BOOLEAN
    BY DEF EntryNames
  <2>2. Append(n.tags, i) \in Seq(Nat)
    BY <2>1, AppendProperties
  <2>3. ASSUME NEW s \in Seq(Nat)
        PROVE  /\ [n EXCEPT !.tags = s] \in EntryNames
               /\ [n EXCEPT !.tags = s].segs = n.segs
               /\ [n EXCEPT !.tags = s].dir = n.dir /\ [n EXCEPT !.tags = s].tags = s
    BY DEF EntryNames
  <2> QED
    BY <2>2, <2>3
<1>2. ASSUME NEW i \in Nat, NEW j \in Nat, Cand(i) = Cand(j) PROVE i = j
  <2> HIDE DEF Cand
  <2>1. Append(n.tags, i) = Append(n.tags, j) /\ n.tags \in Seq(Nat)
    BY <1>1, <1>2 DEF EntryNames
  <2> QED
    BY <2>1, AppendProperties
<1> HIDE DEF Cand
<1>3. Free # {}
  <2> SUFFICES ASSUME Free = {} PROVE FALSE
    OBVIOUS
  <2> DEFINE f == [i \in 1..Most |-> Cand(i)]
  <2>1. f \in [1..Most -> used]
    OBVIOUS
  <2>2. IsFiniteSet(1..Most) /\ Cardinality(1..Most) = Most
    BY FS_Interval
  <2>3. Cardinality(used) < Cardinality(1..Most)
    BY <2>2
  <2>4. \E x, y \in 1..Most : x # y /\ f[x] = f[y]
    <3> DEFINE S == 1..Most
    <3>1. IsFiniteSet(S) /\ Cardinality(used) < Cardinality(S) /\ f \in [S -> used]
      BY <2>1, <2>2, <2>3
    <3> HIDE DEF f, S, Free
    <3>2. \E x, y \in S : x # y /\ f[x] = f[y]
      BY <3>1, FS_PigeonHole
    <3> QED
      BY <3>2 DEF S
  <2> QED
    BY <2>4, <1>2
<1>4. \E i \in Free : \A j \in Free : i <= j
  <2>1. Free \in SUBSET Nat
    OBVIOUS
  <2> HIDE DEF Free
  <2> QED
    BY <1>3, <2>1, LeastNat
<1>5. PICK i \in Free : i = (CHOOSE x \in Free : \A j \in Free : x <= j)
  <2> HIDE DEF Free
  <2> QED
    BY <1>4
<1>6. Unique(n, used) = IF n \notin used THEN n ELSE Cand(i)
  BY <1>5 DEF Unique, Cand
<1>7. i \in Nat /\ Cand(i) \notin used
  OBVIOUS
<1> HIDE DEF Free
<1> QED
  BY <1>1, <1>6, <1>7

-----------------------------------------------------------------------------
(* The archive *)

\* The names of the entries es are apart and harmless.
Named(es) ==
  /\ \A i, j \in 1..Len(es) : es[i].name = es[j].name => i = j
  /\ \A i \in 1..Len(es) : Harmless(es[i].name)

LEMMA AppendEntry ==
  ASSUME NEW es \in Seq(ZipEntries), NEW e \in ZipEntries,
         NEW more, more = Append(es, e)
  PROVE  /\ more \in Seq(ZipEntries) /\ Len(more) = Len(es) + 1 /\ Len(es) \in Nat
         /\ more # <<>> /\ more[Len(more)] = e
         /\ \A i \in 1..Len(es) : i \in 1..Len(more) /\ more[i] = es[i]
         /\ \A i \in 1..Len(more) : i \in 1..Len(es) \/ i = Len(more)
BY AppendProperties

\* A new entry with a free, harmless name.
LEMMA AppendNamed ==
  ASSUME NEW es \in Seq(ZipEntries), Named(es),
         NEW e \in ZipEntries, e.name \notin Used(es), Harmless(e.name),
         NEW more, more = Append(es, e)
  PROVE  Named(more)
<1>1. \A i \in 1..Len(es) : es[i].name # e.name
  BY DEF Used
<1> QED
  BY <1>1, AppendEntry DEF Named

\* The key a GET is at.
LEMMA AtKeyFacts ==
  ASSUME TypeOK, NEW g \in Gets, Streamed(g), AtKey(g)
  PROVE  /\ keys[g][pos[g]] \in KeyRecords /\ Len(keys[g]) \in Nat
         /\ pos[g] \in 1..Len(keys[g])
<1>1. pos[g] \in Nat /\ pos[g] >= 1 /\ pos[g] <= Len(keys[g])
  BY DEF TypeOK, Streamed, AtKey
<1>2. keys[g] \in KeyLists \cup {<<>>}
  BY DEF TypeOK
<1>3. keys[g] \in Seq(KeyRecords)
  <2>1. KeyLists \subseteq Seq(KeyRecords)
    BY NamesAssumption DEF KeyRecords
  <2>2. <<>> \in Seq(KeyRecords)
    OBVIOUS
  <2> QED
    BY <1>2, <2>1, <2>2, Zenon
<1> QED
  BY <1>1, <1>3

\* The state of h's archive is left alone.
SameArchive(h) ==
  /\ entries'[h] = entries[h] /\ pos'[h] = pos[h]
  /\ failures'[h] = failures[h] /\ keys'[h] = keys[h]

LEMMA ArchiveKept ==
  ASSUME TypeOK, ArchiveTypes, NEW h \in Gets, Streamed(h), Named(entries[h]), SameArchive(h),
         pc'[h] = pc[h] \/ (pc[h] \in {"next", "copy"} /\ pc'[h] = "cut")
  PROVE  Streamed(h)' /\ Named(entries[h])'
BY DEF Streamed, Named, SameArchive, Held

\* What the steps below show of the archive of g, part by part: its shape, the
\* keys dealt with, the entry being copied, and whether there is a report.
Fits(g) ==
  /\ \A j \in 1..Len(entries[g]) : entries[g][j].name.dir => entries[g][j].whole
  /\ pos[g] \in Nat /\ pos[g] >= 1 /\ failures[g] \subseteq 1..(pos[g] - 1)

Covers(g) == \A i \in 1..Len(keys[g]) : i < pos[g] => i \in failures[g] \/ Held(g, i)

Open(g) ==
  /\ pos[g] <= Len(keys[g]) /\ entries[g] # <<>>
  /\ entries[g][Len(entries[g])].from = pos[g] /\ ~entries[g][Len(entries[g])].whole

Reported(g) == \E j \in 1..Len(entries[g]) : entries[g][j].from = 0

LEMMA StreamedParts ==
  ASSUME TypeOK, ArchiveTypes, NEW g \in Gets, Streamed(g), pc[g] \in {"next", "copy"}
  PROVE  Fits(g) /\ Covers(g) /\ ~Reported(g) /\ (pc[g] = "copy" => Open(g))
BY DEF TypeOK, Streamed, Fits, Covers, Reported, Open

LEMMA StreamedFromParts ==
  ASSUME NEW g \in Gets, Fits(g)', Covers(g)', 
         \/ pc'[g] = "next" /\ ~Reported(g)'
         \/ pc'[g] = "copy" /\ ~Reported(g)' /\ Open(g)'
         \/ pc'[g] = "done" /\ (Reported(g)' <=> failures'[g] # {}) /\ pos'[g] > Len(keys'[g])
  PROVE  Streamed(g)'
BY DEF Streamed, Fits, Covers, Reported, Open

\* GetObject fails: the key is among the failures.
LEMMA GetFailsStep ==
  ASSUME TypeOK, ArchiveTypes, NEW g \in Gets, Streamed(g), GetFails(g)
  PROVE  Streamed(g)' /\ entries'[g] = entries[g]
<1>1. /\ failures'[g] = failures[g] \cup {pos[g]} /\ pos'[g] = pos[g] + 1 /\ pos[g] \in Nat
      /\ entries' = entries /\ keys' = keys /\ pc' = pc /\ pc[g] = "next"
  BY DEF TypeOK, GetFails, AtKey
<1>2. Fits(g) /\ Covers(g) /\ ~Reported(g)
  BY <1>1, StreamedParts
<1>3. \A i \in 1..Len(keys[g]) : Held(g, i) => Held(g, i)'
  BY <1>1 DEF Held
<1>4. Fits(g)'
  BY <1>1, <1>2 DEF Fits
<1>5. Covers(g)'
  BY <1>1, <1>2, <1>3 DEF Covers
<1>6. ~Reported(g)'
  BY <1>1, <1>2 DEF Reported
<1> QED
  BY <1>1, <1>4, <1>5, <1>6, StreamedFromParts

\* An entry that is appended leaves what is held held.
LEMMA AppendKeeps ==
  ASSUME ArchiveTypes, NEW g \in Gets, keys'[g] = keys[g],
         NEW e \in ZipEntries, entries'[g] = Append(entries[g], e)
  PROVE  /\ \A i \in 1..Len(keys[g]) : Held(g, i) => Held(g, i)'
         /\ \A i \in 1..Len(keys[g]) :
              e.whole /\ (e.from = i \/ (e.name.dir /\ e.name = Sanitized(keys[g][i]))) => Held(g, i)'
         /\ Reported(g)' <=> Reported(g) \/ e.from = 0
<1> DEFINE es == entries[g]
           more == entries'[g]
<1>0. es \in Seq(ZipEntries)
  BY DEF ArchiveTypes
<1>1. /\ Len(more) = Len(es) + 1 /\ Len(es) \in Nat /\ more[Len(more)] = e
      /\ \A i \in 1..Len(es) : i \in 1..Len(more) /\ more[i] = es[i]
      /\ \A i \in 1..Len(more) : i \in 1..Len(es) \/ i = Len(more)
  BY <1>0, AppendEntry
<1>2. Len(more) \in 1..Len(more)
  BY <1>1
<1>3. \A i \in 1..Len(keys[g]) : Held(g, i) => Held(g, i)'
  BY <1>1 DEF Held
<1>4. ASSUME NEW i \in 1..Len(keys[g]), e.whole, e.from = i \/ (e.name.dir /\ e.name = Sanitized(keys[g][i]))
      PROVE  Held(g, i)'
  BY <1>1, <1>2, <1>4 DEF Held
<1>5. Reported(g)' <=> Reported(g) \/ e.from = 0
  BY <1>1, <1>2 DEF Reported
<1> QED
  BY <1>3, <1>4, <1>5

LEMMA DirectoryStep ==
  ASSUME TypeOK, ArchiveTypes, NEW g \in Gets, Streamed(g), Named(entries[g]), AddDirectory(g)
  PROVE  Streamed(g)' /\ Named(entries'[g]) /\ ArchiveTypes'
<1> DEFINE n == Sanitized(keys[g][pos[g]])
           e == Entry(n, pos[g], TRUE)
<1>1. /\ AtKey(g) /\ n.dir /\ pc[g] = "next" /\ pc' = pc /\ keys' = keys /\ failures' = failures
      /\ pos'[g] = pos[g] + 1 /\ pos[g] \in Nat
  BY DEF AddDirectory, AtKey, TypeOK
<1>10. entries' = [entries EXCEPT ![g] = IF n \in Used(@) THEN @ ELSE Append(@, e)]
  BY DEF AddDirectory
<1>2. keys[g][pos[g]] \in KeyRecords /\ pos[g] \in 1..Len(keys[g])
  BY <1>1, AtKeyFacts
<1>3. n \in EntryNames /\ Harmless(n)
  BY <1>2, SanitizedIsHarmless
<1>4. entries[g] \in Seq(ZipEntries)
  BY DEF ArchiveTypes
<1>5. e \in ZipEntries /\ e.name = n /\ e.from = pos[g] /\ e.from # 0 /\ e.whole
  BY <1>2, <1>3 DEF Entry, ZipEntries
<1>6. Fits(g) /\ Covers(g) /\ ~Reported(g)
  BY <1>1, StreamedParts
<1> HIDE DEF n, e
<1>8. CASE n \in Used(entries[g])
  <2>1. entries'[g] = entries[g] /\ ArchiveTypes'
    BY <1>8, <1>10 DEF ArchiveTypes
  <2>2. \A i \in 1..Len(keys[g]) : Held(g, i) => Held(g, i)'
    BY <1>1, <2>1 DEF Held
  <2>3. ASSUME NEW i \in 1..Len(keys[g]), i = pos[g] PROVE Held(g, i)'
    <3>1. PICK j \in 1..Len(entries[g]) : entries[g][j].name = n
      BY <1>8 DEF Used
    <3>2. entries[g][j].whole
      BY <1>1, <1>6, <3>1 DEF Fits
    <3>3. n = Sanitized(keys[g][i])
      BY <2>3 DEF n
    <3> QED
      BY <1>1, <2>1, <3>1, <3>2, <3>3 DEF Held
  <2>4. Fits(g)' /\ ~Reported(g)'
    <3>1. Fits(g)'
      <4>1. pos[g] >= 1 /\ failures[g] \subseteq 1..(pos[g] - 1)
        BY <1>6 DEF Fits
      <4>2. pos'[g] \in Nat /\ pos'[g] >= 1 /\ failures'[g] \subseteq 1..(pos'[g] - 1)
        BY <1>1, <4>1
      <4> QED
        BY <1>6, <2>1, <4>2 DEF Fits
    <3>2. ~Reported(g)'
      BY <1>1, <1>6, <2>1 DEF Reported
    <3> QED
      BY <3>1, <3>2
  <2>5. Covers(g)'
    BY <1>1, <1>2, <1>6, <2>2, <2>3 DEF Covers
  <2> QED
    BY <1>1, <2>1, <2>4, <2>5, StreamedFromParts
<1>9. CASE n \notin Used(entries[g])
  <2>0. Append(entries[g], e) \in Seq(ZipEntries)
    BY <1>4, <1>5
  <2>1. entries'[g] = Append(entries[g], e) /\ ArchiveTypes'
    BY <1>9, <1>10, <2>0 DEF ArchiveTypes
  <2>2. /\ \A i \in 1..Len(keys[g]) : Held(g, i) => Held(g, i)'
        /\ \A i \in 1..Len(keys[g]) : e.from = i => Held(g, i)'
        /\ Reported(g)' <=> Reported(g) \/ e.from = 0
    BY <1>1, <1>5, <2>1, AppendKeeps
  <2>3. Named(entries'[g])
    BY <1>3, <1>4, <1>5, <1>9, <2>1, AppendNamed
  <2>4. Fits(g)'
    BY <1>1, <1>4, <1>5, <1>6, <2>1, AppendEntry DEF Fits
  <2>5. Covers(g)'
    BY <1>1, <1>2, <1>5, <1>6, <2>2 DEF Covers
  <2> QED
    BY <1>1, <1>5, <1>6, <2>1, <2>2, <2>3, <2>4, <2>5, StreamedFromParts
<1> QED
  BY <1>8, <1>9

\* The name of a file or of the report: one that is harmless gets a free one.
LEMMA FreshName ==
  ASSUME NEW es \in Seq(ZipEntries), NEW n \in EntryNames, Harmless(n)
  PROVE  /\ Unique(n, Used(es)) \in EntryNames /\ Unique(n, Used(es)) \notin Used(es)
         /\ Harmless(Unique(n, Used(es))) /\ Unique(n, Used(es)).dir = n.dir
BY UsedIsFinite, UniqueIsFree DEF Harmless

LEMMA OpenStep ==
  ASSUME TypeOK, ArchiveTypes, NEW g \in Gets, Streamed(g), Named(entries[g]), OpenEntry(g)
  PROVE  Streamed(g)' /\ Named(entries'[g]) /\ ArchiveTypes'
<1> DEFINE n == [Sanitized(keys[g][pos[g]]) EXCEPT !.dir = FALSE]
           m == Unique(n, Used(entries[g]))
           e == Entry(m, pos[g], FALSE)
<1>1. /\ AtKey(g) /\ pc[g] = "next" /\ pc'[g] = "copy"
      /\ keys' = keys /\ failures' = failures /\ pos' = pos /\ pos[g] \in Nat
      /\ entries' = [entries EXCEPT ![g] = Append(@, e)]
  BY DEF OpenEntry, AtKey, TypeOK
<1>2. keys[g][pos[g]] \in KeyRecords /\ pos[g] \in 1..Len(keys[g]) /\ Len(keys[g]) \in Nat
  BY <1>1, AtKeyFacts
<1>3. n \in EntryNames /\ Harmless(n) /\ n.dir = FALSE
  <2>1. Sanitized(keys[g][pos[g]]) \in EntryNames /\ Harmless(Sanitized(keys[g][pos[g]]))
    BY <1>2, SanitizedIsHarmless
  <2> QED
    BY <2>1 DEF EntryNames, Harmless
<1>4. entries[g] \in Seq(ZipEntries)
  BY DEF ArchiveTypes
<1> HIDE DEF n
<1>5. m \in EntryNames /\ m \notin Used(entries[g]) /\ Harmless(m) /\ m.dir = FALSE
  BY <1>3, <1>4, FreshName
<1>6. e \in ZipEntries /\ e.name = m /\ e.from = pos[g] /\ e.from # 0 /\ ~e.whole
  BY <1>2, <1>5 DEF Entry, ZipEntries
<1>7. Fits(g) /\ Covers(g) /\ ~Reported(g)
  BY <1>1, StreamedParts
<1> HIDE DEF m, e
<1>8. Append(entries[g], e) \in Seq(ZipEntries)
  BY <1>4, <1>6
<1>9. entries'[g] = Append(entries[g], e) /\ ArchiveTypes'
  BY <1>1, <1>8 DEF ArchiveTypes
<1>10. Named(entries'[g])
  BY <1>4, <1>5, <1>6, <1>9, AppendNamed
<1>11. /\ \A i \in 1..Len(keys[g]) : Held(g, i) => Held(g, i)'
       /\ Reported(g)' <=> Reported(g) \/ e.from = 0
  BY <1>1, <1>6, <1>9, AppendKeeps
<1>12. Fits(g)'
  BY <1>1, <1>4, <1>5, <1>6, <1>7, <1>9, AppendEntry DEF Fits
<1>13. Covers(g)'
  BY <1>1, <1>7, <1>11 DEF Covers
<1>14. Open(g)'
  <2>1. entries'[g] # <<>> /\ entries'[g][Len(entries'[g])] = e
    BY <1>4, <1>6, <1>9, AppendEntry
  <2>2. pos'[g] = pos[g] /\ keys'[g] = keys[g]
    BY <1>1
  <2> QED
    BY <1>2, <1>6, <2>1, <2>2 DEF Open
<1> QED
  BY <1>1, <1>6, <1>7, <1>9, <1>10, <1>11, <1>12, <1>13, <1>14, StreamedFromParts

LEMMA CloseStep ==
  ASSUME TypeOK, ArchiveTypes, NEW g \in Gets, Streamed(g), Named(entries[g]), Close(g)
  PROVE  Streamed(g)' /\ Named(entries'[g]) /\ ArchiveTypes'
<1> DEFINE m == Unique(ErrorsEntry, Used(entries[g]))
           e == Entry(m, 0, TRUE)
<1>1. /\ pc[g] = "next" /\ pc'[g] = "done" /\ pos[g] > Len(keys[g])
      /\ keys' = keys /\ failures' = failures /\ pos' = pos
      /\ entries' = [entries EXCEPT ![g] = IF failures[g] = {} THEN @ ELSE Append(@, e)]
  BY DEF Close, TypeOK
<1>2. entries[g] \in Seq(ZipEntries)
  BY DEF ArchiveTypes
<1>3. m \in EntryNames /\ m \notin Used(entries[g]) /\ Harmless(m) /\ m.dir = FALSE
  <2>1. ErrorsEntry \in EntryNames /\ Harmless(ErrorsEntry)
    BY UnnamedIsHarmless DEF ErrorsEntry
  <2>2. ErrorsEntry.dir = FALSE
    BY DEF ErrorsEntry, Name
  <2> QED
    BY <1>2, <2>1, <2>2, FreshName
<1>4. e \in ZipEntries /\ e.name = m /\ e.from = 0 /\ e.whole
  BY <1>3 DEF Entry, ZipEntries
<1>5. Fits(g) /\ Covers(g) /\ ~Reported(g)
  BY <1>1, StreamedParts
<1> HIDE DEF m, e
<1>6. CASE failures[g] = {}
  <2>1. entries'[g] = entries[g] /\ ArchiveTypes'
    BY <1>1, <1>6 DEF ArchiveTypes
  <2>2. \A i \in 1..Len(keys[g]) : Held(g, i) => Held(g, i)'
    BY <1>1, <2>1 DEF Held
  <2>3. Fits(g)'
    BY <1>1, <1>5, <2>1 DEF Fits
  <2>4. Covers(g)'
    BY <1>1, <1>5, <2>2 DEF Covers
  <2>5. ~Reported(g)'
    BY <1>5, <2>1 DEF Reported
  <2> QED
    BY <1>1, <1>6, <2>1, <2>3, <2>4, <2>5, StreamedFromParts
<1>7. CASE failures[g] # {}
  <2>1. Append(entries[g], e) \in Seq(ZipEntries)
    BY <1>2, <1>4
  <2>2. entries'[g] = Append(entries[g], e) /\ ArchiveTypes'
    BY <1>1, <1>7, <2>1 DEF ArchiveTypes
  <2>3. /\ \A i \in 1..Len(keys[g]) : Held(g, i) => Held(g, i)'
        /\ Reported(g)' <=> Reported(g) \/ e.from = 0
    BY <1>1, <1>4, <2>2, AppendKeeps
  <2>4. Fits(g)'
    BY <1>1, <1>2, <1>3, <1>4, <1>5, <2>2, AppendEntry DEF Fits
  <2>5. Covers(g)'
    BY <1>1, <1>5, <2>3 DEF Covers
  <2>6. Named(entries'[g])
    BY <1>2, <1>3, <1>4, <2>2, AppendNamed
  <2> QED
    BY <1>1, <1>4, <1>7, <2>2, <2>3, <2>4, <2>5, <2>6, StreamedFromParts
<1> QED
  BY <1>6, <1>7

\* A copy that ends makes its entry, the last one, whole.
LEMMA CopyEndsStep ==
  ASSUME TypeOK, ArchiveTypes, NEW g \in Gets, Streamed(g), Named(entries[g]), CopyEnds(g)
  PROVE  Streamed(g)' /\ Named(entries'[g]) /\ ArchiveTypes'
<1> DEFINE es == entries[g]
           last == Len(es)
           more == [es EXCEPT ![last].whole = TRUE]
<1>1. /\ pc[g] = "copy" /\ pc'[g] = "next" /\ pos'[g] = pos[g] + 1 /\ pos[g] \in Nat
      /\ keys' = keys /\ failures' = failures
      /\ entries' = [entries EXCEPT ![g] = more]
  BY DEF CopyEnds, TypeOK
<1>2. Fits(g) /\ Covers(g) /\ ~Reported(g) /\ Open(g)
  BY <1>1, StreamedParts
<1>3. es \in Seq(ZipEntries)
  BY DEF ArchiveTypes
<1>4. last \in 1..Len(es) /\ es[last].from = pos[g] /\ pos[g] <= Len(keys[g])
  BY <1>2, <1>3 DEF Open
<1> HIDE DEF es
<1>5. [es[last] EXCEPT !.whole = TRUE] \in ZipEntries
  <2>1. es[last] \in ZipEntries
    BY <1>3, <1>4
  <2> QED
    BY <2>1 DEF ZipEntries
<1>6. /\ more \in Seq(ZipEntries) /\ Len(more) = Len(es)
      /\ \A i \in 1..Len(es) : more[i] = IF i = last THEN [es[last] EXCEPT !.whole = TRUE] ELSE es[i]
  BY <1>3, <1>4, <1>5
<1>7. /\ \A i \in 1..Len(es) : /\ more[i].name = es[i].name /\ more[i].from = es[i].from
                               /\ es[i].whole => more[i].whole
      /\ more[last].whole
  BY <1>3, <1>4, <1>6 DEF ZipEntries
<1> HIDE DEF more
<1>8. entries'[g] = more /\ ArchiveTypes'
  BY <1>1, <1>6 DEF ArchiveTypes
<1>9. Named(entries'[g])
  BY <1>6, <1>7, <1>8 DEF Named, es
<1>10. \A i \in 1..Len(keys[g]) : Held(g, i) => Held(g, i)'
  BY <1>1, <1>6, <1>7, <1>8 DEF Held, es
<1>11. ASSUME NEW i \in 1..Len(keys[g]), i = pos[g] PROVE Held(g, i)'
  BY <1>4, <1>6, <1>7, <1>8, <1>11 DEF Held
<1>12. Fits(g)'
  <2>1. \A j \in 1..Len(more) : more[j].name.dir => more[j].whole
    BY <1>2, <1>6, <1>7 DEF Fits, es
  <2> QED
    BY <1>1, <1>2, <1>8, <2>1 DEF Fits
<1>13. Covers(g)'
  BY <1>1, <1>2, <1>10, <1>11 DEF Covers
<1>14. ~Reported(g)'
  BY <1>2, <1>6, <1>7, <1>8 DEF Reported, es
<1> QED
  BY <1>1, <1>8, <1>9, <1>12, <1>13, <1>14, StreamedFromParts

LEMMA CopyBreaksStep ==
  ASSUME TypeOK, ArchiveTypes, NEW g \in Gets, Streamed(g), CopyBreaks(g)
  PROVE  Streamed(g)' /\ entries' = entries
<1>1. /\ failures'[g] = failures[g] \cup {pos[g]} /\ pos'[g] = pos[g] + 1 /\ pos[g] \in Nat
      /\ entries' = entries /\ keys' = keys /\ pc[g] = "copy" /\ pc'[g] = "next"
  BY DEF TypeOK, CopyBreaks
<1>2. Fits(g) /\ Covers(g) /\ ~Reported(g)
  BY <1>1, StreamedParts
<1>3. \A i \in 1..Len(keys[g]) : Held(g, i) => Held(g, i)'
  BY <1>1 DEF Held
<1>4. Fits(g)'
  BY <1>1, <1>2 DEF Fits
<1>5. Covers(g)'
  BY <1>1, <1>2, <1>3 DEF Covers
<1>6. ~Reported(g)'
  BY <1>1, <1>2 DEF Reported
<1> QED
  BY <1>1, <1>4, <1>5, <1>6, StreamedFromParts

\* The inductive invariant: the archive holds what it should, under good names.
ArchiveWell == ArchiveInv /\ \A g \in Gets : Named(entries[g])

LEMMA ArchiveInit == Init => ArchiveWell
<1> SUFFICES ASSUME Init PROVE ArchiveWell
  OBVIOUS
<1>1. ASSUME NEW g \in Gets PROVE Streamed(g) /\ Named(entries[g])
  BY DEF Init, Streamed, Named
<1>2. ArchiveTypes
  BY DEF Init, ArchiveTypes
<1> QED
  BY <1>1, <1>2 DEF ArchiveWell, ArchiveInv

\* A step of one GET leaves the archives of the others alone.
LEMMA StreamOthers ==
  ASSUME TypeOK, ArchiveTypes, NEW g \in Gets, Stream(g), NEW h \in Gets, h # g
  PROVE  SameArchive(h) /\ pc'[h] = pc[h]
<1>1. pc'[h] = pc[h]
  BY StreamMoves DEF TypeOK
<1>2. keys' = keys
  BY StreamFrame
<1>3. \/ entries' = entries 
      \/ \E es : entries' = [entries EXCEPT ![g] = es]
  BY DEF Stream, GetFails, AddDirectory, OpenEntry, CopyEnds, CopyBreaks, Close, ClientGone, Abandon, svars
<1>4. pos' = pos \/ pos' = [pos EXCEPT ![g] = @ + 1]
  BY DEF Stream, GetFails, AddDirectory, OpenEntry, CopyEnds, CopyBreaks, Close, ClientGone, Abandon, svars
<1>5. failures' = failures \/ failures' = [failures EXCEPT ![g] = @ \cup {pos[g]}]
  BY DEF Stream, GetFails, AddDirectory, OpenEntry, CopyEnds, CopyBreaks, Close, ClientGone, Abandon, svars
<1>6. entries'[h] = entries[h]
  BY <1>3 DEF ArchiveTypes
<1>7. pos'[h] = pos[h] /\ failures'[h] = failures[h]
  BY <1>4, <1>5 DEF TypeOK
<1> QED
  BY <1>1, <1>2, <1>6, <1>7 DEF SameArchive

LEMMA StreamStep ==
  ASSUME TypeOK, ArchiveWell, NEW g \in Gets, Stream(g)
  PROVE  ArchiveWell'
<1>1. ArchiveTypes /\ Streamed(g) /\ Named(entries[g])
  BY DEF ArchiveWell, ArchiveInv
<1>2. Streamed(g)' /\ Named(entries'[g]) /\ ArchiveTypes'
  <2>1. CASE GetFails(g)
    <3>1. entries' = entries
      BY <2>1 DEF GetFails
    <3> QED
      BY <1>1, <2>1, <3>1, GetFailsStep DEF ArchiveTypes
  <2>2. CASE AddDirectory(g)
    BY <1>1, <2>2, DirectoryStep
  <2>3. CASE OpenEntry(g)
    BY <1>1, <2>3, OpenStep
  <2>4. CASE CopyEnds(g)
    BY <1>1, <2>4, CopyEndsStep
  <2>5. CASE CopyBreaks(g)
    BY <1>1, <2>5, CopyBreaksStep DEF ArchiveTypes
  <2>6. CASE Close(g)
    BY <1>1, <2>6, CloseStep
  <2>7. CASE ClientGone(g) \/ Abandon(g)
    <3>1. entries' = entries /\ pos' = pos /\ failures' = failures /\ keys' = keys
      BY <2>7 DEF ClientGone, Abandon, svars
    <3>2. pc'[g] = pc[g] \/ (pc[g] \in {"next", "copy"} /\ pc'[g] = "cut")
      BY <2>7 DEF ClientGone, Abandon, TypeOK
    <3> QED
      BY <1>1, <3>1, <3>2, ArchiveKept DEF SameArchive, ArchiveTypes
  <2> QED
    BY <2>1, <2>2, <2>3, <2>4, <2>5, <2>6, <2>7 DEF Stream
<1>3. ASSUME NEW h \in Gets, h # g PROVE Streamed(h)' /\ Named(entries'[h])
  BY <1>1, <1>3, StreamOthers, ArchiveKept DEF ArchiveWell, ArchiveInv
<1> QED
  BY <1>2, <1>3 DEF ArchiveWell, ArchiveInv

LEMMA ArchiveStep ==
  ASSUME TypeOK, ArchiveWell, [Next]_vars
  PROVE  ArchiveWell'
<1>1. ASSUME ArchiveTypes' , \A h \in Gets : Streamed(h)' /\ Named(entries'[h])
      PROVE  ArchiveWell'
  BY <1>1 DEF ArchiveWell, ArchiveInv
<1>2. ASSUME entries' = entries, NEW h \in Gets, SameArchive(h),
             pc'[h] = pc[h] \/ (pc[h] \in {"next", "copy"} /\ pc'[h] = "cut")
      PROVE  Streamed(h)' /\ Named(entries'[h])
  BY <1>2, ArchiveKept DEF ArchiveWell, ArchiveInv
<1>3. ArchiveTypes
  BY DEF ArchiveWell, ArchiveInv
<1>4. CASE UNCHANGED gvars
  BY <1>1, <1>2, <1>3, <1>4 DEF gvars, svars, SameArchive, ArchiveTypes
<1>5. ASSUME NEW p \in Posts, NEW ks \in KeyLists,
             \/ RejectKeys(p, ks) \/ TooMany(p, ks)
             \/ \E b \in Buckets, t \in Tokens : Issue(p, b, ks, t)
      PROVE  ArchiveWell'
  BY <1>4, <1>5 DEF RejectKeys, TooMany, Issue
<1>6. ASSUME NEW g \in Gets, NEW t \in Tokens, NEW b \in Buckets, Redeem(g, t, b)
      PROVE  ArchiveWell'
  <2>1. /\ entries' = entries /\ pos' = pos /\ failures' = failures
        /\ pc[g] = "idle" /\ pc'[g] \in {"next", "refused"}
        /\ \A h \in Gets : h # g => pc'[h] = pc[h] /\ keys'[h] = keys[h]
    BY <1>6 DEF Redeem, TypeOK
  <2>2. ASSUME NEW h \in Gets, h # g PROVE Streamed(h)' /\ Named(entries'[h])
    BY <1>2, <2>1, <2>2 DEF SameArchive
  <2>3. Streamed(g) /\ Named(entries[g])
    BY DEF ArchiveWell, ArchiveInv
  <2>4. pos[g] = 1 /\ failures[g] = {} /\ ~Reported(g)
    BY <2>1, <2>3 DEF Streamed, Reported
  <2>5. Fits(g)' /\ ~Reported(g)' /\ Covers(g)'
    BY <2>1, <2>3, <2>4 DEF Streamed, Fits, Reported, Covers
  <2>6. Streamed(g)'
    BY <2>1, <2>5 DEF Streamed, Fits, Reported, Covers
  <2> QED
    BY <1>1, <1>3, <2>1, <2>2, <2>3, <2>6 DEF ArchiveTypes
<1>7. CASE Restart
  <2>1. /\ UNCHANGED svars
        /\ \A h \in Gets : pc'[h] = pc[h] \/ (pc[h] \in {"next", "copy"} /\ pc'[h] = "cut")
    BY <1>7 DEF Restart
  <2> QED
    BY <1>1, <1>2, <1>3, <2>1 DEF svars, SameArchive, ArchiveTypes
<1>8. CASE Tick \/ UNCHANGED vars
  BY <1>4, <1>8 DEF Tick, vars
<1>9. ASSUME NEW g \in Gets, Stream(g) PROVE ArchiveWell'
  BY <1>9, StreamStep
<1> QED
  BY <1>5, <1>6, <1>7, <1>8, <1>9 DEF Next

LEMMA Archives == Spec => []ArchiveWell
<1>1. TypeOK /\ ArchiveWell /\ [Next]_vars => ArchiveWell'
  BY ArchiveStep
<1> QED
  BY <1>1, ArchiveInit, TypeCorrect, PTL DEF Spec

\* "Objects that cannot be fetched (or break off mid-stream) are listed in
\* _errors.txt ... instead of being silently skipped" (handleBatchDownload): every
\* key of a readable archive is whole in it or listed.
THEOREM ArchivesAreComplete == Spec => []CompleteArchive
<1>1. TypeOK /\ ArchiveWell => CompleteArchive
  <2> SUFFICES ASSUME TypeOK, ArchiveWell, NEW g \in Gets, pc[g] = "done"
               PROVE  LET es == {entries[g][i] : i \in 1..Len(entries[g])} IN
                      /\ \A i \in 1..Len(keys[g]) :
                           \/ i \in failures[g]
                           \/ \E e \in es : e.whole /\ (e.from = i \/ (e.name.dir /\ e.name = Sanitized(keys[g][i])))
                      /\ failures[g] # {} <=> \E e \in es : e.from = 0
    BY DEF CompleteArchive
  <2>1. Streamed(g)
    BY DEF ArchiveWell, ArchiveInv
  <2>2. pos[g] > Len(keys[g]) /\ \A i \in 1..Len(keys[g]) : i < pos[g] => i \in failures[g] \/ Held(g, i)
    BY <2>1 DEF Streamed
  <2>3. (\E j \in 1..Len(entries[g]) : entries[g][j].from = 0) <=> failures[g] # {}
    BY <2>1 DEF Streamed
  <2>4. Len(keys[g]) \in Nat /\ pos[g] \in Nat
    <3>1. keys[g] \in KeyLists \cup {<<>>} /\ pos[g] \in Nat
      BY DEF TypeOK
    <3> QED
      BY <3>1, NamesAssumption
  <2>5. \A i \in 1..Len(keys[g]) : i < pos[g]
    BY <2>2, <2>4
  <2>6. \A i \in 1..Len(keys[g]) : i \in failures[g] \/ Held(g, i)
    BY <2>2, <2>5
  <2> QED
    BY <2>3, <2>6 DEF Held
<1> QED
  BY <1>1, Archives, TypeCorrect, PTL

\* An archive can be extracted (sanitizeZipEntryName, zipNamer): its entries have
\* names of their own, and none leaves the directory.
THEOREM NamesAreSafe == Spec => []SafeNames
<1>1. ArchiveWell => SafeNames
  BY DEF ArchiveWell, Named, Harmless, SafeNames, UniqueNames, NoEscape
<1> QED
  BY <1>1, Archives, PTL
=============================================================================
