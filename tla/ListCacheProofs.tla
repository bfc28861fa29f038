-------------------------- MODULE ListCacheProofs ---------------------------
(***************************************************************************)
(* Proofs about ListCache and the two modules that build on it, for any    *)
(* number of requests, items and workers and any TTL and timeout: how old  *)
(* a list row can be, what a paged list leaves out (InfoPages), and what a *)
(* process that ends leaves unrecorded (Server).                           *)
(***************************************************************************)
EXTENDS InfoPages, Server, FiniteSetTheorems, SequenceTheorems, WellFoundedInduction, TLAPS

\* One step of item i of list l that leaves the caches alone.
ItemStep(l, i) == Lookup(l, i) \/ FetchSend(l, i) \/ FetchRead(l, i) \/ FetchFail(l, i)

\* Such a step replaces one item record by a typed one and nothing else.
LEMMA ItemStepEffect ==
  ASSUME TypeOK, NEW l \in Lists, NEW i \in Items, ItemStep(l, i)
  PROVE  /\ item' \in [Lists -> [Items -> ItemState]]
         /\ item'[l][i] \in ItemState
         /\ \A k \in Lists, j \in Items : k # l \/ j # i => item'[k][j] = item[k][j]
         /\ UNCHANGED <<now, changes, cache, pc, alive, gone, floor, mvars>>
<1>1. cache[i] \in Entry /\ item[l][i] \in ItemState /\ Version(i) \in Nat /\ now \in Nat
  BY DEF TypeOK, Version
<1>2. PICK x \in ItemState : item' = [item EXCEPT ![l][i] = x]
  <2>1. CASE Lookup(l, i)
    <3>1. [Blank EXCEPT !.st = "todo"] \in ItemState
      BY DEF Blank, ItemState
    <3>2. [st |-> "hit", val |-> cache[i].val, at |-> now, started |-> 0,
           crossed |-> cache[i].crossed] \in ItemState
      BY <1>1 DEF Entry, ItemState
    <3> QED
      BY <2>1, <3>1, <3>2 DEF Lookup
  <2>2. CASE FetchSend(l, i)
    <3>1. item' = [item EXCEPT ![l][i] = [item[l][i] EXCEPT !.st = "sent", !.started = now]]
      BY <2>2 DEF FetchSend, TypeOK
    <3> QED
      BY <1>1, <3>1 DEF ItemState
  <2>3. CASE FetchRead(l, i)
    <3>1. item' = [item EXCEPT ![l][i] = [item[l][i] EXCEPT !.st = "read", !.val = Version(i)]]
      BY <2>3 DEF FetchRead, TypeOK
    <3> QED
      BY <1>1, <3>1 DEF ItemState
  <2>4. CASE FetchFail(l, i)
    <3>1. item' = [item EXCEPT ![l][i] = [item[l][i] EXCEPT !.st = "failed"]]
      BY <2>4 DEF FetchFail, TypeOK
    <3> QED
      BY <1>1, <3>1 DEF ItemState
  <2> QED
    BY <2>1, <2>2, <2>3, <2>4 DEF ItemStep
<1>3. UNCHANGED <<now, changes, cache, pc, alive, gone, floor, mvars>>
  BY DEF ItemStep, Lookup, FetchSend, FetchRead, FetchFail
<1> QED
  BY <1>2, <1>3 DEF TypeOK

\* The answer of a fetch replaces its item record and its cache entry.
LEMMA StoreEffect ==
  ASSUME TypeOK, NEW l \in Lists, NEW i \in Items, FetchStore(l, i)
  PROVE  /\ item' \in [Lists -> [Items -> ItemState]]
         /\ item'[l][i] = [item[l][i] EXCEPT !.st = "got", !.at = now]
         /\ \A k \in Lists, j \in Items : k # l \/ j # i => item'[k][j] = item[k][j]
         /\ cache' \in [Items -> Entry]
         /\ cache'[i] = [full |-> TRUE, val |-> item[l][i].val,
                         expires |-> now + TTL, crossed |-> item[l][i].crossed]
         /\ \A j \in Items : j # i => cache'[j] = cache[j]
         /\ UNCHANGED <<now, changes, pc, alive, gone, floor, mvars>>
<1>1. item[l][i] \in ItemState /\ now \in Nat /\ TTL \in Nat
  BY CacheAssumption DEF TypeOK
<1>2. item' = [item EXCEPT ![l][i] = [item[l][i] EXCEPT !.st = "got", !.at = now]]
  BY DEF FetchStore, TypeOK
<1>3. [item[l][i] EXCEPT !.st = "got", !.at = now] \in ItemState
  BY <1>1 DEF ItemState
<1>4. [full |-> TRUE, val |-> item[l][i].val, expires |-> now + TTL,
       crossed |-> item[l][i].crossed] \in Entry
  BY <1>1 DEF ItemState, Entry
<1>5. /\ item' \in [Lists -> [Items -> ItemState]]
      /\ item'[l][i] = [item[l][i] EXCEPT !.st = "got", !.at = now]
      /\ \A k \in Lists, j \in Items : k # l \/ j # i => item'[k][j] = item[k][j]
  <2> DEFINE x == [item[l][i] EXCEPT !.st = "got", !.at = now]
  <2>1. x \in ItemState /\ item' = [item EXCEPT ![l][i] = x]
    BY <1>2, <1>3
  <2> HIDE DEF x
  <2>2. /\ item' \in [Lists -> [Items -> ItemState]] /\ item'[l][i] = x
        /\ \A k \in Lists, j \in Items : k # l \/ j # i => item'[k][j] = item[k][j]
    BY <2>1 DEF TypeOK
  <2> QED
    BY <2>2 DEF x
<1>6. /\ cache' = [cache EXCEPT ![i] = [full |-> TRUE, val |-> item[l][i].val,
                     expires |-> now + TTL, crossed |-> item[l][i].crossed]]
      /\ UNCHANGED <<now, changes, pc, alive, gone, floor, mvars>>
  BY DEF FetchStore
<1> QED
  BY <1>4, <1>5, <1>6 DEF TypeOK

\* A clear empties one side's cache and only marks the fetches it passes.
LEMMA ClearEffect ==
  ASSUME TypeOK, NEW side, Clear(side)
  PROVE  /\ item' \in [Lists -> [Items -> ItemState]]
         /\ \A l \in Lists, i \in Items :
              /\ item'[l][i].st = item[l][i].st /\ item'[l][i].val = item[l][i].val
              /\ item'[l][i].at = item[l][i].at /\ item'[l][i].started = item[l][i].started
         /\ cache' \in [Items -> Entry]
         /\ \A i \in Items : cache'[i] \in {NoEntry, cache[i]}
<1>1. NoEntry \in Entry
  BY DEF NoEntry, Entry
<1>2. ASSUME NEW l \in Lists, NEW i \in Items
      PROVE  item[l][i] \in ItemState /\ [item[l][i] EXCEPT !.crossed = TRUE] \in ItemState
  <2>1. item[l][i] \in ItemState
    BY DEF TypeOK
  <2> QED
    BY <2>1 DEF ItemState
<1>3. item' \in [Lists -> [Items -> ItemState]]
  BY <1>2 DEF Clear
<1>4. ASSUME NEW l \in Lists, NEW i \in Items
      PROVE  item'[l][i] \in {item[l][i], [item[l][i] EXCEPT !.crossed = TRUE]}
  BY DEF Clear
<1>5. \A l \in Lists, i \in Items :
        /\ item'[l][i].st = item[l][i].st /\ item'[l][i].val = item[l][i].val
        /\ item'[l][i].at = item[l][i].at /\ item'[l][i].started = item[l][i].started
  BY <1>2, <1>4 DEF ItemState
<1> QED
  BY <1>1, <1>3, <1>5 DEF Clear, TypeOK

\* A mutation that Garage performs adds the current time to the history of the
\* items it touches.
LEMMA AppliedEffect ==
  ASSUME TypeOK, NEW m \in Mutations, MutationApplied(m)
  PROVE  /\ changes' \in [Items -> Seq(Nat)]
         /\ made' \in [Mutations -> [Items -> Nat]]
         /\ \A i \in Items : \/ changes'[i] = changes[i]
                             \/ changes'[i] = Append(changes[i], now)
<1>1. \A i \in Items : changes[i] \in Seq(Nat) /\ Len(changes[i]) \in Nat /\ now \in Nat
  BY DEF TypeOK
<1> QED
  BY <1>1 DEF MutationApplied, TypeOK, Version

\* Type correctness is kept by every step.
LEMMA TypeStep ==
  ASSUME TypeOK, Next
  PROVE  TypeOK'
<1> USE CacheAssumption
<1>1. NoEntry \in Entry /\ Blank \in ItemState /\ [Blank EXCEPT !.st = "ask"] \in ItemState
  BY DEF NoEntry, Blank, Entry, ItemState
<1>2. ASSUME NEW l \in Lists, NEW ids \in {Buckets, Keys}, BeginList(l, ids) PROVE TypeOK'
  BY <1>1, <1>2 DEF BeginList, TypeOK, mvars
<1>3. ASSUME NEW l \in Lists, ListUnavailable(l) \/ Disconnect(l) \/ Finish(l) PROVE TypeOK'
  BY <1>3 DEF ListUnavailable, Disconnect, Finish, TypeOK, mvars
<1>4. ASSUME NEW l \in Lists, StartWorkers(l) PROVE TypeOK'
  <2>1. Cardinality(With(l, "todo")) \in Nat
    BY FS_Subset, FS_CardinalityType DEF With
  <2>2. alive' \in [Lists -> 0..EnrichWorkers]
    BY <1>4, <2>1 DEF StartWorkers, TypeOK
  <2> QED
    BY <1>4, <2>2 DEF StartWorkers, TypeOK, mvars
<1>5. ASSUME NEW l \in Lists, NEW i \in Items, ItemStep(l, i) PROVE TypeOK'
  BY <1>5, ItemStepEffect DEF TypeOK, mvars
<1>6. ASSUME NEW l \in Lists, NEW i \in Items, FetchStore(l, i) PROVE TypeOK'
  BY <1>6, StoreEffect DEF TypeOK, mvars
<1>7. ASSUME NEW m \in Mutations, NEW is \in SUBSET Items, MutationSend(m, is) PROVE TypeOK'
  BY <1>7 DEF MutationSend, TypeOK, lvars
<1>8. ASSUME NEW m \in Mutations, MutationApplied(m) PROVE TypeOK'
  BY <1>8, AppliedEffect DEF MutationApplied, TypeOK, lvars
<1>9. ASSUME NEW m \in Mutations, ClearBuckets(m) PROVE TypeOK'
  <2>1. Clear(Buckets)
    BY <1>9 DEF ClearBuckets
  <2> QED
    BY <1>9, <2>1, ClearEffect DEF ClearBuckets, TypeOK
<1>10. ASSUME NEW m \in Mutations, ClearKeys(m) PROVE TypeOK'
  <2>1. Clear(Keys)
    BY <1>10 DEF ClearKeys
  <2>2. settled' \in [Items -> Nat]
    BY <1>10 DEF ClearKeys, TypeOK
  <2> QED
    BY <1>10, <2>1, <2>2, ClearEffect DEF ClearKeys, TypeOK
<1>11. ASSUME NEW m \in Mutations, MutationFails(m) PROVE TypeOK'
  BY <1>11 DEF MutationFails, TypeOK, lvars
<1>12. CASE Tick
  BY <1>12 DEF Tick, TypeOK, lvars, mvars
<1> QED
  BY <1>2, <1>3, <1>4, <1>5, <1>6, <1>7, <1>8, <1>9, <1>10, <1>11, <1>12
     DEF Next, ListStep, MutationStep, ItemStep

\* Every reachable state is typed; the pool never exceeds enrichWorkers.
THEOREM TypeCorrect == Spec => []TypeOK
<1>1. Init => TypeOK
  <2>1. NoEntry \in Entry /\ Blank \in ItemState
    BY DEF NoEntry, Blank, Entry, ItemState
  <2> QED
    BY <2>1, CacheAssumption DEF Init, TypeOK
<1>2. TypeOK /\ [Next]_vars => TypeOK'
  <2>1. TypeOK /\ UNCHANGED vars => TypeOK'
    BY DEF vars, lvars, mvars, TypeOK
  <2> QED
    BY <2>1, TypeStep
<1> QED
  BY <1>1, <1>2, PTL DEF Spec

\* Garage's history only grows, so a row and an entry that were young enough
\* stay so when their item changes now.
LEMMA HistoryGrows ==
  ASSUME NEW c \in Seq(Nat), NEW t \in Nat
  PROVE  /\ \A x \in ItemState : ItemAge(x, c, t) => ItemAge(x, Append(c, t), t)
         /\ \A e \in Entry : EntryAge(e, c, t) => EntryAge(e, Append(c, t), t)
<1>1. /\ Len(Append(c, t)) = Len(c) + 1 /\ Len(c) \in Nat
      /\ Append(c, t)[Len(c) + 1] = t
      /\ \A n \in 1..Len(c) : Append(c, t)[n] = c[n] /\ c[n] \in Nat
  OBVIOUS
<1> DEFINE d == Append(c, t)
<1>2. /\ Len(d) = Len(c) + 1 /\ d[Len(c) + 1] = t
      /\ \A n \in 1..Len(c) : d[n] = c[n] /\ c[n] \in Nat
  BY <1>1
<1> HIDE DEF d
<1> USE CacheAssumption
<1>3. ASSUME NEW x \in ItemState, ItemAge(x, c, t) PROVE ItemAge(x, d, t)
  <2>1. x.val \in Nat /\ x.at \in Nat /\ x.started \in Nat
    BY DEF ItemState
  <2>2. CASE x.val = Len(c)
    BY <1>1, <1>2, <1>3, <2>1, <2>2 DEF ItemAge
  <2>3. CASE x.val < Len(c)
    <3>1. x.val + 1 \in 1..Len(c)
      BY <1>1, <2>1, <2>3
    <3>2. d[x.val + 1] = c[x.val + 1] /\ c[x.val + 1] \in Nat
      BY <1>2, <3>1
    <3> QED
      BY <1>1, <1>2, <1>3, <2>1, <2>3, <3>2 DEF ItemAge
  <2> QED
    BY <1>1, <1>3, <2>1, <2>2, <2>3 DEF ItemAge
<1>4. ASSUME NEW e \in Entry, EntryAge(e, c, t) PROVE EntryAge(e, d, t)
  <2>1. e.val \in Nat /\ e.expires \in Nat
    BY DEF Entry
  <2>2. CASE e.val = Len(c)
    BY <1>1, <1>2, <1>4, <2>1, <2>2 DEF EntryAge
  <2>3. CASE e.val < Len(c)
    <3>1. e.val + 1 \in 1..Len(c)
      BY <1>1, <2>1, <2>3
    <3>2. d[e.val + 1] = c[e.val + 1] /\ c[e.val + 1] \in Nat
      BY <1>2, <3>1
    <3> QED
      BY <1>1, <1>2, <1>4, <2>1, <2>3, <3>2 DEF EntryAge
  <2> QED
    BY <1>1, <1>4, <2>1, <2>2, <2>3 DEF EntryAge
<1> QED
  BY <1>3, <1>4 DEF d

\* An empty cache slot and an item not under way know nothing, so any history
\* agrees with them.
LEMMA BlankAge ==
  ASSUME NEW c \in Seq(Nat), NEW t \in Nat
  PROVE  /\ EntryAge(NoEntry, c, t)
         /\ ItemAge(Blank, c, t)
         /\ ItemAge([Blank EXCEPT !.st = "ask"], c, t)
         /\ ItemAge([Blank EXCEPT !.st = "todo"], c, t)
  BY CacheAssumption DEF EntryAge, ItemAge, NoEntry, Blank

\* The history holds times.
LEMMA SupersededTime ==
  ASSUME NEW c \in Seq(Nat), NEW v \in Nat, v < Len(c)
  PROVE  c[v + 1] \in Nat
<1>1. Len(c) \in Nat /\ v + 1 \in 1..Len(c)
  OBVIOUS
<1> QED
  BY <1>1

\* A row served from an unexpired entry is no older than the entry allows.
LEMMA HitAge ==
  ASSUME NEW e \in Entry, NEW c \in Seq(Nat), NEW t \in Nat,
         EntryAge(e, c, t), e.full, ~(t > e.expires)
  PROVE  ItemAge([st |-> "hit", val |-> e.val, at |-> t, started |-> 0,
                  crossed |-> e.crossed], c, t)
<1>1. e.val \in Nat /\ e.expires \in Nat /\ Len(c) \in Nat /\ TTL \in Nat /\ FetchTimeout \in Nat
  BY CacheAssumption DEF Entry
<1>2. ASSUME e.val < Len(c) PROVE t <= c[e.val + 1] + TTL + FetchTimeout
  <2> DEFINE u == c[e.val + 1]
  <2>1. u \in Nat
    BY <1>1, <1>2, SupersededTime
  <2>2. e.expires <= u + TTL + FetchTimeout
    BY <1>2 DEF EntryAge
  <2> HIDE DEF u
  <2>3. t <= u + TTL + FetchTimeout
    BY <1>1, <2>1, <2>2
  <2> QED
    BY <2>3 DEF u
<1>3. e.val <= Len(c)
  BY DEF EntryAge
<1> QED
  BY <1>1, <1>2, <1>3 DEF ItemAge

\* A fetch stored within its timeout yields a young row and a young entry.
LEMMA StoreAge ==
  ASSUME NEW x \in ItemState, NEW c \in Seq(Nat), NEW t \in Nat,
         ItemAge(x, c, t), x.st = "read"
  PROVE  /\ ItemAge([x EXCEPT !.st = "got", !.at = t], c, t)
         /\ EntryAge([full |-> TRUE, val |-> x.val, expires |-> t + TTL,
                      crossed |-> x.crossed], c, t)
<1>1. /\ x.val \in Nat /\ x.started \in Nat /\ Len(c) \in Nat /\ TTL \in Nat
      /\ FetchTimeout \in Nat
  BY CacheAssumption DEF ItemState
<1>2. x.val <= Len(c) /\ t <= x.started + FetchTimeout
  BY DEF ItemAge
<1>3. ASSUME x.val < Len(c)
      PROVE  c[x.val + 1] \in Nat /\ t <= c[x.val + 1] + FetchTimeout
  <2>1. c[x.val + 1] \in Nat
    BY <1>1, <1>3, SupersededTime
  <2>2. x.started <= c[x.val + 1]
    BY <1>3 DEF ItemAge
  <2> QED
    BY <1>1, <1>2, <2>1, <2>2
<1>4. ASSUME x.val < Len(c)
      PROVE  /\ t <= c[x.val + 1] + TTL + FetchTimeout
             /\ t + TTL <= c[x.val + 1] + TTL + FetchTimeout
  <2> DEFINE u == c[x.val + 1]
  <2>1. u \in Nat /\ t <= u + FetchTimeout
    BY <1>3, <1>4
  <2> HIDE DEF u
  <2>2. t <= u + TTL + FetchTimeout /\ t + TTL <= u + TTL + FetchTimeout
    BY <1>1, <2>1
  <2> QED
    BY <2>2 DEF u
<1> DEFINE y == [x EXCEPT !.st = "got", !.at = t]
<1>5. y.st = "got" /\ y.at = t /\ y.val = x.val
  BY DEF ItemState
<1> HIDE DEF y
<1>6. ItemAge(y, c, t)
  BY <1>1, <1>2, <1>4, <1>5 DEF ItemAge
<1>7. EntryAge([full |-> TRUE, val |-> x.val, expires |-> t + TTL, crossed |-> x.crossed], c, t)
  BY <1>1, <1>2, <1>4 DEF EntryAge
<1> QED
  BY <1>6, <1>7 DEF y

\* The age invariant is kept by every step.
LEMMA AgeStep ==
  ASSUME TypeOK, AgeInv, Next
  PROVE  AgeInv'
<1> USE CacheAssumption
<1>1. now \in Nat /\ \A i \in Items : changes[i] \in Seq(Nat) /\ Len(changes[i]) \in Nat
  BY DEF TypeOK
<1>2. \A l \in Lists, i \in Items : item[l][i] \in ItemState
  BY DEF TypeOK
<1>3. \A i \in Items : cache[i] \in Entry
  BY DEF TypeOK
<1>4. ASSUME NEW l \in Lists, NEW ids \in {Buckets, Keys}, BeginList(l, ids) PROVE AgeInv'
  <2>1. now' = now /\ changes' = changes
    BY <1>4 DEF BeginList
  <2>2. ASSUME NEW k \in Lists, NEW j \in Items
        PROVE  item'[k][j] \in {item[k][j], Blank, [Blank EXCEPT !.st = "ask"]}
    BY <1>4 DEF BeginList, TypeOK
  <2>3. \A j \in Items : cache'[j] \in {cache[j], NoEntry}
    BY <1>4 DEF BeginList
  <2>4. ASSUME NEW k \in Lists, NEW j \in Items
        PROVE  ItemAge(item'[k][j], changes[j], now)
    BY <1>1, <2>2, BlankAge DEF AgeInv
  <2>5. ASSUME NEW j \in Items PROVE EntryAge(cache'[j], changes[j], now)
    BY <1>1, <2>3, BlankAge DEF AgeInv
  <2> QED
    BY <2>1, <2>4, <2>5 DEF AgeInv
<1>5. ASSUME NEW l \in Lists,
             ListUnavailable(l) \/ Disconnect(l) \/ Finish(l) \/ StartWorkers(l)
      PROVE  AgeInv'
  BY <1>5 DEF ListUnavailable, Disconnect, Finish, StartWorkers, AgeInv
<1>6. ASSUME NEW l \in Lists, NEW i \in Items, ItemStep(l, i) PROVE AgeInv'
  <2>1. /\ \A k \in Lists, j \in Items : k # l \/ j # i => item'[k][j] = item[k][j]
        /\ now' = now /\ changes' = changes /\ cache' = cache
    BY <1>6, ItemStepEffect
  <2>2. ItemAge(item[l][i], changes[i], now) /\ EntryAge(cache[i], changes[i], now)
    BY DEF AgeInv
  <2>3. ItemAge(item'[l][i], changes[i], now)
    <3>1. CASE Lookup(l, i)
      <4> DEFINE h == [st |-> "hit", val |-> cache[i].val, at |-> now, started |-> 0,
                       crossed |-> cache[i].crossed]
      <4>1. \/ item'[l][i] = [Blank EXCEPT !.st = "todo"]
            \/ cache[i].full /\ ~Expired(cache[i]) /\ item'[l][i] = h
        BY <3>1 DEF Lookup, TypeOK
      <4>2. ASSUME cache[i].full, ~Expired(cache[i]) PROVE ItemAge(h, changes[i], now)
        BY <1>1, <1>3, <2>2, <4>2, HitAge DEF Expired
      <4> QED
        BY <1>1, <4>1, <4>2, BlankAge
    <3>2. CASE FetchSend(l, i)
      <4>1. item'[l][i] = [item[l][i] EXCEPT !.st = "sent", !.started = now]
        BY <3>2 DEF FetchSend, TypeOK
      <4> QED
        BY <1>1, <1>2, <2>2, <4>1 DEF ItemAge, ItemState
    <3>3. CASE FetchRead(l, i)
      <4>1. /\ item'[l][i] = [item[l][i] EXCEPT !.st = "read", !.val = Len(changes[i])]
            /\ item[l][i].st = "sent"
        BY <3>3 DEF FetchRead, TypeOK, Version
      <4> QED
        BY <1>1, <1>2, <2>2, <4>1 DEF ItemAge, ItemState
    <3>4. CASE FetchFail(l, i)
      <4>1. item'[l][i] = [item[l][i] EXCEPT !.st = "failed"]
        BY <3>4 DEF FetchFail, TypeOK
      <4> QED
        BY <1>1, <1>2, <2>2, <4>1 DEF ItemAge, ItemState
    <3> QED
      BY <1>6, <3>1, <3>2, <3>3, <3>4 DEF ItemStep
  <2>4. ASSUME NEW k \in Lists, NEW j \in Items
        PROVE  ItemAge(item'[k][j], changes'[j], now')
    <3>1. CASE k = l /\ j = i
      BY <2>1, <2>3, <3>1
    <3>2. CASE k # l \/ j # i
      BY <2>1, <3>2 DEF AgeInv
    <3> QED
      BY <3>1, <3>2
  <2> QED
    BY <2>1, <2>4 DEF AgeInv
<1>7. ASSUME NEW l \in Lists, NEW i \in Items, FetchStore(l, i) PROVE AgeInv'
  <2>1. /\ item'[l][i] = [item[l][i] EXCEPT !.st = "got", !.at = now]
        /\ \A k \in Lists, j \in Items : k # l \/ j # i => item'[k][j] = item[k][j]
        /\ cache'[i] = [full |-> TRUE, val |-> item[l][i].val,
                        expires |-> now + TTL, crossed |-> item[l][i].crossed]
        /\ \A j \in Items : j # i => cache'[j] = cache[j]
        /\ now' = now /\ changes' = changes
    BY <1>7, StoreEffect
  <2>2. ItemAge(item[l][i], changes[i], now) /\ item[l][i].st = "read"
    BY <1>7 DEF AgeInv, FetchStore
  <2>5. ItemAge(item'[l][i], changes[i], now) /\ EntryAge(cache'[i], changes[i], now)
    <3>1. item[l][i] \in ItemState /\ changes[i] \in Seq(Nat) /\ now \in Nat
      BY <1>1, <1>2
    <3>2. /\ ItemAge([item[l][i] EXCEPT !.st = "got", !.at = now], changes[i], now)
          /\ EntryAge([full |-> TRUE, val |-> item[l][i].val, expires |-> now + TTL,
                       crossed |-> item[l][i].crossed], changes[i], now)
      BY <2>2, <3>1, StoreAge
    <3> QED
      BY <2>1, <3>2, Zenon
  <2>7. ASSUME NEW k \in Lists, NEW j \in Items
        PROVE  ItemAge(item'[k][j], changes'[j], now')
    <3>1. CASE k = l /\ j = i
      BY <2>1, <2>5, <3>1
    <3>2. CASE k # l \/ j # i
      BY <2>1, <3>2 DEF AgeInv
    <3> QED
      BY <3>1, <3>2
  <2>8. ASSUME NEW j \in Items PROVE EntryAge(cache'[j], changes'[j], now')
    BY <2>1, <2>5 DEF AgeInv
  <2> QED
    BY <2>7, <2>8 DEF AgeInv
<1>8. ASSUME NEW m \in Mutations, NEW is \in SUBSET Items,
             MutationSend(m, is) \/ MutationFails(m)
      PROVE  AgeInv'
  BY <1>8 DEF MutationSend, MutationFails, AgeInv, lvars
<1>9. ASSUME NEW m \in Mutations, MutationApplied(m) PROVE AgeInv'
  <2>1. now' = now /\ item' = item /\ cache' = cache
    BY <1>9 DEF MutationApplied, lvars
  <2>2. \A i \in Items : changes'[i] = changes[i] \/ changes'[i] = Append(changes[i], now)
    BY <1>9, AppliedEffect
  <2>3. ASSUME NEW i \in Items
        PROVE  /\ \A l \in Lists : ItemAge(item[l][i], changes'[i], now)
               /\ EntryAge(cache[i], changes'[i], now)
    BY <1>1, <1>2, <1>3, <2>2, HistoryGrows DEF AgeInv
  <2> QED
    BY <2>1, <2>3 DEF AgeInv
<1>10. ASSUME NEW m \in Mutations, ClearBuckets(m) \/ ClearKeys(m) PROVE AgeInv'
  <2>1. PICK side : Clear(side)
    BY <1>10 DEF ClearBuckets, ClearKeys
  <2>2. now' = now /\ changes' = changes
    BY <1>10 DEF ClearBuckets, ClearKeys
  <2>3. /\ \A l \in Lists, i \in Items :
             /\ item'[l][i].st = item[l][i].st /\ item'[l][i].val = item[l][i].val
             /\ item'[l][i].at = item[l][i].at /\ item'[l][i].started = item[l][i].started
        /\ \A i \in Items : cache'[i] \in {NoEntry, cache[i]}
    BY <2>1, ClearEffect
  <2>4. ASSUME NEW l \in Lists, NEW i \in Items PROVE ItemAge(item'[l][i], changes[i], now)
    BY <2>3 DEF AgeInv, ItemAge
  <2>5. ASSUME NEW i \in Items PROVE EntryAge(cache'[i], changes[i], now)
    BY <1>1, <2>3, BlankAge DEF AgeInv
  <2> QED
    BY <2>2, <2>4, <2>5 DEF AgeInv
<1>11. CASE Tick
  <2>1. /\ now' = now + 1 /\ item' = item /\ cache' = cache /\ changes' = changes
        /\ \A l \in Lists, i \in Items :
             item[l][i].st \in {"sent", "read"} => now < item[l][i].started + FetchTimeout
    BY <1>11 DEF Tick, lvars, InFlight
  <2>2. ASSUME NEW l \in Lists, NEW i \in Items PROVE ItemAge(item[l][i], changes[i], now + 1)
    <3>1. item[l][i].at \in Nat /\ item[l][i].started \in Nat
      BY <1>2 DEF ItemState
    <3>2. ItemAge(item[l][i], changes[i], now)
      BY DEF AgeInv
    <3> QED
      BY <1>1, <2>1, <3>1, <3>2 DEF ItemAge
  <2>3. ASSUME NEW i \in Items PROVE EntryAge(cache[i], changes[i], now + 1)
    <3>1. cache[i].expires \in Nat
      BY <1>3 DEF Entry
    <3> QED
      BY <1>1, <3>1 DEF AgeInv, EntryAge
  <2> QED
    BY <2>1, <2>2, <2>3 DEF AgeInv
<1> QED
  BY <1>4, <1>5, <1>6, <1>7, <1>8, <1>9, <1>10, <1>11
     DEF Next, ListStep, MutationStep, ItemStep

\* No list row, whatever fetches, mutations, clears, losses and cancellations
\* precede it, is filled with info that Garage replaced more than TTL + FetchTimeout
\* before it was looked up or fetched; the wait for the other rows is not counted.
THEOREM Staleness == Spec => []StalenessBounded
<1>1. Init => AgeInv
  <2> SUFFICES ASSUME Init PROVE AgeInv
    OBVIOUS
  <2>1. <<>> \in Seq(Nat) /\ 0 \in Nat
    OBVIOUS
  <2> QED
    BY <2>1, BlankAge DEF Init, AgeInv
<1>2. TypeOK /\ AgeInv /\ [Next]_vars => AgeInv'
  <2>1. AgeInv /\ UNCHANGED vars => AgeInv'
    BY DEF vars, lvars, AgeInv
  <2> QED
    BY <2>1, AgeStep
<1>3. AgeInv => StalenessBounded
  BY DEF AgeInv, StalenessBounded, ItemAge, Version, Superseded
<1> QED
  BY <1>1, <1>2, <1>3, TypeCorrect, PTL DEF Spec

-----------------------------------------------------------------------------
(* What a list shows of the mutations answered before it *)

\* The parts of SettledInv about one item of one list and about one entry.
RowsCovered == \A l \in Lists, i \in Items :
                 floor[l][i] <= settled[i] /\ RowCovers(item[l][i], floor[l][i], Owed(i))
EntriesCovered == \A i \in Items : EntryCovers(cache[i], Owed(i))
VersionsBound ==
  /\ \A m \in Mutations : mpc[m] \in {"accepted", "clearing", "done"} => touch[m] = {}
  /\ \A i \in Items : /\ settled[i] <= Version(i)
                      /\ \A m \in Mutations : made[m][i] <= Version(i)

LEMMA SettledParts == SettledInv <=> VersionsBound /\ EntriesCovered /\ RowsCovered
BY DEF SettledInv, VersionsBound, EntriesCovered, RowsCovered

\* While only a list request moves, nothing new is owed and the versions stay.
LEMMA ListFrame ==
  ASSUME VersionsBound, UNCHANGED <<changes, mvars>>
  PROVE  /\ VersionsBound'
         /\ \A i \in Items : Owed(i)' = Owed(i) /\ settled'[i] = settled[i]
BY DEF VersionsBound, Version, Owed, mvars

\* What is owed of an item is never more than Garage's current version.
LEMMA OwedBound ==
  ASSUME VersionsBound, NEW i \in Items
  PROVE  \A d \in Owed(i) : d <= Version(i)
BY DEF VersionsBound, Owed

\* Every owed version is a number.
LEMMA OwedType ==
  ASSUME TypeOK, NEW i \in Items
  PROVE  \A d \in Owed(i) : d \in Nat
BY DEF TypeOK, Owed

\* A list that begins looks at an empty table and remembers what was answered.
LEMMA CoveredBegin ==
  ASSUME TypeOK, SettledInv, NEW l \in Lists, NEW ids \in {Buckets, Keys}, BeginList(l, ids)
  PROVE  SettledInv'
<1>1. /\ UNCHANGED <<changes, mvars>>
      /\ \A k \in Lists, j \in Items : floor'[k][j] = IF k = l THEN settled[j] ELSE floor[k][j]
  BY DEF BeginList, TypeOK
<1>2. \A k \in Lists, j \in Items :
        IF k = l THEN item'[k][j] \in {Blank, [Blank EXCEPT !.st = "ask"]}
                 ELSE item'[k][j] = item[k][j]
  BY DEF BeginList, TypeOK
<1>3. \A j \in Items : cache'[j] \in {cache[j], NoEntry}
  BY DEF BeginList
<1>4. VersionsBound' /\ \A j \in Items : Owed(j)' = Owed(j) /\ settled'[j] = settled[j]
  BY <1>1, ListFrame, SettledParts
<1>5. ASSUME NEW j \in Items PROVE EntryCovers(cache'[j], Owed(j))
  BY <1>3, SettledParts DEF EntriesCovered, EntryCovers, NoEntry
<1>6. ASSUME NEW k \in Lists, NEW j \in Items
      PROVE  floor'[k][j] <= settled[j] /\ RowCovers(item'[k][j], floor'[k][j], Owed(j))
  <2>1. CASE k = l
    <3>1. item'[k][j].st \in {"none", "ask"}
      BY <1>2, <2>1 DEF Blank
    <3>2. settled[j] \in Nat /\ floor'[k][j] = settled[j]
      BY <1>1, <2>1 DEF TypeOK
    <3> QED
      BY <3>1, <3>2 DEF RowCovers
  <2>2. CASE k # l
    BY <1>1, <1>2, <2>2, SettledParts DEF RowsCovered
  <2> QED
    BY <2>1, <2>2
<1>7. EntriesCovered' /\ RowsCovered'
  BY <1>4, <1>5, <1>6 DEF EntriesCovered, RowsCovered
<1> QED
  BY <1>4, <1>7 DEF SettledInv, VersionsBound, EntriesCovered, RowsCovered

\* A step of one item leaves a row that covers what it should: a fetch reads
\* Garage's current version, and a hit knows what its entry knew.
LEMMA CoveredItem ==
  ASSUME TypeOK, SettledInv, NEW l \in Lists, NEW i \in Items, ItemStep(l, i)
  PROVE  SettledInv'
<1>1. /\ \A k \in Lists, j \in Items : k # l \/ j # i => item'[k][j] = item[k][j]
      /\ UNCHANGED <<cache, floor>> /\ UNCHANGED <<changes, mvars>>
  BY ItemStepEffect
<1>2. /\ item[l][i] \in ItemState /\ cache[i] \in Entry
      /\ settled[i] \in Nat /\ floor[l][i] \in Nat /\ Version(i) \in Nat
  BY DEF TypeOK, Version
<1>3. /\ floor[l][i] <= settled[i] /\ settled[i] <= Version(i)
      /\ RowCovers(item[l][i], floor[l][i], Owed(i)) /\ EntryCovers(cache[i], Owed(i))
  BY DEF SettledInv
<1>4. RowCovers(item'[l][i], floor[l][i], Owed(i))
  <2>1. CASE Lookup(l, i)
    <3>1. \/ item'[l][i].st = "todo"
          \/ /\ cache[i].full /\ item'[l][i].st = "hit"
             /\ item'[l][i].val = cache[i].val /\ item'[l][i].crossed = cache[i].crossed
      BY <2>1 DEF Lookup, TypeOK, Blank
    <3>2. ASSUME cache[i].full, ~cache[i].crossed PROVE floor[l][i] <= cache[i].val
      <4>1. settled[i] <= cache[i].val /\ cache[i].val \in Nat
        BY <1>2, <1>3, <3>2 DEF EntryCovers, Owed, Entry
      <4> QED
        BY <1>2, <1>3, <4>1
    <3> QED
      BY <3>1, <3>2 DEF RowCovers
  <2>2. CASE FetchSend(l, i) \/ FetchFail(l, i)
    <3>1. item'[l][i].st \in {"sent", "failed"}
      <4>1. CASE FetchSend(l, i)
        <5>1. item'[l][i] = [item[l][i] EXCEPT !.st = "sent", !.started = now]
          BY <4>1 DEF FetchSend, TypeOK
        <5> QED
          BY <1>2, <5>1 DEF ItemState
      <4>2. CASE FetchFail(l, i)
        <5>1. item'[l][i] = [item[l][i] EXCEPT !.st = "failed"]
          BY <4>2 DEF FetchFail, TypeOK
        <5> QED
          BY <1>2, <5>1 DEF ItemState
      <4> QED
        BY <2>2, <4>1, <4>2
    <3> QED
      BY <3>1 DEF RowCovers
  <2>3. CASE FetchRead(l, i)
    <3>1. item'[l][i] = [item[l][i] EXCEPT !.st = "read", !.val = Version(i)]
      BY <2>3 DEF FetchRead, TypeOK
    <3>2. item'[l][i].st = "read" /\ item'[l][i].val = Version(i)
      BY <1>2, <3>1 DEF ItemState
    <3>3. floor[l][i] <= Version(i)
      BY <1>2, <1>3
    <3>4. \A d \in Owed(i) : d <= Version(i)
      BY OwedBound, SettledParts
    <3> QED
      BY <3>2, <3>3, <3>4 DEF RowCovers
  <2> QED
    BY <2>1, <2>2, <2>3 DEF ItemStep
<1>5. VersionsBound' /\ \A j \in Items : Owed(j)' = Owed(j) /\ settled'[j] = settled[j]
  BY <1>1, ListFrame, SettledParts
<1>6. \A k \in Lists, j \in Items :
        floor[k][j] <= settled[j] /\ RowCovers(item'[k][j], floor[k][j], Owed(j))
  BY <1>1, <1>4, SettledParts DEF RowsCovered
<1>7. EntriesCovered' /\ RowsCovered'
  BY <1>1, <1>5, <1>6, SettledParts DEF EntriesCovered, RowsCovered
<1> QED
  BY <1>5, <1>7 DEF SettledInv, VersionsBound, EntriesCovered, RowsCovered

\* The stored answer of a fetch covers what the fetch covered.
LEMMA CoveredStore ==
  ASSUME TypeOK, SettledInv, NEW l \in Lists, NEW i \in Items, FetchStore(l, i)
  PROVE  SettledInv'
<1>1. /\ item'[l][i] = [item[l][i] EXCEPT !.st = "got", !.at = now]
      /\ \A k \in Lists, j \in Items : k # l \/ j # i => item'[k][j] = item[k][j]
      /\ cache'[i] = [full |-> TRUE, val |-> item[l][i].val,
                      expires |-> now + TTL, crossed |-> item[l][i].crossed]
      /\ \A j \in Items : j # i => cache'[j] = cache[j]
      /\ floor' = floor /\ UNCHANGED <<changes, mvars>>
  BY StoreEffect
<1>2. item[l][i] \in ItemState /\ item[l][i].st = "read"
  BY DEF TypeOK, FetchStore
<1>3. RowCovers(item[l][i], floor[l][i], Owed(i))
  BY DEF SettledInv
<1>4. item'[l][i].st = "got" /\ item'[l][i].val = item[l][i].val
  BY <1>1, <1>2 DEF ItemState
<1>5. RowCovers(item'[l][i], floor[l][i], Owed(i))
  BY <1>2, <1>3, <1>4 DEF RowCovers
<1>6. EntryCovers(cache'[i], Owed(i))
  BY <1>1, <1>2, <1>3 DEF RowCovers, EntryCovers
<1>7. VersionsBound' /\ \A j \in Items : Owed(j)' = Owed(j) /\ settled'[j] = settled[j]
  BY <1>1, ListFrame, SettledParts
<1>8. /\ \A k \in Lists, j \in Items :
           floor[k][j] <= settled[j] /\ RowCovers(item'[k][j], floor[k][j], Owed(j))
      /\ \A j \in Items : EntryCovers(cache'[j], Owed(j))
  BY <1>1, <1>5, <1>6, SettledParts DEF RowsCovered, EntriesCovered
<1>9. EntriesCovered' /\ RowsCovered'
  BY <1>1, <1>7, <1>8 DEF EntriesCovered, RowsCovered
<1> QED
  BY <1>7, <1>9 DEF SettledInv, VersionsBound, EntriesCovered, RowsCovered

\* A mutation that is sent, performed or given up on owes nothing yet.
LEMMA CoveredMutation ==
  ASSUME TypeOK, SettledInv, NEW m \in Mutations,
         \/ \E is \in SUBSET Items : MutationSend(m, is)
         \/ MutationApplied(m)
         \/ MutationFails(m)
  PROVE  SettledInv'
<1>1. UNCHANGED <<cache, item, floor, settled>>
  BY DEF MutationSend, MutationApplied, MutationFails, lvars
<1>2. mpc[m] # "clearing" /\ mpc'[m] # "clearing"
  BY DEF MutationSend, MutationApplied, MutationFails, SettledInv, TypeOK
<1>3. \A n \in Mutations : n # m => mpc'[n] = mpc[n] /\ made'[n] = made[n]
  BY DEF MutationSend, MutationApplied, MutationFails, TypeOK
<1>4. ASSUME NEW i \in Items PROVE Owed(i)' = Owed(i)
  <2>1. {n \in Mutations : mpc'[n] = "clearing"} = {n \in Mutations : mpc[n] = "clearing"}
    BY <1>2, <1>3
  <2>2. \A n \in Mutations : mpc[n] = "clearing" => made'[n] = made[n]
    BY <1>2, <1>3
  <2> QED
    BY <1>1, <2>1, <2>2 DEF Owed
<1>5. EntriesCovered' /\ RowsCovered'
  BY <1>1, <1>4, SettledParts DEF EntriesCovered, RowsCovered
<1>6. \A i \in Items : /\ settled[i] \in Nat /\ Version(i) \in Nat /\ changes[i] \in Seq(Nat)
                       /\ \A n \in Mutations : made[n][i] \in Nat
  BY DEF TypeOK, Version
<1>7. VersionsBound'
  <2>1. CASE MutationApplied(m)
    <3>1. ASSUME NEW i \in Items
          PROVE  /\ settled'[i] <= Version(i)'
                 /\ \A n \in Mutations : made'[n][i] <= Version(i)'
      <4>1. /\ made'[m][i] = (IF i \in touch[m] THEN Version(i) + 1 ELSE 0)
            /\ changes'[i] = (IF i \in touch[m] THEN Append(changes[i], now) ELSE changes[i])
        BY <2>1 DEF MutationApplied, TypeOK
      <4>2. Version(i)' = IF i \in touch[m] THEN Version(i) + 1 ELSE Version(i)
        BY <1>6, <4>1 DEF Version
      <4>3. settled[i] <= Version(i) /\ \A n \in Mutations : made[n][i] <= Version(i)
        BY DEF SettledInv
      <4> QED
        BY <1>1, <1>3, <1>6, <4>1, <4>2, <4>3
    <3>2. \A n \in Mutations : mpc'[n] \in {"accepted", "clearing", "done"} => touch'[n] = {}
      BY <2>1 DEF MutationApplied, SettledInv, TypeOK
    <3> QED
      BY <3>1, <3>2 DEF VersionsBound
  <2>2. CASE (\E is \in SUBSET Items : MutationSend(m, is)) \/ MutationFails(m)
    BY <2>2 DEF MutationSend, MutationFails, SettledInv, VersionsBound, Version, TypeOK
  <2> QED
    BY <2>1, <2>2
<1> QED
  BY <1>5, <1>7 DEF SettledInv, VersionsBound, EntriesCovered, RowsCovered

\* What a clear of one side does to a row and to an entry of that side.
LEMMA ClearCovers ==
  ASSUME TypeOK, SettledInv, NEW side, Clear(side), NEW i \in Items, NEW D,
         i \notin side => D \subseteq Owed(i)
  PROVE  /\ EntryCovers(cache'[i], D)
         /\ \A l \in Lists : RowCovers(item'[l][i], floor[l][i], D)
<1>1. /\ EntryCovers(cache[i], Owed(i))
      /\ \A l \in Lists : RowCovers(item[l][i], floor[l][i], Owed(i))
  BY DEF SettledInv
<1>2. \A l \in Lists : item[l][i] \in ItemState
  BY DEF TypeOK
<1>3. EntryCovers(cache'[i], D)
  <2>1. cache'[i] = IF i \in side THEN NoEntry ELSE cache[i]
    BY DEF Clear
  <2> QED
    BY <1>1, <2>1 DEF EntryCovers, NoEntry
<1>4. ASSUME NEW l \in Lists PROVE RowCovers(item'[l][i], floor[l][i], D)
  <2>1. item'[l][i] = IF i \in side /\ item[l][i].st = "read"
                      THEN [item[l][i] EXCEPT !.crossed = TRUE] ELSE item[l][i]
    BY DEF Clear
  <2>2. CASE i \in side /\ item[l][i].st = "read"
    <3>1. item'[l][i].st = "read" /\ item'[l][i].crossed /\ item'[l][i].val = item[l][i].val
      BY <1>2, <2>1, <2>2 DEF ItemState
    <3> QED
      BY <1>1, <2>2, <3>1 DEF RowCovers
  <2>3. CASE ~(i \in side /\ item[l][i].st = "read")
    BY <1>1, <2>1, <2>3 DEF RowCovers
  <2> QED
    BY <2>2, <2>3
<1> QED
  BY <1>3, <1>4

\* A clear leaves nothing unmarked that is older than the mutation it is for,
\* on the side it empties; ClearKeys owes nothing new of a bucket.
LEMMA CoveredClear ==
  ASSUME TypeOK, SettledInv, NEW m \in Mutations, ClearBuckets(m) \/ ClearKeys(m)
  PROVE  SettledInv'
<1>1. UNCHANGED <<changes, floor, touch, made>>
  BY DEF ClearBuckets, ClearKeys
<1>2. \A i \in Items : /\ settled[i] \in Nat /\ made[m][i] \in Nat /\ Version(i) \in Nat
                       /\ \A l \in Lists : floor[l][i] \in Nat
  BY DEF TypeOK, Version
<1>3. PICK side : /\ Clear(side)
                  /\ \A i \in Items \ side : Owed(i)' \subseteq Owed(i)
  <2>1. CASE ClearBuckets(m)
    <3>1. Clear(Buckets) /\ settled' = settled /\ made' = made
      BY <2>1 DEF ClearBuckets
    <3>2. \A i \in Items \ Buckets : Owed(i)' \subseteq Owed(i)
      BY <3>1 DEF Owed
    <3> QED
      BY <3>1, <3>2
  <2>2. CASE ClearKeys(m)
    <3>1. /\ Clear(Keys) /\ mpc[m] = "clearing"
          /\ \A n \in Mutations : mpc'[n] = "clearing" => mpc[n] = "clearing"
          /\ \A i \in Items : settled'[i] \in {settled[i], made[m][i]}
      BY <2>2 DEF ClearKeys, TypeOK
    <3>2. ASSUME NEW i \in Items \ Keys PROVE Owed(i)' \subseteq Owed(i)
      <4>1. i \in Buckets /\ i \in Items
        BY DEF Items
      <4>2. settled'[i] \in Owed(i)
        BY <3>1, <4>1 DEF Owed
      <4>3. ASSUME NEW n \in Mutations, mpc'[n] = "clearing" PROVE made'[n][i] \in Owed(i)
        BY <1>1, <3>1, <4>1, <4>3 DEF Owed
      <4> QED
        BY <4>2, <4>3 DEF Owed
    <3> QED
      BY <3>1, <3>2
  <2> QED
    BY <2>1, <2>2
<1>4. \A i \in Items : /\ EntryCovers(cache'[i], Owed(i)')
                       /\ \A l \in Lists : RowCovers(item'[l][i], floor[l][i], Owed(i)')
  <2> TAKE i \in Items
  <2> DEFINE D == Owed(i)'
  <2>1. i \notin side => D \subseteq Owed(i)
    BY <1>3
  <2> HIDE DEF D
  <2>2. EntryCovers(cache'[i], D) /\ \A l \in Lists : RowCovers(item'[l][i], floor[l][i], D)
    BY <1>3, <2>1, ClearCovers
  <2> QED
    BY <2>2 DEF D
<1>5. \A i \in Items : /\ settled'[i] \in {settled[i], made[m][i]}
                       /\ settled'[i] \in Nat /\ settled[i] <= settled'[i]
  BY <1>2 DEF ClearBuckets, ClearKeys
<1>6. VersionsBound'
  <2>1. \A n \in Mutations : mpc'[n] \in {"accepted", "clearing", "done"}
                               => mpc[n] \in {"accepted", "clearing", "done"}
    BY DEF ClearBuckets, ClearKeys, TypeOK
  <2> QED
    BY <1>1, <1>2, <1>5, <2>1 DEF SettledInv, VersionsBound, Version
<1>7. \A l \in Lists, i \in Items : floor[l][i] <= settled'[i]
  <2> TAKE l \in Lists, i \in Items
  <2>1. floor[l][i] <= settled[i]
    BY DEF SettledInv
  <2> QED
    BY <1>2, <1>5, <2>1
<1>8. RowsCovered'
  BY <1>1, <1>4, <1>7 DEF RowsCovered
<1>9. EntriesCovered'
  BY <1>4 DEF EntriesCovered
<1> QED
  BY <1>6, <1>8, <1>9 DEF SettledInv, VersionsBound, EntriesCovered, RowsCovered

\* SettledInv is kept by every step.
LEMMA SettledStep ==
  ASSUME TypeOK, SettledInv, Next
  PROVE  SettledInv'
<1>1. ASSUME NEW l \in Lists,
             ListUnavailable(l) \/ Disconnect(l) \/ Finish(l) \/ StartWorkers(l)
      PROVE  SettledInv'
  <2>1. UNCHANGED <<cache, item, floor>> /\ UNCHANGED <<changes, mvars>>
    BY <1>1 DEF ListUnavailable, Disconnect, Finish, StartWorkers
  <2> QED
    BY <2>1 DEF SettledInv, Version, Owed, mvars
<1>2. CASE Tick
  <2>1. UNCHANGED <<cache, item, floor>> /\ UNCHANGED <<changes, mvars>>
    BY <1>2 DEF Tick, lvars
  <2> QED
    BY <2>1 DEF SettledInv, Version, Owed, mvars
<1> QED
  BY <1>1, <1>2, CoveredBegin, CoveredItem, CoveredStore, CoveredMutation, CoveredClear
     DEF Next, ListStep, MutationStep, ItemStep

\* A list that begins after a mutation was answered shows it, unless the row is
\* a hit on an entry whose fetch a clear overtook.
THEOREM OnlyCrossedIsStale == Spec => []StaleOnlyIfCrossed
<1>1. Init => SettledInv
  <2> SUFFICES ASSUME Init PROVE SettledInv
    OBVIOUS
  <2>1. \A i \in Items : changes[i] = <<>> /\ Len(<<>>) = 0 /\ cache[i] = NoEntry
    BY DEF Init
  <2> QED
    BY <2>1 DEF Init, SettledInv, Version, RowCovers, EntryCovers, NoEntry, Blank
<1>2. TypeOK /\ SettledInv /\ [Next]_vars => SettledInv'
  <2>1. SettledInv /\ UNCHANGED vars => SettledInv'
    BY DEF vars, lvars, mvars, SettledInv, Version, Owed
  <2> QED
    BY <2>1, SettledStep
<1>3. TypeOK /\ SettledInv => StaleOnlyIfCrossed
  <2> SUFFICES ASSUME TypeOK, SettledInv, NEW l \in Lists, NEW i \in Items,
                      item[l][i].st \in {"hit", "got"}, item[l][i].val < floor[l][i]
               PROVE  item[l][i].st = "hit" /\ item[l][i].crossed
    BY DEF StaleOnlyIfCrossed
  <2>1. item[l][i].val \in Nat /\ floor[l][i] \in Nat
    BY DEF TypeOK, ItemState
  <2>2. ~(floor[l][i] <= item[l][i].val)
    BY <2>1
  <2> QED
    BY <2>2 DEF SettledInv, RowCovers
<1> QED
  BY <1>1, <1>2, <1>3, TypeCorrect, PTL DEF Spec

-----------------------------------------------------------------------------
(* The pages of a list *)

\* Every set of natural numbers has a least element: an interval from 0 is
\* smaller than another when its end is.
LEMMA LeastNat ==
  ASSUME NEW S \in SUBSET Nat, S # {}
  PROVE  \E n \in S : \A m \in S : n <= m
<1> DEFINE F == {0..n : n \in S}
<1>1. F \subseteq FiniteSubsetsOf(Nat)
  <2>1. ASSUME NEW n \in S PROVE 0..n \in FiniteSubsetsOf(Nat)
    BY FS_Interval DEF FiniteSubsetsOf
  <2> QED
    BY <2>1
<1>2. IsWellFoundedOn(StrictSubsetOrdering(Nat), FiniteSubsetsOf(Nat))
  BY FS_StrictSubsetOrderingWellFounded
<1>3. F # {}
  OBVIOUS
<1>4. PICK x \in F : \A y \in F : ~(<<y, x>> \in StrictSubsetOrdering(Nat))
  <2> HIDE DEF F
  <2> QED BY <1>1, <1>2, <1>3, WFMin
<1>5. PICK n \in S : x = 0..n
  OBVIOUS
<1>6. ASSUME NEW m \in S, ~(n <= m) PROVE FALSE
  <2>1. 0..m \in F /\ 0..m \subseteq 0..n /\ 0..m # 0..n /\ 0..m \subseteq Nat /\ 0..n \subseteq Nat
    BY <1>6
  <2> QED
    BY <2>1, <1>4, <1>5 DEF StrictSubsetOrdering
<1> QED
  BY <1>6

\* s has the first elements of T, in order: all of them, or N.
FirstOf(s, T, N) ==
  /\ Increasing(s)
  /\ \A i \in T \ Range(s) : Len(s) = N /\ \A k \in DOMAIN s : s[k] < i

LEMMA FunctionIsSeq ==
  ASSUME NEW T, NEW k \in Nat, NEW s \in [1..k -> T]
  PROVE  s \in Seq(T) /\ Len(s) = k /\ DOMAIN s = 1..k
BY SeqDef

\* Garage can answer: the first elements of a set, one more than before.
LEMMA FirstExist ==
  ASSUME NEW T \in SUBSET Nat, NEW N \in Nat
  PROVE  \E s \in UNION {[1..k -> T] : k \in 0..N} : FirstOf(s, T, N)
<1> DEFINE Good(n) == \E s \in UNION {[1..k -> T] : k \in 0..n} : FirstOf(s, T, n)
           Bad == {n \in Nat : ~Good(n)}
<1> SUFFICES ASSUME Bad # {} PROVE FALSE
  OBVIOUS
<1>1. PICK n \in Bad : \A m \in Bad : n <= m
  <2> Bad \in SUBSET Nat
    OBVIOUS
  <2> HIDE DEF Bad
  <2> QED
    BY LeastNat
<1>2. n \in Nat /\ ~Good(n)
  OBVIOUS
<1>3. CASE n = 0
  <2> DEFINE s == [j \in 1..0 |-> 0]
  <2>1. s \in [1..0 -> T] /\ DOMAIN s = {}
    OBVIOUS
  <2>2. Len(s) = 0
    BY <2>1, FunctionIsSeq
  <2> HIDE DEF s
  <2>3. FirstOf(s, T, 0)
    BY <2>1, <2>2 DEF FirstOf, Increasing
  <2>4. 0 \in 0..0 /\ s \in UNION {[1..k -> T] : k \in 0..0}
    BY <2>1
  <2>5. Good(0)
    BY <2>3, <2>4
  <2> QED
    BY <1>2, <1>3, <2>5
<1>4. CASE n # 0
  <2>1. n - 1 \in Nat /\ n - 1 \notin Bad
    BY <1>1, <1>2, <1>4
  <2>2. PICK k \in 0..(n - 1) : \E s \in [1..k -> T] : FirstOf(s, T, n - 1)
    BY <2>1
  <2>3. PICK s \in [1..k -> T] : FirstOf(s, T, n - 1)
    BY <2>2
  <2>4. k \in Nat /\ k \in 0..n /\ k + 1 \in Nat
    BY <2>1, <2>2
  <2>5. Len(s) = k /\ DOMAIN s = 1..k
    BY <2>3, <2>4, FunctionIsSeq
  <2> DEFINE Rest == T \ Range(s)
  <2>6. CASE Rest = {}
    <3>1. FirstOf(s, T, n)
      BY <2>3, <2>6 DEF FirstOf
    <3> QED
      BY <1>2, <2>3, <2>4, <3>1
  <2>7. CASE Rest # {}
    <3>1. k = n - 1 /\ \A i \in Rest, j \in 1..k : s[j] < i
      BY <2>3, <2>5, <2>7 DEF FirstOf
    <3>2. PICK m \in Rest : \A i \in Rest : m <= i
      <4> Rest \in SUBSET Nat
        OBVIOUS
      <4> HIDE DEF Rest
      <4> QED
        BY <2>7, LeastNat
    <3> DEFINE h == [j \in 1..n |-> IF j = n THEN m ELSE s[j]]
    <3>3. n = k + 1 /\ \A j \in 1..n : j = n \/ j \in 1..k
      BY <1>2, <2>4, <3>1
    <3>4. h \in [1..n -> T]
      BY <2>3, <3>2, <3>3
    <3>5. Len(h) = n /\ DOMAIN h = 1..n
      BY <1>2, <3>4, FunctionIsSeq
    <3>6. h[n] = m /\ (\A j \in 1..k : h[j] = s[j] /\ j \in 1..n) /\ n \in 1..n
      BY <1>2, <1>4, <2>4, <3>1
    <3> HIDE DEF h
    <3>7. Increasing(h)
      <4> SUFFICES ASSUME NEW j1 \in 1..n, NEW j2 \in 1..n, j1 < j2 PROVE h[j1] < h[j2]
        BY <3>5 DEF Increasing
      <4>1. j1 \in 1..k
        BY <3>3, <2>4
      <4>2. CASE j2 = n
        BY <3>1, <3>2, <3>6, <4>1, <4>2
      <4>3. CASE j2 \in 1..k
        <5>1. s[j1] < s[j2]
          BY <2>3, <2>5, <4>1, <4>3 DEF FirstOf, Increasing
        <5> QED
          BY <3>6, <4>1, <4>3, <5>1
      <4> QED
        BY <3>3, <4>2, <4>3
    <3>8. ASSUME NEW i \in T \ Range(h) PROVE \A j \in 1..n : h[j] < i
      <4>1. i \in Rest
        BY <2>5, <3>5, <3>6 DEF Range
      <4>2. i # m
        BY <3>5, <3>6 DEF Range
      <4>3. m < i
        BY <3>2, <4>1, <4>2
      <4>4. \A j \in 1..k : s[j] < i
        BY <3>1, <4>1
      <4> QED
        BY <3>3, <3>6, <4>3, <4>4
    <3>9. FirstOf(h, T, n)
      BY <3>5, <3>7, <3>8 DEF FirstOf
    <3> QED
      BY <1>2, <3>4, <3>9
  <2> QED
    BY <2>6, <2>7
<1> QED
  BY <1>3, <1>4

\* What a page of Garage has.
LEMMA PageFacts ==
  ASSUME world \subseteq Ids, NEW offset \in Nat
  PROVE  LET later == {i \in world : i >= offset} IN
         /\ Page(offset) \in Seq(later) /\ Len(Page(offset)) \in 0..PageLimit
         /\ FirstOf(Page(offset), later, PageLimit)
<1> DEFINE later == {i \in world : i >= offset}
           Pages == UNION {[1..k -> later] : k \in 0..PageLimit}
<1>1. later \in SUBSET Nat /\ PageLimit \in Nat
  BY PagesAssumption
<1>2. \E s \in Pages : FirstOf(s, later, PageLimit)
  <2> HIDE DEF later
  <2> QED
    BY <1>1, FirstExist
<1>3. Page(offset) = CHOOSE s \in Pages : FirstOf(s, later, PageLimit)
  BY DEF Page, FirstOf
<1>4. Page(offset) \in Pages /\ FirstOf(Page(offset), later, PageLimit)
  <2> HIDE DEF Pages
  <2> QED
    BY <1>2, <1>3
<1>5. PICK k \in 0..PageLimit : Page(offset) \in [1..k -> later]
  BY <1>4
<1>6. Page(offset) \in Seq(later) /\ Len(Page(offset)) = k
  <2> HIDE DEF later
  <2> QED
    BY <1>1, <1>5, FunctionIsSeq
<1> QED
  BY <1>4, <1>5, <1>6

\* The page without its overlap: what comes after the offset.
LEMMA ItemsFacts ==
  ASSUME world \subseteq Ids, NEW offset \in Ids \union {NoOffset},
         NEW page, page = Page(offset), NEW items, items = WithoutOverlap(page, offset)
  PROVE  /\ Len(page) \in 0..PageLimit
         /\ items \in Seq(world) /\ Increasing(items)
         /\ \A k \in 1..Len(items) : offset < items[k]
         /\ Len(items) = Len(page) \/ (offset # NoOffset /\ Len(items) = Len(page) - 1)
         /\ items # <<>> => Last(items) = Last(page)
         /\ \A i \in world : i > offset =>
              \/ i \in Range(items)
              \/ Len(page) = PageLimit /\ i > Last(page)
<1> DEFINE later == {i \in world : i >= offset}
<1>0. /\ offset \in Nat /\ Ids \subseteq Nat \ {0} /\ NoOffset = 0
      /\ PageLimit \in Nat /\ PageLimit > 1
  BY PagesAssumption DEF NoOffset
<1>1. /\ page \in Seq(later) /\ Len(page) \in 0..PageLimit
      /\ FirstOf(page, later, PageLimit)
  BY <1>0, PageFacts
<1>2. /\ \A k \in 1..Len(page) : page[k] \in world /\ page[k] >= offset /\ page[k] \in Nat
      /\ DOMAIN page = 1..Len(page) /\ Len(page) \in Nat
  <2>1. (\A k \in 1..Len(page) : page[k] \in later) /\ DOMAIN page = 1..Len(page) /\ Len(page) \in Nat
    <3> HIDE DEF later
    <3> QED
      BY <1>1
  <2>2. \A i \in later : i \in world /\ i >= offset /\ i \in Nat
    BY <1>0
  <2> QED
    BY <2>1, <2>2
<1>3. \A j, k \in 1..Len(page) : j < k => page[j] < page[k]
  BY <1>1, <1>2 DEF FirstOf, Increasing
<1>4. \A i \in world : i > offset =>
        \/ \E k \in 1..Len(page) : i = page[k]
        \/ Len(page) = PageLimit /\ i > Last(page)
  <2> SUFFICES ASSUME NEW i \in world, i > offset, i \notin Range(page)
               PROVE  Len(page) = PageLimit /\ i > Last(page)
    BY <1>2 DEF Range
  <2>1. i \in later \ Range(page)
    BY <1>0
  <2>2. Len(page) = PageLimit /\ \A k \in DOMAIN page : page[k] < i
    BY <1>1, <2>1 DEF FirstOf
  <2>3. Len(page) \in DOMAIN page
    BY <1>0, <1>2, <2>2
  <2>4. i \in Nat /\ Last(page) \in Nat
    BY <1>0, <1>2, <2>3 DEF Last
  <2> QED
    BY <2>2, <2>3, <2>4 DEF Last
<1> HIDE DEF later
<1>5. CASE ~(offset # NoOffset /\ page # <<>> /\ page[1] = offset)
  <2>1. items = page
    BY <1>5 DEF WithoutOverlap
  <2>2. page \in Seq(world)
    BY <1>1 DEF later
  <2>3. \A k \in 1..Len(page) : offset < page[k]
    <3> SUFFICES ASSUME NEW k \in 1..Len(page) PROVE offset < page[k]
      OBVIOUS
    <3>1. 1 \in 1..Len(page) /\ page # <<>>
      BY <1>1, <1>2
    <3>2. CASE offset = NoOffset
      BY <1>0, <1>2, <3>2
    <3>3. CASE offset # NoOffset
      <4>1. page[1] # offset /\ page[1] >= offset /\ page[1] \in Nat
        BY <1>2, <1>5, <3>1, <3>3
      <4>2. k = 1 \/ page[1] < page[k]
        BY <1>2, <1>3, <3>1
      <4>3. page[k] \in Nat
        BY <1>2
      <4> QED
        BY <1>0, <4>1, <4>2, <4>3
    <3> QED
      BY <3>2, <3>3
  <2>4. Increasing(page)
    BY <1>1 DEF FirstOf
  <2>5. \A i \in world : i > offset => i \in Range(page) \/ (Len(page) = PageLimit /\ i > Last(page))
    BY <1>2, <1>4 DEF Range
  <2> QED
    BY <1>1, <2>1, <2>2, <2>3, <2>4, <2>5
<1>6. CASE offset # NoOffset /\ page # <<>> /\ page[1] = offset
  <2>1. items = Tail(page)
    BY <1>6 DEF WithoutOverlap
  <2>2. Len(page) >= 1 /\ page \in Seq(world)
    BY <1>1, <1>2, <1>6 DEF later
  <2>3. /\ items \in Seq(world) /\ Len(items) = Len(page) - 1
        /\ \A k \in 1..Len(items) : items[k] = page[k + 1]
    BY <2>1, <2>2, HeadTailProperties
  <2>4. \A k \in 1..Len(items) : k + 1 \in 1..Len(page) /\ k \in Nat
    BY <1>2, <2>3
  <2>5. DOMAIN items = 1..Len(items)
    BY <2>3
  <2>6. Increasing(items)
    <3> SUFFICES ASSUME NEW j \in 1..Len(items), NEW k \in 1..Len(items), j < k PROVE items[j] < items[k]
      BY <2>5 DEF Increasing
    <3>1. j + 1 < k + 1 /\ j + 1 \in 1..Len(page) /\ k + 1 \in 1..Len(page)
      BY <2>4
    <3>2. page[j + 1] < page[k + 1]
      BY <1>3, <3>1
    <3> QED
      BY <2>3, <3>2
  <2>7. ASSUME NEW k \in 1..Len(items) PROVE offset < items[k]
    <3>1. 1 \in 1..Len(page) /\ 1 < k + 1 /\ k + 1 \in 1..Len(page)
      BY <1>2, <2>2, <2>4
    <3>2. page[1] < page[k + 1]
      BY <1>3, <3>1
    <3> QED
      BY <1>6, <2>3, <3>2
  <2>8. items # <<>> => Last(items) = Last(page)
    <3> SUFFICES ASSUME items # <<>> PROVE Last(items) = Last(page)
      OBVIOUS
    <3>1. Len(items) \in 1..Len(items) /\ Len(items) + 1 = Len(page)
      BY <1>2, <2>3
    <3> QED
      BY <2>3, <3>1 DEF Last
  <2>9. ASSUME NEW i \in world, i > offset, ~(Len(page) = PageLimit /\ i > Last(page)) PROVE i \in Range(items)
    <3>1. PICK k \in 1..Len(page) : i = page[k]
      BY <1>4, <2>9
    <3>2. k # 1
      <4>1. i \in Nat /\ i # offset
        BY <1>0, <2>9
      <4> QED
        BY <1>6, <3>1, <4>1
    <3>3. k - 1 \in 1..Len(items) /\ (k - 1) + 1 = k
      BY <1>2, <2>3, <3>2
    <3>4. items[k - 1] = i
      BY <2>3, <3>1, <3>3
    <3> QED
      BY <2>5, <3>3, <3>4 DEF Range
  <2> QED
    BY <1>1, <1>6, <2>3, <2>6, <2>7, <2>8, <2>9
<1> QED
  BY <1>5, <1>6

\* What the walk collected is not after the place where it goes on.
LEMMA NoRepeats ==
  ASSUME WalkInv, Walking,
         NEW items \in Seq(Ids), \A k \in 1..Len(items) : walk.offset < items[k]
  PROVE  Repeats(items) = 0
<1> DEFINE have == walk.all
<1>1. have \in Seq(Ids) /\ Increasing(have) /\ walk.offset = IF have = <<>> THEN NoOffset ELSE Last(have)
  BY DEF WalkInv
<1>2. Ids \subseteq Nat
  BY PagesAssumption
<1> HIDE DEF have
<1>3. ASSUME NEW k \in 1..Len(items), NEW j \in DOMAIN have, items[k] = have[j] PROVE FALSE
  <2>1. j \in 1..Len(have) /\ Len(have) \in Nat /\ Len(have) \in DOMAIN have /\ have # <<>>
    BY <1>1, <1>3
  <2>2. j = Len(have) \/ have[j] < have[Len(have)]
    BY <1>1, <2>1 DEF Increasing
  <2>3. have[j] \in Nat /\ have[Len(have)] \in Nat
    <3>1. have \in Seq(Ids) /\ j \in 1..Len(have) /\ Len(have) \in 1..Len(have)
      BY <1>1, <2>1
    <3>2. have[j] \in Ids /\ have[Len(have)] \in Ids
      BY <3>1
    <3> QED
      BY <1>2, <3>2
  <2>4. have[Len(have)] < items[k]
    BY <1>1, <2>1 DEF Last
  <2> QED
    BY <1>3, <2>2, <2>3, <2>4
<1>4. \A k \in DOMAIN items : items[k] \notin Range(have)
  BY <1>3 DEF Range
<1> QED
  BY <1>4 DEF Repeats, have

\* Two increasing sequences, one before the other.
LEMMA ConcatFacts ==
  ASSUME NEW S \in SUBSET Nat, NEW s \in Seq(S), NEW t \in Seq(S), Increasing(s), Increasing(t),
         \A j \in 1..Len(s), k \in 1..Len(t) : s[j] < t[k]
  PROVE  /\ s \o t \in Seq(S) /\ Len(s \o t) = Len(s) + Len(t)
         /\ Range(s \o t) = Range(s) \union Range(t)
         /\ t # <<>> => Last(s \o t) = Last(t)
         /\ Increasing(s \o t)
<1> DEFINE u == s \o t
<1>1. /\ u \in Seq(S) /\ Len(u) = Len(s) + Len(t) /\ Len(s) \in Nat /\ Len(t) \in Nat
      /\ DOMAIN u = 1..Len(u) /\ DOMAIN s = 1..Len(s) /\ DOMAIN t = 1..Len(t)
  OBVIOUS
<1>2. \A j \in 1..Len(u) : u[j] = IF j <= Len(s) THEN s[j] ELSE t[j - Len(s)]
  BY ConcatProperties
<1> HIDE DEF u
<1>3. \A j \in 1..Len(s) : j \in 1..Len(u) /\ u[j] = s[j]
  BY <1>1, <1>2
<1>4. \A k \in 1..Len(t) : k + Len(s) \in 1..Len(u) /\ u[k + Len(s)] = t[k]
  <2> SUFFICES ASSUME NEW k \in 1..Len(t) PROVE k + Len(s) \in 1..Len(u) /\ u[k + Len(s)] = t[k]
    OBVIOUS
  <2>1. k + Len(s) \in 1..Len(u) /\ ~(k + Len(s) <= Len(s)) /\ (k + Len(s)) - Len(s) = k
    BY <1>1
  <2> QED
    BY <1>2, <2>1
<1>5. \A j \in 1..Len(u) : j \in 1..Len(s) \/ \E k \in 1..Len(t) : j = k + Len(s)
  <2> SUFFICES ASSUME NEW j \in 1..Len(u), j \notin 1..Len(s) PROVE \E k \in 1..Len(t) : j = k + Len(s)
    OBVIOUS
  <2>1. j - Len(s) \in 1..Len(t) /\ j = (j - Len(s)) + Len(s)
    BY <1>1
  <2> QED
    BY <2>1
<1>6. Range(u) = Range(s) \union Range(t)
  <2>1. /\ Range(u) = {u[j] : j \in 1..Len(u)} /\ Range(s) = {s[j] : j \in 1..Len(s)}
        /\ Range(t) = {t[j] : j \in 1..Len(t)}
    BY <1>1 DEF Range
  <2>2. ASSUME NEW j \in 1..Len(u) PROVE u[j] \in Range(s) \union Range(t)
    <3>1. CASE j \in 1..Len(s)
      BY <1>3, <2>1, <3>1
    <3>2. CASE j \notin 1..Len(s)
      <4>1. PICK k \in 1..Len(t) : j = k + Len(s)
        BY <1>5, <3>2
      <4>2. u[j] = t[k]
        BY <1>4, <4>1
      <4> QED
        BY <2>1, <4>2
    <3> QED
      BY <3>1, <3>2
  <2>3. \A j \in 1..Len(s) : s[j] \in Range(u)
    BY <1>3, <2>1
  <2>4. \A k \in 1..Len(t) : t[k] \in Range(u)
    BY <1>4, <2>1
  <2> QED
    BY <2>1, <2>2, <2>3, <2>4
<1>7. t # <<>> => Last(u) = Last(t)
  <2> SUFFICES ASSUME t # <<>> PROVE u[Len(u)] = t[Len(t)]
    BY DEF Last
  <2>1. Len(t) \in 1..Len(t) /\ Len(u) = Len(t) + Len(s)
    BY <1>1
  <2> QED
    BY <1>4, <2>1
<1>8. Increasing(u)
  <2> SUFFICES ASSUME NEW i \in 1..Len(u), NEW j \in 1..Len(u), i < j PROVE u[i] < u[j]
    BY <1>1 DEF Increasing
  <2>1. CASE i \in 1..Len(s) /\ j \in 1..Len(s)
    BY <1>1, <1>3, <2>1 DEF Increasing
  <2>2. CASE i \in 1..Len(s) /\ j \notin 1..Len(s)
    <3>1. PICK k \in 1..Len(t) : j = k + Len(s)
      BY <1>5, <2>2
    <3>2. u[i] = s[i] /\ u[j] = t[k]
      BY <1>3, <1>4, <2>2, <3>1
    <3> QED
      BY <2>2, <3>1, <3>2
  <2>3. CASE i \notin 1..Len(s)
    <3>1. PICK k \in 1..Len(t) : i = k + Len(s)
      BY <1>5, <2>3
    <3>2. j \notin 1..Len(s)
      BY <1>1, <2>3
    <3>3. PICK l \in 1..Len(t) : j = l + Len(s)
      BY <1>5, <3>2
    <3>4. k < l
      BY <1>1, <3>1, <3>3
    <3>5. t[k] < t[l]
      BY <1>1, <3>4 DEF Increasing
    <3> QED
      BY <1>4, <3>1, <3>3, <3>5
  <2> QED
    BY <2>1, <2>2, <2>3
<1> QED
  BY <1>1, <1>6, <1>7, <1>8 DEF u

\* One page more: the walk has what it had and the page's items, which come after.
LEMMA WalkStep ==
  ASSUME WalkInv, ListInfoPage
  PROVE  WalkInv'
<1> DEFINE offset == walk.offset
           page   == Page(offset)
           items  == WithoutOverlap(page, offset)
           have    == walk.all \o items
           pages  == walk.pages + 1
           end    == IF Len(page) < PageLimit \/ items = <<>> THEN "whole"
                     ELSE IF Last(have) = offset \/ pages = MaxPages THEN "truncated"
                     ELSE "none"
<1>0. /\ Ids \subseteq Nat \ {0} /\ NoOffset = 0 /\ PageLimit \in Nat /\ PageLimit > 1
      /\ MaxPages \in Nat
  BY PagesAssumption DEF NoOffset
<1>1. /\ Walking /\ world \subseteq Ids /\ stayed \subseteq world /\ Increasing(walk.all)
      /\ UNCHANGED <<world, stayed>>
  BY DEF WalkInv, ListInfoPage
<1>2. /\ walk.all \in Seq(Ids) /\ offset \in Ids \union {NoOffset} /\ walk.pages \in Nat
      /\ walk.all = <<>> <=> walk.pages = 0
      /\ offset = IF walk.all = <<>> THEN NoOffset ELSE Last(walk.all)
      /\ \A i \in stayed : i <= offset => i \in Range(walk.all)
  BY <1>1 DEF WalkInv
<1>2a. offset \in Nat
  <2> HIDE DEF offset
  <2>1. offset \in Ids \union {NoOffset} /\ NoOffset \in Nat
    BY <1>0, <1>2
  <2>2. Ids \subseteq Nat
    BY <1>0
  <2> QED
    BY <2>1, <2>2
<1>2b. walk.pages > 0 => Len(walk.all) > walk.pages * (PageLimit - 1)
  BY <1>1 DEF WalkInv
<1>3. /\ Len(page) \in 0..PageLimit
      /\ items \in Seq(world) /\ Increasing(items)
      /\ \A k \in 1..Len(items) : offset < items[k]
      /\ Len(items) = Len(page) \/ (offset # NoOffset /\ Len(items) = Len(page) - 1)
      /\ items # <<>> => Last(items) = Last(page)
      /\ \A i \in world : i > offset =>
           \/ i \in Range(items)
           \/ Len(page) = PageLimit /\ i > Last(page)
  <2> HIDE DEF offset, page, items
  <2>1. offset \in Ids \union {NoOffset} /\ page = Page(offset) /\ items = WithoutOverlap(page, offset)
    BY <1>2 DEF page, items
  <2> QED
    BY <1>1, <2>1, ItemsFacts
<1>4. items \in Seq(Ids)
  BY <1>1, <1>3
<1>5. Repeats(items) = 0
  BY <1>1, <1>3, <1>4, NoRepeats
<1>6. walk' = [all |-> have, pages |-> pages, end |-> end,
               offset |-> IF end = "none" THEN Last(have) ELSE offset]
  BY <1>5 DEF ListInfoPage
<1>7. \A j \in 1..Len(walk.all), k \in 1..Len(items) : walk.all[j] < items[k]
  <2> HIDE DEF items
  <2> SUFFICES ASSUME NEW j \in 1..Len(walk.all), NEW k \in 1..Len(items) PROVE walk.all[j] < items[k]
    OBVIOUS
  <2>1. /\ DOMAIN walk.all = 1..Len(walk.all) /\ Len(walk.all) \in Nat
        /\ Len(walk.all) \in 1..Len(walk.all) /\ walk.all # <<>>
    BY <1>2
  <2>2. j = Len(walk.all) \/ walk.all[j] < walk.all[Len(walk.all)]
    BY <1>1, <2>1 DEF Increasing
  <2>3. walk.all[j] \in Ids /\ walk.all[Len(walk.all)] \in Ids /\ items[k] \in Ids
    BY <1>2, <1>4, <2>1
  <2>4. walk.all[Len(walk.all)] < items[k]
    BY <1>2, <1>3, <2>1 DEF Last
  <2>5. walk.all[j] \in Nat /\ walk.all[Len(walk.all)] \in Nat /\ items[k] \in Nat
    BY <1>0, <2>3
  <2> QED
    BY <2>2, <2>4, <2>5
<1>8. /\ have \in Seq(Ids) /\ Len(have) = Len(walk.all) + Len(items)
      /\ Range(have) = Range(walk.all) \union Range(items)
      /\ items # <<>> => Last(have) = Last(items)
      /\ Increasing(have)
  <2> HIDE DEF items
  <2> QED
    BY <1>0, <1>1, <1>2, <1>3, <1>4, <1>7, ConcatFacts
<1> HIDE DEF page, items, have
<1>9. items # <<>> => /\ Last(have) \in Ids /\ offset < Last(have) /\ Last(have) = Last(page)
                      /\ have # <<>> /\ Len(items) \in Nat \ {0}
  <2> SUFFICES ASSUME items # <<>> PROVE /\ Last(have) \in Ids /\ offset < Last(have) /\ Last(have) = Last(page)
                                         /\ have # <<>> /\ Len(items) \in Nat \ {0}
    OBVIOUS
  <2>1. Len(items) \in Nat \ {0} /\ Len(items) \in 1..Len(items)
    BY <1>4
  <2>2. items[Len(items)] \in Ids /\ offset < items[Len(items)]
    BY <1>3, <1>4, <2>1
  <2>3. Len(have) # 0
    BY <1>2, <1>8, <2>1
  <2>4. have # <<>>
    BY <2>3
  <2> QED
    BY <1>3, <1>8, <2>1, <2>2, <2>4 DEF Last
\* What stayed is in the walk up to its last entry, and everywhere when the page
\* was not full.
<1>10. ASSUME NEW i \in stayed
       PROVE  i \in Range(have) \/ (Len(page) = PageLimit /\ i > Last(page) /\ i > offset)
  <2>1. i \in world /\ i \in Nat /\ offset \in Nat
    BY <1>0, <1>1, <1>2a
  <2>2. CASE i <= offset
    BY <1>2, <1>8, <2>2
  <2>3. CASE i > offset
    BY <1>3, <1>8, <2>1, <2>3
  <2> QED
    BY <2>1, <2>2, <2>3
<1>11. end = "whole" => stayed \subseteq Range(have)
  <2>1. CASE Len(page) < PageLimit
    BY <1>0, <1>3, <1>10, <2>1
  <2>2. CASE items = <<>>
    <3>1. Len(items) = 0
      BY <2>2
    <3>2. Len(page) < PageLimit
      <4>1. Len(page) \in Nat /\ (Len(items) = Len(page) \/ Len(items) = Len(page) - 1)
        BY <1>0, <1>3
      <4> QED
        BY <1>0, <3>1, <4>1
    <3> QED
      BY <1>0, <1>3, <1>10, <3>2
  <2> QED
    BY <2>1, <2>2
<1>12. end # "whole" => /\ items # <<>> /\ Len(page) = PageLimit
                        /\ Len(have) > pages * (PageLimit - 1) /\ pages > 0
  <2> SUFFICES ASSUME end # "whole"
               PROVE  /\ items # <<>> /\ Len(page) = PageLimit
                      /\ Len(have) > pages * (PageLimit - 1) /\ pages > 0
    OBVIOUS
  <2>1. items # <<>> /\ Len(page) = PageLimit
    BY <1>0, <1>3
  <2>2. pages * (PageLimit - 1) = walk.pages * (PageLimit - 1) + (PageLimit - 1)
    BY <1>0, <1>2
  <2>3. CASE walk.pages = 0
    <3>1. walk.all = <<>> /\ offset = NoOffset /\ Len(walk.all) = 0
      BY <1>2, <2>3
    <3>2. Len(have) = PageLimit
      BY <1>0, <1>3, <1>8, <2>1, <3>1
    <3>3. pages * (PageLimit - 1) = PageLimit - 1
      BY <1>0, <2>3
    <3> QED
      BY <1>0, <2>1, <2>3, <3>2, <3>3
  <2>4. CASE walk.pages # 0
    <3> DEFINE X == walk.pages * (PageLimit - 1)
    <3>1. Len(walk.all) > X /\ X \in Int /\ Len(walk.all) \in Nat
      BY <1>0, <1>2, <1>2b, <2>4
    <3>2. Len(items) >= PageLimit - 1 /\ Len(items) \in Nat
      BY <1>0, <1>3, <1>9, <2>1
    <3>3. pages * (PageLimit - 1) = X + (PageLimit - 1)
      BY <2>2
    <3> HIDE DEF X, pages
    <3>4. Len(have) > pages * (PageLimit - 1)
      BY <1>0, <1>8, <3>1, <3>2, <3>3
    <3> QED
      BY <1>2, <2>1, <3>4 DEF pages
  <2> QED
    BY <2>3, <2>4
<1>13. end = "truncated" => pages = MaxPages
  <2>1. offset \in Nat
    BY <1>2a
  <2>2. end = "truncated" => Last(have) # offset
    BY <1>0, <1>9, <2>1
  <2> QED
    BY <2>2
<1>14. end = "none" => \A i \in stayed : i <= Last(have) => i \in Range(have)
  <2> SUFFICES ASSUME end = "none", NEW i \in stayed, i <= Last(have), i \notin Range(have) PROVE FALSE
    OBVIOUS
  <2>1. i > Last(page) /\ Last(have) = Last(page) /\ Last(have) \in Nat /\ i \in Nat
    BY <1>0, <1>1, <1>9, <1>10, <1>12
  <2> QED
    BY <2>1
<1>15. pages \in Nat /\ end \in {"none", "whole", "truncated"}
  BY <1>2
<1>16. (end = "none" => Last(have) \in Ids /\ have # <<>>) /\ offset \in Ids \union {NoOffset}
  BY <1>2, <1>9, <1>12
<1> HIDE DEF end, pages, offset
<1>17. /\ walk'.all = have /\ walk'.pages = pages /\ walk'.end = end
       /\ walk'.offset = IF end = "none" THEN Last(have) ELSE offset
       /\ walk' \in [all : Seq(Ids), offset : Ids \union {NoOffset}, pages : Nat,
                     end : {"none", "whole", "truncated", "unsupported", "error"}]
  BY <1>6, <1>8, <1>15, <1>16
<1>18. ASSUME Walking'
       PROVE  /\ walk'.all = <<>> <=> walk'.pages = 0
              /\ walk'.offset = IF walk'.all = <<>> THEN NoOffset ELSE Last(walk'.all)
              /\ \A i \in stayed : i <= walk'.offset => i \in Range(walk'.all)
              /\ walk'.pages > 0 => Len(walk'.all) > walk'.pages * (PageLimit - 1)
  <2>1. end = "none"
    BY <1>17, <1>18 DEF Walking
  <2>2. pages > 0 /\ have # <<>> /\ Len(have) > pages * (PageLimit - 1)
    BY <1>12, <1>16, <2>1
  <2>3. pages # 0
    BY <1>15, <2>2
  <2> QED
    BY <1>14, <1>17, <2>1, <2>2, <2>3
<1>19. walk'.end = "whole" => stayed \subseteq Range(walk'.all)
  BY <1>11, <1>17
<1>20. walk'.end = "truncated" =>
         walk'.pages = MaxPages /\ Len(walk'.all) > MaxPages * (PageLimit - 1)
  BY <1>12, <1>13, <1>17
<1> QED
  BY <1>1, <1>8, <1>17, <1>18, <1>19, <1>20 DEF WalkInv

\* The lists of InfoPages are those of ListCache, begun by a walk.
LEMMA PagedLists == InfoSpec => Spec
<1>1. InfoInit => Init
  BY DEF InfoInit
<1>2. [InfoNext]_<<vars, ivars>> => [Next]_vars
  BY DEF InfoNext, Created, Deleted, ListInfoPage, Unsupported, PageFails
<1> QED
  BY <1>1, <1>2, PTL DEF InfoSpec, Spec

LEMMA WalkBegins == InfoInit => WalkInv
<1> SUFFICES ASSUME InfoInit PROVE WalkInv
  OBVIOUS
<1>1. walk = [all |-> <<>>, offset |-> NoOffset, pages |-> 0, end |-> "none"]
  BY DEF InfoInit, Started
<1>2. world \subseteq Ids /\ stayed = world /\ Ids \subseteq Nat \ {0} /\ NoOffset = 0
  BY PagesAssumption DEF InfoInit, NoOffset
<1>3. <<>> \in Seq(Ids) /\ Increasing(<<>>)
  BY DEF Increasing
<1>4. \A i \in stayed : ~(i <= NoOffset)
  BY <1>2
<1> QED
  BY <1>1, <1>2, <1>3, <1>4 DEF WalkInv, Walking

\* A list that does not say it is truncated has every entry that existed as long
\* as it was paged, none twice, and it says so only at the cap.
THEOREM WholeLists == InfoSpec => []PagesAreWhole
<1>1. ASSUME WalkInv, [InfoNext]_<<vars, ivars>> PROVE WalkInv'
  <2>1. CASE \E i \in Ids : Created(i) \/ Deleted(i)
    <3>1. PICK i \in Ids : Created(i) \/ Deleted(i)
      BY <2>1
    <3>2. walk' = walk /\ (Walking' <=> Walking) /\ Walking
      BY <3>1 DEF Created, Deleted, Walking
    <3>3. world' \subseteq Ids /\ stayed' \subseteq world' /\ stayed' \subseteq stayed
      BY <1>1, <3>1 DEF Created, Deleted, WalkInv
    <3> QED
      BY <1>1, <3>2, <3>3 DEF WalkInv
  <2>2. CASE ListInfoPage
    BY <1>1, <2>2, WalkStep
  <2>3. CASE Unsupported \/ PageFails
    <3>1. PICK e \in {"unsupported", "error"} :
            walk' = [all |-> <<>>, offset |-> NoOffset, pages |-> 0, end |-> e]
      BY <2>3 DEF Unsupported, PageFails, Started
    <3>2. <<>> \in Seq(Ids) /\ Increasing(<<>>)
      BY DEF Increasing
    <3>3. /\ walk'.end = e /\ walk'.all = <<>> /\ ~Walking'
          /\ walk' \in [all : Seq(Ids), offset : Ids \union {NoOffset}, pages : Nat,
                        end : {"none", "whole", "truncated", "unsupported", "error"}]
      BY <3>1, <3>2 DEF Walking
    <3>4. world' \subseteq Ids /\ stayed' \subseteq world'
      BY <1>1, <2>3 DEF Unsupported, PageFails, WalkInv
    <3>5. walk'.end # "whole" /\ walk'.end # "truncated" /\ Increasing(walk'.all)
      BY <3>2, <3>3
    <3> QED
      BY <3>3, <3>4, <3>5 DEF WalkInv
  <2>4. CASE UNCHANGED ivars
    BY <1>1, <2>4 DEF WalkInv, Walking, ivars
  <2> QED
    BY <1>1, <2>1, <2>2, <2>3, <2>4 DEF InfoNext
<1>2. WalkInv => PagesAreWhole
  <2> SUFFICES ASSUME WalkInv PROVE IsInjective(walk.all)
    BY DEF WalkInv, PagesAreWhole
  <2>1. walk.all \in Seq(Ids) /\ Increasing(walk.all) /\ Ids \subseteq Nat
    BY PagesAssumption DEF WalkInv
  <2>2. ASSUME NEW j \in DOMAIN walk.all, NEW k \in DOMAIN walk.all, walk.all[j] = walk.all[k] PROVE j = k
    <3>1. j \in Nat /\ k \in Nat
      BY <2>1
    <3>2. walk.all[j] \in Nat
      <4>1. walk.all[j] \in Ids
        BY <2>1
      <4> QED
        BY <2>1, <4>1
    <3>3. ~(walk.all[j] < walk.all[k]) /\ ~(walk.all[k] < walk.all[j])
      BY <2>2, <3>2
    <3>4. ~(j < k) /\ ~(k < j)
      BY <2>1, <3>3 DEF Increasing
    <3> QED
      BY <3>1, <3>4
  <2> QED
    BY <2>2 DEF IsInjective
<1> QED
  BY <1>1, <1>2, WalkBegins, PTL DEF InfoSpec

-----------------------------------------------------------------------------
(* The process around the requests *)

\* A change of a mutation's progress: only its running handler begins it.
LEMMA ProgressStep ==
  ASSUME ServerTypes, (\E r \in Requests : Handle(r)) \/ (\E m \in Mutations : GarageActs(m))
  PROVE  /\ mpc' \in [Mutations -> {"idle", "sent", "accepted", "clearing", "done", "failed"}]
         /\ \A m \in Mutations : mpc[m] = "idle" /\ mpc'[m] # "idle" => handler[m] = "running"
<1>0. mpc \in [Mutations -> {"idle", "sent", "accepted", "clearing", "done", "failed"}]
  BY DEF ServerTypes
<1>1. ASSUME NEW l \in Lists, ListStep(l) PROVE mpc' = mpc
  BY <1>1 DEF ListStep, BeginList, ListUnavailable, StartWorkers, Disconnect, Finish, Lookup,
              FetchSend, FetchRead, FetchStore, FetchFail, mvars
<1>2. ASSUME NEW m \in Mutations, NEW is, MutationSend(m, is), handler[m] = "running"
      PROVE  /\ mpc' \in [Mutations -> {"idle", "sent", "accepted", "clearing", "done", "failed"}]
             /\ \A n \in Mutations : mpc[n] = "idle" /\ mpc'[n] # "idle" => handler[n] = "running"
  BY <1>0, <1>2 DEF MutationSend
<1>3. ASSUME NEW m \in Mutations, ClearBuckets(m) \/ ClearKeys(m) \/ MutationFails(m) \/ MutationApplied(m)
      PROVE  /\ mpc' \in [Mutations -> {"idle", "sent", "accepted", "clearing", "done", "failed"}]
             /\ \A n \in Mutations : mpc[n] = "idle" => mpc'[n] = "idle"
  BY <1>0, <1>3 DEF ClearBuckets, ClearKeys, MutationFails, MutationApplied
<1>4. CASE \E m \in Mutations : GarageActs(m)
  BY <1>3, <1>4 DEF GarageActs
<1>5. CASE \E r \in Requests : Handle(r)
  BY <1>0, <1>1, <1>2, <1>3, <1>5 DEF Handle
<1> QED
  BY <1>4, <1>5

LEMMA RequestsAdvance ==
  ASSUME ServerInv, (\E r \in Requests : Handle(r)) \/ (\E m \in Mutations : GarageActs(m))
  PROVE  ServerInv'
<1>1. /\ mpc' \in [Mutations -> {"idle", "sent", "accepted", "clearing", "done", "failed"}]
      /\ \A m \in Mutations : mpc[m] = "idle" /\ mpc'[m] # "idle" => handler[m] = "running"
  BY ProgressStep DEF ServerInv
<1>2. UNCHANGED svars
  BY DEF Handle, GarageActs
<1>3. ServerTypes' /\ InTime'
  BY <1>1, <1>2 DEF ServerInv, ServerTypes, InTime, svars, pvars
<1>4. ASSUME NEW r \in Requests PROVE RunsInPhase(r)' /\ RecordedInFull(r)'
  <2>1. RunsInPhase(r) /\ RecordedInFull(r)
    BY DEF ServerInv
  <2> QED
    BY <1>1, <1>2, <2>1 DEF RunsInPhase, RecordedInFull, svars, pvars
<1> QED
  BY <1>3, <1>4 DEF ServerInv

LEMMA ConnectionStep ==
  ASSUME ServerInv, NEW r \in Requests, Connect(r) \/ Start(r) \/ CloseIdle(r)
  PROVE  ServerInv'
<1>1. /\ UNCHANGED <<mpc, pvars, lines>>
      /\ \/ phase \in {"serving", "draining"} /\ handler' = [handler EXCEPT ![r] = "connected"] /\ handler[r] = "none"
         \/ phase \in {"serving", "draining"} /\ handler' = [handler EXCEPT ![r] = "running"] /\ handler[r] = "connected"
         \/ handler' = [handler EXCEPT ![r] = "cut"] /\ handler[r] = "connected"
  BY DEF Connect, Start, CloseIdle, vars, mvars
<1>2. ServerTypes' /\ InTime'
  BY <1>1 DEF ServerInv, ServerTypes, InTime, States, pvars
<1>3. ASSUME NEW q \in Requests PROVE RunsInPhase(q)' /\ RecordedInFull(q)'
  <2>1. RunsInPhase(q) /\ RecordedInFull(q) /\ handler \in [Requests -> States]
    BY DEF ServerInv, ServerTypes
  <2>2. UNCHANGED <<phase, exit, warned>>
    BY <1>1 DEF pvars
  <2>3. CASE q = r
    BY <1>1, <2>1, <2>2, <2>3 DEF RunsInPhase, RecordedInFull
  <2>4. CASE q # r
    <3>1. handler'[q] = handler[q]
      BY <1>1, <2>1, <2>4
    <3> QED
      BY <1>1, <2>1, <2>2, <3>1 DEF RunsInPhase, RecordedInFull
  <2> QED
    BY <2>3, <2>4
<1> QED
  BY <1>2, <1>3 DEF ServerInv

\* A handler that returns, or panics, leaves its lines.
LEMMA HandlerEnds ==
  ASSUME ServerInv, NEW r \in Requests, Returns(r) \/ (r \in Mutations /\ Panics(r))
  PROVE  ServerInv'
<1>1. /\ UNCHANGED <<mpc, pvars>> /\ handler[r] = "running"
      /\ handler' = [handler EXCEPT ![r] = "returned"]
  BY DEF Returns, Panics, vars, mvars
<1>2. PICK rec \in Recorded(r) : lines' = [lines EXCEPT ![r] = rec]
  BY DEF Returns, Panics
<1>3. UNCHANGED <<phase, exit, warned, clock, deadline, signals, killAt>>
  BY <1>1 DEF pvars
<1>4. /\ rec \subseteq {"request", "audit", "span"}
      /\ r \in Mutations => "audit" \in rec
      /\ phase # "flushing" => "span" \in rec
  BY <1>2 DEF Recorded
<1>5. ServerTypes' /\ InTime'
  BY <1>1, <1>2, <1>3, <1>4 DEF ServerInv, ServerTypes, InTime, States
<1>6. ASSUME NEW q \in Requests PROVE RunsInPhase(q)' /\ RecordedInFull(q)'
  <2>1. /\ RunsInPhase(q) /\ RecordedInFull(q) /\ handler \in [Requests -> States]
        /\ lines \in [Requests -> SUBSET {"request", "audit", "span"}]
    BY DEF ServerInv, ServerTypes
  <2>2. CASE q = r
    <3>1. handler'[q] = "returned" /\ lines'[q] = rec
      BY <1>1, <1>2, <2>1, <2>2
    <3> QED
      BY <1>1, <1>3, <1>4, <2>1, <2>2, <3>1 DEF RunsInPhase, RecordedInFull
  <2>3. CASE q # r
    <3>1. handler'[q] = handler[q] /\ lines'[q] = lines[q]
      BY <1>1, <1>2, <2>1, <2>3
    <3> QED
      BY <1>1, <1>3, <2>1, <3>1 DEF RunsInPhase, RecordedInFull
  <2> QED
    BY <2>2, <2>3
<1> QED
  BY <1>5, <1>6 DEF ServerInv

LEMMA BudgetFacts ==
  /\ DrainTimeout \in Nat /\ CloseWait \in Nat /\ FlushTimeout \in Nat /\ Grace \in Nat
  /\ DrainTimeout + CloseWait + FlushTimeout < Grace
  /\ Budget("serving") = 0 /\ Budget("draining") = DrainTimeout
  /\ Budget("waiting") = DrainTimeout + CloseWait
  /\ Budget("flushing") = DrainTimeout + CloseWait + FlushTimeout
  /\ Budget("exited") = DrainTimeout + CloseWait + FlushTimeout
BY BudgetAssumption DEF Budget

LEMMA BudgetBound ==
  \A p \in Phases : Budget(p) \in Nat /\ Budget(p) <= DrainTimeout + CloseWait + FlushTimeout
<1> SUFFICES ASSUME NEW p \in Phases
             PROVE  Budget(p) \in Nat /\ Budget(p) <= DrainTimeout + CloseWait + FlushTimeout
  OBVIOUS
<1>1. DrainTimeout \in Nat /\ CloseWait \in Nat /\ FlushTimeout \in Nat
  BY BudgetAssumption
<1>2. \/ Budget(p) = 0 \/ Budget(p) = DrainTimeout \/ Budget(p) = DrainTimeout + CloseWait
      \/ Budget(p) = DrainTimeout + CloseWait + FlushTimeout
  BY DEF Budget
<1> QED
  BY <1>1, <1>2

\* The process goes from phase p to q, within the budget of q.
LEMMA PhaseTimes ==
  ASSUME ServerInv, NEW after \in Nat, NEW q \in Phases, Enter(q, after), clock' = clock,
         \/ phase = "serving" /\ q = "draining" /\ after = DrainTimeout
         \/ phase = "draining" /\ q = "waiting" /\ after = CloseWait
         \/ phase \in {"draining", "waiting"} /\ q = "flushing" /\ after = FlushTimeout
  PROVE  deadline' \in Nat /\ clock <= deadline' /\ deadline' <= Budget(q)
<1>1. clock \in Nat /\ deadline \in Nat /\ clock <= deadline /\ deadline <= Budget(phase)
  BY DEF ServerInv, ServerTypes, InTime
<1>2. deadline' = clock + after
  BY DEF Enter
<1>3. DrainTimeout \in Nat /\ CloseWait \in Nat /\ FlushTimeout \in Nat
  BY BudgetAssumption
<1>4. clock <= Budget(phase) /\ Budget(phase) \in Nat
  <2>1. Budget(phase) \in Nat
    BY BudgetBound DEF ServerInv, ServerTypes
  <2> QED
    BY <1>1, <2>1
<1>5. Budget(phase) + after <= Budget(q) /\ Budget(q) \in Nat
  BY <1>3, BudgetFacts
<1> QED
  BY <1>1, <1>2, <1>4, <1>5

LEMMA ClockBound ==
  ASSUME ServerInv
  PROVE  /\ clock \in Nat /\ clock <= Budget("exited") /\ clock < Grace
         /\ clock' = clock /\ deadline' = clock => clock' <= deadline' /\ deadline' <= Budget("exited")
<1>1. clock \in Nat /\ deadline \in Nat /\ clock <= deadline /\ deadline <= Budget(phase) /\ phase \in Phases
  BY DEF ServerInv, ServerTypes, InTime
<1>2. Budget(phase) \in Nat /\ Budget(phase) <= DrainTimeout + CloseWait + FlushTimeout
  BY <1>1, BudgetBound
<1>3. /\ DrainTimeout \in Nat /\ CloseWait \in Nat /\ FlushTimeout \in Nat /\ Grace \in Nat
      /\ DrainTimeout + CloseWait + FlushTimeout < Grace
      /\ Budget("exited") = DrainTimeout + CloseWait + FlushTimeout
  BY BudgetFacts
<1> QED
  BY <1>1, <1>2, <1>3

\* The process ends, and what still runs with it.
LEMMA EndStep ==
  ASSUME ServerInv, NEW how \in {"exited", "terminated"}, Ended(how), phase # "exited",
         signals' \in Nat, signals' > 0 => killAt >= Grace,
         how = "exited" => phase = "flushing"
  PROVE  ServerInv'
<1>1. /\ phase' = "exited" /\ exit' = how /\ deadline' = clock
      /\ handler' = [r \in Requests |-> IF r \in Open THEN "killed" ELSE handler[r]]
      /\ UNCHANGED <<mpc, clock, killAt, lines, warned>>
  BY DEF Ended, vars, mvars
<1>2. clock \in Nat
  BY ClockBound
<1>3. InTime'
  <2>1. clock' <= deadline' /\ deadline' <= Budget("exited")
    BY <1>1, ClockBound
  <2>2. signals' > 0 => killAt' >= Grace
    BY <1>1
  <2> QED
    BY <1>1, <2>1, <2>2 DEF InTime
<1>4. ServerTypes'
  BY <1>1, <1>2 DEF ServerInv, ServerTypes, States, Phases
<1>5. ASSUME NEW r \in Requests PROVE RunsInPhase(r)' /\ RecordedInFull(r)'
  <2>1. RunsInPhase(r) /\ RecordedInFull(r)
    BY DEF ServerInv
  <2>2. CASE r \in Open
    <3>1. handler'[r] = "killed" /\ handler[r] \in {"connected", "running"}
      BY <1>1, <2>2 DEF Open
    <3> QED
      BY <1>1, <2>1, <3>1 DEF RunsInPhase, RecordedInFull
  <2>3. CASE r \notin Open
    <3>1. handler'[r] = handler[r] /\ handler[r] \notin {"connected", "running"}
      BY <1>1, <2>3 DEF Open
    <3> QED
      BY <1>1, <2>1, <3>1 DEF RunsInPhase, RecordedInFull
  <2> QED
    BY <2>2, <2>3
<1> QED
  BY <1>3, <1>4, <1>5 DEF ServerInv

\* A phase of the process begins: connections may be cut with it.
LEMMA EnterStep ==
  ASSUME ServerInv, NEW after \in Nat, NEW q \in {"draining", "waiting", "flushing"}, Enter(q, after),
         \/ phase = "serving" /\ q = "draining" /\ after = DrainTimeout /\ warned' = warned
         \/ phase = "draining" /\ q = "waiting" /\ after = CloseWait /\ warned' = warned
         \/ phase = "draining" /\ q = "flushing" /\ after = FlushTimeout /\ Open = {} /\ warned' = warned
         \/ phase = "waiting" /\ q = "flushing" /\ after = FlushTimeout /\ warned' = Busy,
         handler' = IF q = "waiting"
                      THEN [r \in Requests |-> IF handler[r] = "connected" THEN "cut" ELSE handler[r]]
                      ELSE handler,
         UNCHANGED <<vars, exit, clock, lines>>,
         signals' \in Nat, killAt' \in Nat, signals' > 0 => killAt' >= Grace
  PROVE  ServerInv'
<1>1. deadline' \in Nat /\ clock <= deadline' /\ deadline' <= Budget(q) /\ phase' = q
  <2>1. q \in Phases
    BY DEF Phases
  <2> QED
    BY <2>1, PhaseTimes DEF Enter
<1>2. InTime'
  BY <1>1 DEF InTime
<1>3. handler' \in [Requests -> States] /\ warned' \subseteq Requests /\ mpc' = mpc
  BY DEF ServerInv, ServerTypes, States, Busy, vars, mvars
<1>4. ServerTypes'
  BY <1>1, <1>3 DEF ServerInv, ServerTypes, Phases
<1>5. ASSUME NEW r \in Requests PROVE RunsInPhase(r)' /\ RecordedInFull(r)'
  <2>1. RunsInPhase(r) /\ RecordedInFull(r)
    BY DEF ServerInv
  <2>2. handler'[r] = handler[r] \/ (handler[r] = "connected" /\ handler'[r] = "cut")
    <3>1. CASE q = "waiting"
      <4>1. handler' = [w \in Requests |-> IF handler[w] = "connected" THEN "cut" ELSE handler[w]]
        BY <3>1
      <4> QED
        BY <4>1
    <3>2. CASE q # "waiting"
      <4>1. handler' = handler
        BY <3>2
      <4> QED
        BY <4>1
    <3> QED
      BY <3>1, <3>2
  <2>3. handler'[r] = "running" /\ q = "flushing" => r \in warned'
    <3>1. CASE q = "flushing" /\ handler[r] = "running"
      <4>1. r \in Open /\ r \in Busy
        BY <3>1 DEF Open, Busy
      <4> QED
        BY <3>1, <4>1
    <3> QED
      BY <2>2, <3>1
  <2>4. handler'[r] = "connected" => q = "draining"
    BY <2>1, <2>2 DEF Open, RunsInPhase
  <2>5. r \in warned => r \in warned'
    BY <2>1 DEF RunsInPhase
  <2>6. r \in warned' => q = "flushing"
    BY <2>1 DEF RunsInPhase
  <2> QED
    BY <1>1, <1>3, <2>1, <2>2, <2>3, <2>4, <2>5, <2>6 DEF RunsInPhase, RecordedInFull
<1> QED
  BY <1>2, <1>4, <1>5 DEF ServerInv

LEMMA ProcessStep ==
  ASSUME ServerInv, Process
  PROVE  ServerInv'
<1>1. /\ signals \in Nat /\ killAt \in Nat /\ Grace \in Nat /\ clock \in Nat /\ clock < Grace
      /\ signals > 0 => killAt >= Grace
  BY ClockBound, BudgetAssumption DEF ServerInv, ServerTypes, InTime
<1>2. DrainTimeout \in Nat /\ CloseWait \in Nat /\ FlushTimeout \in Nat
  BY BudgetAssumption
<1>3. ASSUME Signal PROVE ServerInv'
  <2>1. phase # "exited" /\ signals' \in Nat
    BY <1>1, <1>3 DEF Signal
  <2>2. CASE signals = 1
    <3>1. Ended("terminated")
      BY <1>3, <2>2 DEF Signal
    <3>2. killAt >= Grace
      BY <1>1, <2>2
    <3> QED
      BY <2>1, <3>1, <3>2, EndStep
  <2>3. CASE signals # 1
    <3>1. /\ killAt' = clock + Grace
          /\ UNCHANGED <<vars, exit, clock, handler, lines, warned>>
          /\ \/ phase = "serving" /\ Enter("draining", DrainTimeout)
             \/ phase # "serving" /\ UNCHANGED <<phase, deadline>>
      BY <1>3, <2>3 DEF Signal
    <3>2. killAt' \in Nat /\ killAt' >= Grace
      BY <1>1, <3>1
    <3>3. CASE phase = "serving" /\ Enter("draining", DrainTimeout)
      BY <1>2, <2>1, <3>1, <3>2, <3>3, EnterStep
    <3>4. CASE UNCHANGED <<phase, deadline>>
      <4>1. InTime'
        BY <3>1, <3>2, <3>4 DEF ServerInv, InTime
      <4>2. ServerTypes' /\ \A r \in Requests : RunsInPhase(r)' /\ RecordedInFull(r)'
        BY <2>1, <3>1, <3>2, <3>4 DEF ServerInv, ServerTypes, RunsInPhase, RecordedInFull, vars, mvars
      <4> QED
        BY <4>1, <4>2 DEF ServerInv
    <3> QED
      BY <3>1, <3>3, <3>4
  <2> QED
    BY <2>2, <2>3
<1>4. ASSUME ListenerFails PROVE ServerInv'
  <2>1. /\ phase = "serving" /\ Enter("draining", DrainTimeout)
        /\ UNCHANGED <<vars, exit, clock, signals, killAt, handler, lines, warned>>
    BY <1>4 DEF ListenerFails
  <2> QED
    BY <1>1, <1>2, <2>1, EnterStep
<1>5. ASSUME Drained PROVE ServerInv'
  <2>1. /\ phase = "draining" /\ Open = {} /\ Enter("flushing", FlushTimeout)
        /\ UNCHANGED <<vars, exit, clock, signals, killAt, handler, lines, warned>>
    BY <1>5 DEF Drained
  <2> QED
    BY <1>1, <1>2, <2>1, EnterStep
<1>6. ASSUME DrainTimesOut PROVE ServerInv'
  <2>1. /\ phase = "draining" /\ Enter("waiting", CloseWait)
        /\ handler' = [r \in Requests |-> IF handler[r] = "connected" THEN "cut" ELSE handler[r]]
        /\ UNCHANGED <<vars, exit, clock, signals, killAt, lines, warned>>
    BY <1>6 DEF DrainTimesOut
  <2> QED
    BY <1>1, <1>2, <2>1, EnterStep
<1>7. ASSUME WaitEnds PROVE ServerInv'
  <2>1. /\ phase = "waiting" /\ Enter("flushing", FlushTimeout) /\ warned' = Busy
        /\ UNCHANGED <<vars, exit, clock, signals, killAt, handler, lines>>
    BY <1>7 DEF WaitEnds
  <2> QED
    BY <1>1, <1>2, <2>1, EnterStep
<1>8. ASSUME FlushEnds PROVE ServerInv'
  <2>1. phase = "flushing" /\ Ended("exited") /\ signals' = signals
    BY <1>8 DEF FlushEnds
  <2> QED
    BY <1>1, <2>1, EndStep
<1>9. ASSUME ClockTicks PROVE ServerInv'
  <2>1. clock < deadline /\ clock' = clock + 1 /\ deadline \in Nat /\ deadline <= Budget(phase)
    BY <1>9 DEF ClockTicks, ServerInv, ServerTypes, InTime
  <2>2. UNCHANGED <<vars, phase, exit, deadline, signals, killAt, handler, lines, warned>>
    BY <1>9 DEF ClockTicks
  <2>3. clock' \in Nat /\ clock' <= deadline
    BY <1>1, <2>1
  <2>4. InTime'
    BY <2>2, <2>3 DEF ServerInv, InTime
  <2>5. ServerTypes' /\ \A r \in Requests : RunsInPhase(r)' /\ RecordedInFull(r)'
    BY <2>2, <2>3 DEF ServerInv, ServerTypes, RunsInPhase, RecordedInFull, vars, mvars
  <2> QED
    BY <2>4, <2>5 DEF ServerInv
<1> QED
  BY <1>3, <1>4, <1>5, <1>6, <1>7, <1>8, <1>9 DEF Process

LEMMA ServerBegins == ServerInit => ServerInv
<1> SUFFICES ASSUME ServerInit PROVE ServerInv
  OBVIOUS
<1>1. /\ phase = "serving" /\ exit = "none" /\ clock = 0 /\ deadline = 0
      /\ signals = 0 /\ killAt = 0 /\ warned = {}
      /\ handler = [r \in Requests |-> "none"] /\ lines = [r \in Requests |-> {}]
  BY DEF ServerInit
<1>2. mpc = [m \in Mutations |-> "idle"]
  BY DEF ServerInit, Init
<1>3. ServerTypes
  BY <1>1, <1>2 DEF ServerTypes, States, Phases
<1>4. InTime
  BY <1>1, BudgetFacts DEF InTime
<1>5. ASSUME NEW r \in Requests PROVE RunsInPhase(r) /\ RecordedInFull(r)
  BY <1>1, <1>2 DEF RunsInPhase, RecordedInFull
<1> QED
  BY <1>3, <1>4, <1>5 DEF ServerInv

LEMMA ServerStep ==
  ASSUME ServerInv, [ServerNext]_all
  PROVE  ServerInv'
<1>1. CASE Process
  BY <1>1, ProcessStep
<1>2. CASE \E r \in Requests : Connect(r) \/ Start(r) \/ CloseIdle(r)
  BY <1>2, ConnectionStep
<1>3. CASE (\E r \in Requests : Handle(r)) \/ (\E m \in Mutations : GarageActs(m))
  BY <1>3, RequestsAdvance
<1>4. CASE \E r \in Requests : Returns(r)
  BY <1>4, HandlerEnds
<1>5. CASE \E m \in Mutations : Panics(m)
  <2>1. PICK m \in Mutations : Panics(m)
    BY <1>5
  <2>2. m \in Requests
    BY <2>1 DEF Requests
  <2> QED
    BY <2>1, <2>2, HandlerEnds
<1>6. CASE UNCHANGED all
  <2>1. UNCHANGED <<mpc, phase, exit, clock, deadline, signals, killAt, warned, handler, lines>>
    BY <1>6 DEF all, svars, pvars, vars, mvars
  <2> QED
    BY <2>1 DEF ServerInv, ServerTypes, InTime, RunsInPhase, RecordedInFull
<1> QED
  BY <1>1, <1>2, <1>3, <1>4, <1>5, <1>6 DEF ServerNext, Request

-----------------------------------------------------------------------------
(* The copy of a response *)

Summed(w, g, i) == IF i = 0 THEN 0 ELSE g[i - 1] + w[i]

Copied(w, g, i) == IF i = 0 THEN [len |-> 0, overflow |-> FALSE] ELSE Write(g[i - 1], w[i])

\* What a copy should be after so many bytes.
Honest(total) ==
  [len |-> IF total > MaxCopy THEN MaxCopy ELSE total, overflow |-> total > MaxCopy]

LEMMA SumExists ==
  ASSUME NEW N \in Nat, NEW w \in [1..N -> Nat]
  PROVE  \E g : g = [i \in 0..N |-> Summed(w, g, i)]
<1> DEFINE Sum(g, n) == g = [i \in 0..n |-> Summed(w, g, i)]
           Bad == {n \in 0..N : ~\E g : Sum(g, n)}
<1> SUFFICES ASSUME Bad # {} PROVE FALSE
  OBVIOUS
<1>1. PICK n \in Bad : \A m \in Bad : n <= m
  <2> Bad \in SUBSET Nat
    OBVIOUS
  <2> HIDE DEF Bad
  <2> QED
    BY LeastNat
<1>2. n \in 0..N /\ ~\E g : Sum(g, n)
  OBVIOUS
<1>3. CASE n = 0
  <2> DEFINE g == [i \in 0..0 |-> 0]
  <2>1. g = [i \in 0..0 |-> Summed(w, g, i)]
    BY DEF Summed
  <2> QED
    BY <1>2, <1>3, <2>1
<1>4. CASE n # 0
  <2>1. n - 1 \in 0..N /\ n - 1 \notin Bad
    BY <1>1, <1>2, <1>4
  <2>2. PICK g : Sum(g, n - 1)
    BY <2>1
  <2> DEFINE h == [i \in 0..n |-> Summed(w, g, i)]
  <2>3. ASSUME NEW i \in 0..n PROVE Summed(w, g, i) = Summed(w, h, i)
    <3>1. i # 0 => i - 1 \in 0..(n - 1) /\ i - 1 \in 0..n
      BY <1>2
    <3>2. i # 0 => g[i - 1] = h[i - 1]
      BY <2>2, <3>1
    <3> QED
      BY <3>2 DEF Summed
  <2>4. h = [i \in 0..n |-> Summed(w, h, i)]
    BY <2>3
  <2> QED
    BY <1>2, <2>4
<1> QED
  BY <1>3, <1>4

LEMMA SumIsNat ==
  ASSUME NEW N \in Nat, NEW w \in [1..N -> Nat], NEW sum, sum = [i \in 0..N |-> Summed(w, sum, i)]
  PROVE  \A n \in 0..N : sum[n] \in Nat
<1> DEFINE Bad == {n \in 0..N : sum[n] \notin Nat}
<1> SUFFICES ASSUME Bad # {} PROVE FALSE
  OBVIOUS
<1>1. PICK n \in Bad : \A m \in Bad : n <= m
  <2> Bad \in SUBSET Nat
    OBVIOUS
  <2> HIDE DEF Bad
  <2> QED
    BY LeastNat
<1>2. n \in 0..N /\ sum[n] \notin Nat /\ sum[n] = Summed(w, sum, n)
  OBVIOUS
<1>3. n # 0
  BY <1>2 DEF Summed
<1>4. n - 1 \in 0..N /\ sum[n - 1] \in Nat /\ w[n] \in Nat
  BY <1>1, <1>2, <1>3
<1> QED
  BY <1>2, <1>3, <1>4 DEF Summed

LEMMA HonestAtFirst == Honest(0) = [len |-> 0, overflow |-> FALSE]
<1>1. MaxCopy \in Nat
  BY BudgetAssumption
<1>2. (0 > MaxCopy) = FALSE
  BY <1>1
<1>3. (IF 0 > MaxCopy THEN MaxCopy ELSE 0) = 0
  BY <1>2, Zenon
<1> QED
  BY <1>2, <1>3, Zenon DEF Honest

\* One more write keeps the copy honest.
LEMMA WriteKeeps ==
  ASSUME NEW total \in Nat, NEW n \in Nat
  PROVE  Write(Honest(total), n) = Honest(total + n)
<1>1. MaxCopy \in Nat
  BY BudgetAssumption
<1>2. CASE total < MaxCopy
  <2>1. (total > MaxCopy) = FALSE
    BY <1>1, <1>2
  <2>2. Honest(total) = [len |-> total, overflow |-> FALSE]
    BY <2>1, Zenon DEF Honest
  <2> QED
    BY <1>1, <1>2, <2>2 DEF Write, Honest
<1>3. CASE ~(total < MaxCopy)
  <2>1. Honest(total).len = MaxCopy /\ Honest(total).overflow = (total > MaxCopy)
    BY <1>1, <1>3 DEF Honest
  <2>2. (IF total + n > MaxCopy THEN MaxCopy ELSE total + n) = MaxCopy
    BY <1>1, <1>3
  <2>3. (total > MaxCopy \/ n > 0) = (total + n > MaxCopy)
    BY <1>1, <1>3
  <2>4. Write(Honest(total), n) = [Honest(total) EXCEPT !.overflow = @ \/ n > 0]
    BY <1>1, <2>1 DEF Write
  <2>5. Write(Honest(total), n) = [len |-> MaxCopy, overflow |-> (total > MaxCopy \/ n > 0)]
    BY <2>1, <2>4 DEF Honest
  <2> QED
    BY <2>2, <2>3, <2>5 DEF Honest
<1> QED
  BY <1>2, <1>3

LEMMA CopiesAreHonest ==
  ASSUME NEW w \in Seq(Nat)
  PROVE  Length(w) \in Nat /\ Copy(w) = Honest(Length(w))
<1> DEFINE N == Len(w)
           sum == CHOOSE g : g = [i \in 0..N |-> Summed(w, g, i)]
           copy == CHOOSE g : g = [i \in 0..N |-> Copied(w, g, i)]
<1>1. N \in Nat /\ w \in [1..N -> Nat]
  OBVIOUS
<1>2. sum = [i \in 0..N |-> Summed(w, sum, i)]
  <2>1. \E g : g = [i \in 0..N |-> Summed(w, g, i)]
    <3> HIDE DEF N
    <3> QED
      BY <1>1, SumExists
  <2> QED
    BY <2>1
<1>3. \A n \in 0..N : sum[n] \in Nat
  <2> HIDE DEF N, sum
  <2> QED
    BY <1>1, <1>2, SumIsNat
<1>4. Length(w) = sum[N] /\ Copy(w) = copy[N]
  BY DEF Length, Copy, Summed, Copied
<1> HIDE DEF sum
<1>5. copy = [i \in 0..N |-> Copied(w, copy, i)]
  <2> DEFINE g == [i \in 0..N |-> Honest(sum[i])]
  <2>1. ASSUME NEW i \in 0..N PROVE Honest(sum[i]) = Copied(w, g, i)
    <3>1. CASE i = 0
      BY <1>1, <1>2, <3>1, HonestAtFirst DEF Summed, Copied
    <3>2. CASE i # 0
      <4>1. i - 1 \in 0..N /\ w[i] \in Nat /\ sum[i - 1] \in Nat
        BY <1>1, <1>3, <3>2
      <4>2. sum[i] = sum[i - 1] + w[i] /\ g[i - 1] = Honest(sum[i - 1])
        BY <1>2, <3>2, <4>1 DEF Summed
      <4> QED
        BY <3>2, <4>1, <4>2, WriteKeeps DEF Copied
    <3> QED
      BY <3>1, <3>2
  <2>2. g = [i \in 0..N |-> Copied(w, g, i)]
    BY <2>1
  <2> QED
    BY <2>2
<1> HIDE DEF copy
<1>6. \A n \in 0..N : copy[n] = Honest(sum[n])
  <2> DEFINE Bad == {n \in 0..N : copy[n] # Honest(sum[n])}
  <2> SUFFICES ASSUME Bad # {} PROVE FALSE
    OBVIOUS
  <2>1. PICK n \in Bad : \A m \in Bad : n <= m
    <3> Bad \in SUBSET Nat
      BY <1>1
    <3> HIDE DEF Bad
    <3> QED
      BY LeastNat
  <2>2. n \in 0..N /\ copy[n] # Honest(sum[n]) /\ copy[n] = Copied(w, copy, n) /\ sum[n] = Summed(w, sum, n)
    BY <1>2, <1>5
  <2>3. CASE n = 0
    BY <2>2, <2>3, HonestAtFirst DEF Summed, Copied
  <2>4. CASE n # 0
    <3>1. n - 1 \in 0..N /\ w[n] \in Nat /\ sum[n - 1] \in Nat
      BY <1>1, <1>3, <2>2, <2>4
    <3>2. copy[n - 1] = Honest(sum[n - 1])
      BY <2>1, <2>2, <2>4, <3>1, <1>1
    <3> QED
      BY <2>2, <2>4, <3>1, <3>2, WriteKeeps DEF Summed, Copied
  <2> QED
    BY <2>3, <2>4
<1> QED
  BY <1>1, <1>3, <1>4, <1>6

LEMMA Copies == CopyIsHonest
<1> SUFFICES ASSUME NEW n \in 1..MaxWrites, NEW writes \in [1..n -> 0..(MaxCopy + 1)]
             PROVE  /\ Copy(writes).overflow <=> Length(writes) > MaxCopy
                    /\ Copy(writes).len = (IF Length(writes) > MaxCopy THEN MaxCopy ELSE Length(writes))
                    /\ Marked(writes, {"node"}) <=> Length(writes) \in 1..MaxCopy
  BY DEF CopyIsHonest
<1>1. MaxCopy \in Nat /\ MaxWrites \in Nat /\ n \in Nat
  BY BudgetAssumption
<1>2. writes \in Seq(Nat)
  BY <1>1, FunctionIsSeq
<1>3. Length(writes) \in Nat /\ Copy(writes) = Honest(Length(writes))
  BY <1>2, CopiesAreHonest
<1>4. /\ Copy(writes).overflow = (Length(writes) > MaxCopy)
      /\ Copy(writes).len = (IF Length(writes) > MaxCopy THEN MaxCopy ELSE Length(writes))
  BY <1>3 DEF Honest
<1>5. Marked(writes, {"node"}) <=> ~Copy(writes).overflow /\ Copy(writes).len > 0
  BY DEF Marked
<1>6. Marked(writes, {"node"}) <=> Length(writes) \in 1..MaxCopy
  <2>1. CASE Length(writes) > MaxCopy
    <3>1. Copy(writes).overflow /\ ~Marked(writes, {"node"})
      BY <1>4, <1>5, <2>1, Zenon
    <3>2. Length(writes) \notin 1..MaxCopy
      BY <1>1, <1>3, <2>1
    <3> QED
      BY <3>1, <3>2
  <2>2. CASE ~(Length(writes) > MaxCopy)
    <3>1. Copy(writes).len = Length(writes) /\ ~Copy(writes).overflow
      BY <1>4, <2>2
    <3>2. Marked(writes, {"node"}) <=> Length(writes) > 0
      BY <1>5, <3>1
    <3> QED
      BY <1>1, <1>3, <2>2, <3>2
  <2> QED
    BY <2>1, <2>2
<1> QED
  BY <1>4, <1>6

-----------------------------------------------------------------------------
\* The process is gone before its grace period is over, and unless a second signal
\* ended it, the audit log has every mutation and the exporter every span of a handler
\* that returned, or the process warned of it; and a copy of a response says when
\* it is not the whole of it.
THEOREM NothingIsUnrecorded == ServerSpec => []NothingUnrecorded
<1>1. ServerInv => NothingUnrecorded
  <2> SUFFICES ASSUME ServerInv PROVE NothingUnrecorded
    OBVIOUS
  <2>1. signals > 0 /\ phase # "exited" => clock < killAt
    <3>1. /\ clock \in Nat /\ clock < Grace /\ Grace \in Nat /\ killAt \in Nat
          /\ signals > 0 => killAt >= Grace
      BY ClockBound, BudgetAssumption DEF ServerInv, ServerTypes, InTime
    <3> QED
      BY <3>1
  <2>2. ASSUME phase = "exited", exit = "exited", NEW m \in Mutations, mpc[m] # "idle"
        PROVE  "audit" \in lines[m] \/ m \in warned
    <3>1. m \in Requests
      BY DEF Requests
    <3>2. RunsInPhase(m) /\ RecordedInFull(m)
      BY <3>1 DEF ServerInv
    <3> QED
      BY <2>2, <3>2 DEF RunsInPhase, RecordedInFull
  <2>3. ASSUME phase = "exited", exit = "exited", NEW r \in Requests, handler[r] = "returned"
        PROVE  "span" \in lines[r] \/ r \in warned
    BY <2>3 DEF ServerInv, RecordedInFull
  <2> QED
    BY <2>1, <2>2, <2>3, Copies DEF NothingUnrecorded
<1> QED
  BY <1>1, ServerBegins, ServerStep, PTL DEF ServerSpec
=============================================================================
