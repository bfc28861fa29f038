------------------------- MODULE StorageHealthProofs --------------------------
(***************************************************************************)
(* What the dashboard and the maintenance page show as well has evidence,  *)
(* for any cluster and any number of tabs, of layout versions and of       *)
(* counter values.                                                         *)
(***************************************************************************)
EXTENDS Dashboard, FiniteSetTheorems, SequenceTheorems, WellFoundedInduction, TLAPS

-----------------------------------------------------------------------------
(* The merge *)

\* A fan-out all of whose calls have ended.
Ended(f) == \A s \in Sources : f.got[s] # {}

Fans == [got : [Sources -> SUBSET (Told \union {Failed})], sick : SUBSET Storage, cut : BOOLEAN]

\* The merge of a fan-out that is honest is an answer that is; one that was cut
\* tells so.
LEMMA MergeFacts ==
  ASSUME NEW f \in Fans, FanIsHonest(f), Ended(f)
  PROVE  /\ IsAnswer(Merged(f)) /\ Merged(f).cut = f.cut
         /\ ~f.cut => Honest(Merged(f))
<1> DEFINE got == [s \in Sources |-> CHOOSE a \in f.got[s] : TRUE]
           m == Merged(f)
<1>1. \A s \in Sources : got[s] \in f.got[s] /\ got[s] \in Told \union {Failed}
  BY DEF Fans, Ended
<1>2. {"stats", "vars", "workers"} = Sources
  BY DEF Sources
<1> DEFINE whole == got["stats"]
<1>3. whole \in f.got["stats"] /\ whole \in Told \union {Failed}
  BY <1>1, <1>2
<1>4. m = [nodes   |-> [n \in Listed(got) |-> Entry(got, n)],
           noStats |-> ~Whole(got["stats"]),
           noVars  |-> ~Whole(got["vars"]),
           sick    |-> f.sick, cut |-> f.cut]
  BY DEF Merged
<1> HIDE DEF got, m
<1>5. Listed(got) \subseteq Nodes
  BY DEF Listed
<1>6. ASSUME NEW n \in Nodes
      PROVE  /\ Entry(got, n) \in [errs : {"clean", "sick", "unknown"}, error : BOOLEAN]
             /\ Entry(got, n).errs = "clean" => n \notin f.sick
             /\ Entry(got, n).errs = "unknown" /\ Whole(whole) => Entry(got, n).error
  <2>1. Entry(got, n) \in [errs : {"clean", "sick", "unknown"}, error : BOOLEAN]
    <3>1. (\E s \in Sources : Troubled(got, s, n)) \in BOOLEAN
      OBVIOUS
    <3>2. (IF got["stats"][n] \in {"clean", "sick"} THEN got["stats"][n] ELSE "unknown") \in {"clean", "sick", "unknown"}
      OBVIOUS
    <3> QED
      BY <3>1, <3>2 DEF Entry
  <2>2. whole # Failed => /\ whole[n] \in {"clean", "sick", "error", "absent"}
                          /\ whole[n] = "clean" => n \notin f.sick
    BY <1>3 DEF FanIsHonest, Told
  <2>3. whole = Failed => whole[n] = "failed"
    BY DEF Failed
  <2>4. Entry(got, n).errs = IF whole[n] \in {"clean", "sick"} THEN whole[n] ELSE "unknown"
    BY DEF Entry
  <2>5. Entry(got, n).error = (\E s \in Sources : Troubled(got, s, n))
    BY DEF Entry
  <2>6. whole[n] \in {"error", "absent"} => Troubled(got, "stats", n)
    BY DEF Troubled, NotAnswered
  <2>7. whole[n] \in {"error", "absent"} => Entry(got, n).error
    BY <2>5, <2>6, <1>2
  <2> QED
    BY <2>1, <2>2, <2>3, <2>4, <2>7 DEF Whole
<1>7. /\ m.nodes = [n \in Listed(got) |-> Entry(got, n)] /\ m.noStats = ~Whole(whole)
      /\ m.noStats \in BOOLEAN /\ m.noVars \in BOOLEAN /\ m.sick = f.sick /\ m.cut = f.cut
  BY <1>4
<1>8. f.sick \subseteq Storage /\ f.cut \in BOOLEAN
  BY DEF Fans
<1>9. DOMAIN m.nodes = Listed(got) /\ \A n \in Listed(got) : m.nodes[n] = Entry(got, n)
  BY <1>7
<1>10. IsAnswer(m)
  BY <1>5, <1>6, <1>7, <1>8, <1>9 DEF IsAnswer
<1>11. ASSUME ~f.cut PROVE Honest(m)
  <2>1. ~m.cut
    BY <1>7, <1>11
  <2>2. ASSUME NEW n \in DOMAIN m.nodes
        PROVE  /\ m.nodes[n].errs = "clean" => n \notin m.sick
               /\ m.nodes[n].errs = "unknown" /\ ~m.noStats => m.nodes[n].error
    <3>1. n \in Nodes /\ m.nodes[n] = Entry(got, n)
      BY <1>5, <1>9
    <3>2. m.sick = f.sick /\ m.noStats = ~Whole(whole)
      BY <1>7
    <3> HIDE DEF whole
    <3> QED
      BY <1>6, <3>1, <3>2
  <2> QED
    BY <2>1, <2>2 DEF Honest
<1> QED
  BY <1>7, <1>10, <1>11 DEF m

-----------------------------------------------------------------------------
(* The fan-outs, the cache and the page *)

HealthAll == TypeOK /\ HealthInv

LEMMA HealthInit == Init => HealthAll
<1> SUFFICES ASSUME Init PROVE HealthAll
  OBVIOUS
<1>1. NoFan \in Fans /\ FanIsHonest(NoFan) /\ ~NoFan.cut /\ NoFan.sick = {}
  BY DEF NoFan, Fans, FanIsHonest, Sources
<1>2. FanTypes
  BY <1>1 DEF Init, FanTypes, Fans
<1>3. TypeOK
  <2>1. MaxChanges \in Nat
    BY StorageHealthAssumption
  <2>2. changes \in 0..MaxChanges
    <3>1. changes = 0
      BY DEF Init
    <3> QED
      BY <2>1, <3>1
  <2>5. err \in BOOLEAN
    BY Zenon DEF Init
  <2>3. sick \subseteq Storage /\ phase \in [Tabs -> Phases] /\ left \subseteq Tabs
    BY DEF Init, Phases
  <2>4. (\A a \in cache : IsAnswer(a)) /\ (\A a \in shown : IsAnswer(a))
    BY DEF Init
  <2> QED
    BY <2>2, <2>3, <2>4, <2>5 DEF TypeOK
<1> QED
  BY <1>1, <1>2, <1>3 DEF Init, HealthAll, HealthInv

\* What the tabs' handlers and the page must keep for the invariant to hold.
FanOf(t) ==
  /\ phase[t] # "fanning" => fan[t] = NoFan
  /\ fan[t].cut => t \in left
  /\ fan[t].sick \subseteq sick /\ FanIsHonest(fan[t])

Kept(S) == \A a \in S : IsAnswer(a) /\ Honest(a)

One(S) == \A a, b \in S : a = b

LEMMA FansEqual ==
  ASSUME NEW f \in Fans, NEW g \in Fans, f.got = g.got, f.sick = g.sick, f.cut = g.cut
  PROVE  f = g
BY DEF Fans

\* The fan-out f when only S of its nodes have been sick all along.
LEMMA FanWithSick ==
  ASSUME NEW f \in Fans, NEW S \in SUBSET Storage, NEW h, h = [f EXCEPT !.sick = S]
  PROVE  h \in Fans /\ h.got = f.got /\ h.cut = f.cut /\ h.sick = S
<1> DEFINE Gots == [Sources -> SUBSET (Told \union {Failed})]
<1>1. Fans = [got : Gots, sick : SUBSET Storage, cut : BOOLEAN]
  BY DEF Fans
<1> HIDE DEF Gots
<1> QED
  BY <1>1

\* The fan-out f with the answer X of source s, whoever is there to hear it.
With(f, s, X, c) == [got |-> [f.got EXCEPT ![s] = X], sick |-> f.sick, cut |-> c]

LEMMA FanWithAnswer ==
  ASSUME NEW f \in Fans, NEW s \in Sources, NEW X \in SUBSET (Told \union {Failed}), NEW c \in BOOLEAN
  PROVE  /\ With(f, s, X, c) \in Fans
         /\ With(f, s, X, c).sick = f.sick /\ With(f, s, X, c).cut = c
         /\ With(f, s, X, c).got[s] = X
         /\ \A r \in Sources \ {s} : With(f, s, X, c).got[r] = f.got[r]
<1> DEFINE Gots == [Sources -> SUBSET (Told \union {Failed})]
           G == [f.got EXCEPT ![s] = X]
<1>1. Fans = [got : Gots, sick : SUBSET Storage, cut : BOOLEAN]
  BY DEF Fans
<1>2. f.got \in Gots
  BY <1>1
<1>3. G \in Gots /\ G[s] = X /\ \A r \in Sources \ {s} : G[r] = f.got[r]
  BY <1>2
<1>4. With(f, s, X, c) = [got |-> G, sick |-> f.sick, cut |-> c]
  BY DEF With
<1> HIDE DEF Gots, G
<1>5. /\ With(f, s, X, c) \in Fans /\ With(f, s, X, c).sick = f.sick
      /\ With(f, s, X, c).cut = c /\ With(f, s, X, c).got = G
  BY <1>1, <1>3, <1>4
<1> QED
  BY <1>3, <1>5

LEMMA WithKeepsCut ==
  ASSUME NEW f \in Fans, NEW s, NEW X
  PROVE  [f EXCEPT !.got[s] = X] = With(f, s, X, f.cut)
<1> DEFINE G == [f.got EXCEPT ![s] = X]
<1>1. [f EXCEPT !.got[s] = X] = [f EXCEPT !.got = G]
  OBVIOUS
<1> HIDE DEF G
<1>2. [f EXCEPT !.got = G] = [got |-> G, sick |-> f.sick, cut |-> f.cut]
  BY DEF Fans
<1> QED
  BY <1>1, <1>2 DEF With, G

LEMMA HealthFacts ==
  ASSUME HealthAll
  PROVE  /\ fan \in [Tabs -> Fans] /\ \A t \in Tabs : fan[t] \in Fans /\ FanOf(t)
         /\ Kept(cache) /\ Kept(shown)
         /\ sick \subseteq Storage /\ changes \in 0..MaxChanges
         /\ phase \in [Tabs -> Phases] /\ left \subseteq Tabs /\ err \in BOOLEAN
BY DEF HealthAll, TypeOK, HealthInv, FanTypes, Fans, FanOf, Kept

LEMMA AnotherSick ==
  ASSUME HealthAll, NEW n \in Storage, Sickens(n) \/ Recovers(n)
  PROVE  HealthAll'
<1>0. /\ fan \in [Tabs -> Fans] /\ \A t \in Tabs : fan[t] \in Fans /\ FanOf(t)
      /\ sick \subseteq Storage
  BY HealthFacts
<1>1. CASE Sickens(n)
  <2>1. sick' \subseteq Storage /\ sick \subseteq sick'
    BY <1>0, <1>1 DEF Sickens
  <2>2. changes' \in 0..MaxChanges
    BY <1>1, StorageHealthAssumption DEF Sickens, HealthAll, TypeOK
  <2> QED
    BY <1>1, <2>1, <2>2 DEF Sickens, HealthAll, TypeOK, HealthInv, FanTypes, server, page
<1>2. CASE Recovers(n)
  <2>1. sick' = sick \ {n} /\ UNCHANGED <<phase, left, cache, page>>
    BY <1>2 DEF Recovers
  <2>2. changes' \in 0..MaxChanges
    BY <1>2, StorageHealthAssumption DEF Recovers, HealthAll, TypeOK
  <2>4. \A t \in Tabs : fan'[t] = [fan[t] EXCEPT !.sick = fan[t].sick \ {n}]
    BY <1>2 DEF Recovers
  <2>5. ASSUME NEW t \in Tabs
        PROVE  /\ fan'[t] \in Fans /\ fan'[t].got = fan[t].got /\ fan'[t].cut = fan[t].cut
               /\ fan'[t].sick = fan[t].sick \ {n}
    <3> DEFINE S == fan[t].sick \ {n}
    <3>0. fan[t] \in Fans
      BY <1>0
    <3>1. S \in SUBSET Storage
      BY <3>0 DEF Fans
    <3>2. fan'[t] = [fan[t] EXCEPT !.sick = S]
      BY <2>4
    <3> HIDE DEF S
    <3>3. /\ fan'[t] \in Fans /\ fan'[t].got = fan[t].got /\ fan'[t].cut = fan[t].cut
          /\ fan'[t].sick = S
      BY <3>0, <3>1, <3>2, FanWithSick
    <3> QED
      BY <3>3 DEF S
  <2>6. fan' \in [Tabs -> Fans]
    BY <1>2, <2>5 DEF Recovers
  <2>7. ASSUME NEW t \in Tabs PROVE FanIsHonest(fan'[t])
    <3>1. FanIsHonest(fan[t])
      BY <1>0 DEF FanOf
    <3> QED
      BY <2>5, <3>1 DEF FanIsHonest
  <2>8. ASSUME NEW t \in Tabs, phase[t] # "fanning" PROVE fan'[t] = NoFan
    <3>1. fan[t] = NoFan
      BY <1>0, <2>8 DEF FanOf
    <3>2. NoFan \in Fans /\ NoFan.sick = {}
      BY DEF NoFan, Fans, Sources
    <3>3. fan'[t] \in Fans /\ fan'[t].got = NoFan.got /\ fan'[t].cut = NoFan.cut /\ fan'[t].sick = NoFan.sick
      BY <2>5, <3>1, <3>2
    <3> QED
      BY <3>2, <3>3, FansEqual
  <2>9. ASSUME NEW t \in Tabs PROVE FanOf(t)'
    <3>1. fan'[t].sick \subseteq sick' /\ (fan'[t].cut => t \in left')
      BY <1>0, <2>1, <2>5 DEF FanOf
    <3> QED
      BY <2>1, <2>7, <2>8, <3>1 DEF FanOf
  <2> QED
    BY <1>0, <2>1, <2>2, <2>6, <2>9 DEF HealthAll, TypeOK, HealthInv, FanTypes, Fans, FanOf, page
<1> QED
  BY <1>1, <1>2

\* A step of one fan-out.
LEMMA FanStep ==
  ASSUME HealthAll, NEW t \in Tabs, NEW f \in Fans,
         fan' = [fan EXCEPT ![t] = f], FanIsHonest(f), f.sick \subseteq sick, f.cut => t \in left,
         UNCHANGED <<cluster, left, cache, page>>,
         phase' = [phase EXCEPT ![t] = "fanning"]
  PROVE  HealthAll'
<1>0. /\ fan \in [Tabs -> Fans] /\ \A u \in Tabs : FanOf(u)
      /\ phase \in [Tabs -> Phases]
  BY HealthFacts
<1>1. fan' \in [Tabs -> Fans] /\ phase' \in [Tabs -> Phases]
  BY <1>0 DEF Phases
<1>2. ASSUME NEW u \in Tabs PROVE FanOf(u)'
  <2>1. CASE u = t
    <3>1. fan'[u] = f /\ phase'[u] = "fanning" /\ sick' = sick /\ left' = left
      BY <1>0, <2>1 DEF cluster
    <3> QED
      BY <2>1, <3>1 DEF FanOf
  <2>2. CASE u # t
    <3>1. fan'[u] = fan[u] /\ phase'[u] = phase[u] /\ sick' = sick /\ left' = left
      BY <1>0, <2>2 DEF cluster
    <3> QED
      BY <1>0, <3>1 DEF FanOf
  <2> QED
    BY <2>1, <2>2
<1> QED
  BY <1>1, <1>2 DEF cluster, page, HealthAll, TypeOK, HealthInv, FanTypes, Fans, FanOf

LEMMA FansOutStep ==
  ASSUME HealthAll, NEW t \in Tabs, FansOut(t)
  PROVE  HealthAll'
<1>1. sick \subseteq Storage
  BY HealthFacts
<1>2. NewFan \in Fans /\ FanIsHonest(NewFan) /\ NewFan.sick = sick /\ ~NewFan.cut
  BY <1>1 DEF NewFan, NoFan, Fans, FanIsHonest, Sources
<1> QED
  BY <1>2, FanStep DEF FansOut

\* What Garage answers for a source: what each node does of what it may.
LEMMA GarageStep ==
  ASSUME HealthAll, NEW t \in Tabs, NEW s \in Sources, GarageAnswers(t, s) \/ CallFails(t, s)
  PROVE  HealthAll'
<1>0. /\ fan \in [Tabs -> Fans] /\ fan[t] \in Fans /\ FanOf(t)
      /\ phase \in [Tabs -> Phases]
  BY HealthFacts
<1>1. phase[t] = "fanning" /\ phase' = phase /\ UNCHANGED <<cluster, left, cache, page>>
  BY DEF GarageAnswers, CallFails, Open
<1>2. phase' = [phase EXCEPT ![t] = "fanning"]
  BY <1>0, <1>1
<1>3. CASE GarageAnswers(t, s)
  <2>1. PICK parts \in [Nodes -> Parts] :
          fan' = [fan EXCEPT ![t].got[s] = {[n \in Nodes |-> Answer(s, n, parts[n])]}]
    BY <1>3 DEF GarageAnswers
  <2> DEFINE a == [n \in Nodes |-> Answer(s, n, parts[n])]
             f == With(fan[t], s, {a}, fan[t].cut)
  <2>2. a \in Told /\ (s = "stats" => \A n \in Nodes : a[n] # "read" /\ (a[n] = "clean" => n \notin sick))
    BY DEF Answer, Told, Parts
  <2>3. fan[t].cut \in BOOLEAN
    BY <1>0 DEF Fans
  <2> HIDE DEF a
  <2>4. {a} \in SUBSET (Told \union {Failed})
    BY <2>2
  <2>5. /\ f \in Fans /\ f.sick = fan[t].sick /\ f.cut = fan[t].cut
        /\ f.got[s] = {a} /\ \A r \in Sources \ {s} : f.got[r] = fan[t].got[r]
    BY <1>0, <2>3, <2>4, FanWithAnswer
  <2>9. [fan[t] EXCEPT !.got[s] = {a}] = f
    BY <1>0, WithKeepsCut, Zenon
  <2> HIDE DEF f
  <2>8. fan' = [fan EXCEPT ![t] = f]
    BY <2>1, <2>9 DEF a
  <2>6. FanIsHonest(f)
    <3>1. FanIsHonest(fan[t]) /\ fan[t].sick \subseteq sick
      BY <1>0 DEF FanOf
    <3>2. \A r \in Sources : \A x, y \in f.got[r] : x = y
      BY <2>5, <3>1 DEF FanIsHonest
    <3>3. \A x \in f.got["stats"] \ {Failed} : \A n \in Nodes :
            x[n] # "read" /\ (x[n] = "clean" => n \notin f.sick)
      <4>1. CASE s = "stats"
        BY <2>2, <2>5, <3>1, <4>1
      <4>2. CASE s # "stats"
        BY <2>5, <3>1, <4>2 DEF FanIsHonest, Sources
      <4> QED
        BY <4>1, <4>2
    <3> QED
      BY <3>2, <3>3 DEF FanIsHonest
  <2>7. f.sick \subseteq sick /\ (f.cut => t \in left)
    BY <1>0, <2>5 DEF FanOf
  <2> QED
    BY <1>1, <1>2, <2>5, <2>6, <2>7, <2>8, FanStep
<1>4. CASE CallFails(t, s)
  <2> DEFINE c == fan[t].cut \/ t \in left
             f == With(fan[t], s, {Failed}, c)
  <2>1. c \in BOOLEAN
    BY Zenon
  <2>2. fan' = [fan EXCEPT ![t] = [fan[t] EXCEPT !.got[s] = {Failed}, !.cut = c]]
    BY <1>0, <1>4 DEF CallFails
  <2>3. c => t \in left
    BY <1>0 DEF FanOf
  <2> HIDE DEF c
  <2>4. {Failed} \in SUBSET (Told \union {Failed})
    OBVIOUS
  <2>5. /\ f \in Fans /\ f.sick = fan[t].sick /\ f.cut = c
        /\ f.got[s] = {Failed} /\ \A r \in Sources \ {s} : f.got[r] = fan[t].got[r]
    BY <1>0, <2>1, <2>4, FanWithAnswer
  <2>9. [fan[t] EXCEPT !.got[s] = {Failed}, !.cut = c] = f
    <3> DEFINE g == With(fan[t], s, {Failed}, fan[t].cut)
    <3>1. [fan[t] EXCEPT !.got[s] = {Failed}] = g
      BY <1>0, WithKeepsCut, Zenon
    <3>2. [fan[t] EXCEPT !.got[s] = {Failed}, !.cut = c] = [[fan[t] EXCEPT !.got[s] = {Failed}] EXCEPT !.cut = c]
      OBVIOUS
    <3>3. [g EXCEPT !.cut = c] = With(fan[t], s, {Failed}, c)
      BY DEF With
    <3> QED
      BY <3>1, <3>2, <3>3
  <2> HIDE DEF f
  <2>8. fan' = [fan EXCEPT ![t] = f]
    BY <2>2, <2>9
  <2>6. FanIsHonest(f)
    <3>1. FanIsHonest(fan[t]) /\ fan[t].sick \subseteq sick
      BY <1>0 DEF FanOf
    <3>2. \A r \in Sources : \A x, y \in f.got[r] : x = y
      BY <2>5, <3>1 DEF FanIsHonest
    <3>3. \A x \in f.got["stats"] \ {Failed} : \A n \in Nodes :
            x[n] # "read" /\ (x[n] = "clean" => n \notin f.sick)
      <4>1. CASE s = "stats"
        BY <2>5, <4>1
      <4>2. CASE s # "stats"
        BY <2>5, <3>1, <4>2 DEF FanIsHonest, Sources
      <4> QED
        BY <4>1, <4>2
    <3> QED
      BY <3>2, <3>3 DEF FanIsHonest
  <2>7. f.sick \subseteq sick /\ (f.cut => t \in left)
    BY <1>0, <2>3, <2>5 DEF FanOf
  <2> QED
    BY <1>1, <1>2, <2>5, <2>6, <2>7, <2>8, FanStep
<1> QED
  BY <1>3, <1>4

LEMMA SmallSteps ==
  ASSUME HealthAll, NEW t \in Tabs, Ask(t) \/ Leave(t) \/ Expires \/ UNCHANGED vars
  PROVE  HealthAll'
<1> USE DEF HealthAll, TypeOK, HealthInv, FanTypes, cluster, page
<1>1. CASE Ask(t)
  BY <1>1 DEF Ask, Phases
<1>2. CASE Leave(t)
  <2>1. err' \in BOOLEAN
    BY <1>2, Zenon DEF Leave
  <2>2. Kept(shown)' /\ One(shown)'
    BY <1>2 DEF Leave, Kept, One
  <2> QED
    BY <1>2, <2>1, <2>2 DEF Leave, Kept, One
<1>3. CASE Expires
  BY <1>3 DEF Expires
<1>4. CASE UNCHANGED vars
  BY <1>4 DEF vars
<1> QED
  BY <1>1, <1>2, <1>3, <1>4

\* An answer that is delivered comes from the cache, or from a fan-out that
\* was cut only when its client is gone.
LEMMA DeliveryStep ==
  ASSUME HealthAll, NEW t \in Tabs, NEW a, IsAnswer(a), t \notin left => Honest(a), Delivered(t, a)
  PROVE  /\ phase' = [phase EXCEPT ![t] = "idle"] /\ left' = left \ {t}
         /\ Kept(shown)' /\ One(shown)' /\ err' \in BOOLEAN
BY DEF HealthAll, HealthInv, TypeOK, Delivered, Kept, One, page

LEMMA HitStep ==
  ASSUME HealthAll, NEW t \in Tabs, Hits(t)
  PROVE  HealthAll'
<1>1. PICK a \in cache : Delivered(t, a)
  BY DEF Hits
<1>2. IsAnswer(a) /\ Honest(a)
  BY DEF HealthAll, TypeOK, HealthInv
<1>3. /\ phase' = [phase EXCEPT ![t] = "idle"] /\ left' = left \ {t}
      /\ Kept(shown)' /\ One(shown)' /\ err' \in BOOLEAN
  BY <1>1, <1>2, DeliveryStep
<1>4. fan[t] = NoFan /\ ~NoFan.cut
  BY DEF Hits, HealthAll, HealthInv, NoFan
<1> QED
  BY <1>3, <1>4 DEF Hits, cluster, HealthAll, TypeOK, HealthInv, FanTypes, Phases, Kept, One

LEMMA ReturnStep ==
  ASSUME HealthAll, NEW t \in Tabs, Return(t)
  PROVE  HealthAll'
<1> DEFINE a == Merged(fan[t])
<1>1. fan[t] \in Fans /\ FanIsHonest(fan[t]) /\ Ended(fan[t]) /\ (fan[t].cut => t \in left)
  BY DEF Return, HealthAll, HealthInv, FanTypes, Fans, Ended
<1>2. IsAnswer(a) /\ (t \notin left => Honest(a))
  <2>1. fan[t].cut \in BOOLEAN
    BY <1>1 DEF Fans
  <2> QED
    BY <1>1, <2>1, MergeFacts
<1>3. cache' = Put(t, a) /\ Delivered(t, a) /\ fan' = [fan EXCEPT ![t] = NoFan] /\ UNCHANGED cluster
  BY DEF Return
<1> HIDE DEF a
<1>4. /\ phase' = [phase EXCEPT ![t] = "idle"] /\ left' = left \ {t}
      /\ Kept(shown)' /\ One(shown)' /\ err' \in BOOLEAN
  BY <1>2, <1>3, DeliveryStep
<1>5. Kept(cache)'
  BY <1>2, <1>3 DEF Put, Kept, HealthAll, TypeOK, HealthInv
<1>6. NoFan \in Fans /\ FanIsHonest(NoFan) /\ ~NoFan.cut /\ NoFan.sick = {}
  BY DEF NoFan, Fans, FanIsHonest, Sources
<1>7. fan' \in [Tabs -> Fans]
  BY <1>3, <1>6 DEF HealthAll, HealthInv, FanTypes, Fans
<1>8. ASSUME NEW u \in Tabs PROVE FanOf(u)'
  <2>1. CASE u = t
    BY <1>3, <1>6, <2>1 DEF FanOf, HealthAll, HealthInv, FanTypes
  <2>2. CASE u # t
    <3>1. fan'[u] = fan[u] /\ phase'[u] = phase[u] /\ (u \in left => u \in left') /\ sick' = sick
      BY <1>3, <1>4, <2>2 DEF cluster, HealthAll, HealthInv, FanTypes, TypeOK
    <3> QED
      BY <3>1 DEF FanOf, HealthAll, HealthInv
  <2> QED
    BY <2>1, <2>2
<1> QED
  BY <1>3, <1>4, <1>5, <1>7, <1>8 DEF cluster, HealthAll, TypeOK, HealthInv, FanTypes, Fans, FanOf, Phases, Kept, One

\* Every step of the nodes, the handlers, the cache and the page keeps the
\* fan-outs honest and the answers that are kept or shown.
THEOREM Health == Spec => []HealthAll
<1>1. Init => HealthAll
  BY HealthInit
<1>2. ASSUME HealthAll, [Next]_vars PROVE HealthAll'
  <2>0. Here \in Tabs
    BY StorageHealthAssumption
  <2>1. CASE \E n \in Storage : Sickens(n) \/ Recovers(n)
    BY <1>2, <2>1, AnotherSick
  <2>2. CASE Expires \/ UNCHANGED vars
    BY <1>2, <2>0, <2>2, SmallSteps
  <2>3. ASSUME NEW t \in Tabs, Ask(t) \/ Leave(t) PROVE HealthAll'
    BY <1>2, <2>3, SmallSteps
  <2>4. ASSUME NEW t \in Tabs, Hits(t) PROVE HealthAll'
    BY <1>2, <2>4, HitStep
  <2>5. ASSUME NEW t \in Tabs, FansOut(t) PROVE HealthAll'
    BY <1>2, <2>5, FansOutStep
  <2>6. ASSUME NEW t \in Tabs, Return(t) PROVE HealthAll'
    BY <1>2, <2>6, ReturnStep
  <2>7. ASSUME NEW t \in Tabs, NEW s \in Sources, GarageAnswers(t, s) \/ CallFails(t, s) PROVE HealthAll'
    BY <1>2, <2>7, GarageStep
  <2> QED
    BY <1>2, <2>1, <2>2, <2>3, <2>4, <2>5, <2>6, <2>7 DEF Next
<1> QED
  BY <1>1, <1>2, PTL DEF Spec

\* The state of the storage health has its types.
THEOREM TypeCorrect == Spec => []TypeOK
<1>1. HealthAll => TypeOK
  BY DEF HealthAll
<1> QED
  BY <1>1, Health, PTL

\* No page is ever answered with the cancellations of another's client.
THEOREM NoForeignCancellation == Spec => []NoCancellationShared
<1>1. HealthAll => NoCancellationShared
  BY DEF HealthAll, HealthInv, Honest, NoCancellationShared
<1> QED
  BY <1>1, Health, PTL

-----------------------------------------------------------------------------
(* The maintenance page *)

LEMMA OkEvidence ==
  ASSUME NEW ill \in SUBSET Storage, NEW known \in BOOLEAN,
         NEW parts \in [Nodes -> Parts \union {"unreadable"}],
         \A n \in Nodes \ ill : parts[n] # "unreadable",
         VerdictOk(BlockAnswer(parts, ill), known)
  PROVE  /\ \A n \in ill : parts[n] = "absent"
         /\ \E n \in Nodes : parts[n] = "read" /\ (known => n \in Storage)
         /\ \A a \in shown : \A n \in DOMAIN a.nodes \intersect Storage : a.nodes[n].errs # "unknown"
<1> DEFINE b == BlockAnswer(parts, ill)
<1>1. /\ b.items = (\E n \in ill : parts[n] = "read")
      /\ b.checked = {n \in Nodes : parts[n] = "read"}
      /\ b.errors = {n \in Nodes : parts[n] # "absent" /\ parts[n] # "read"}
  BY DEF BlockAnswer, Checked
<1>2. /\ ~b.items /\ b.checked \ Skip(known) # {} /\ b.errors \ Skip(known) = {}
      /\ \A a \in shown :
           LET told == {n \in DOMAIN a.nodes : a.nodes[n].errs # "unknown"}
           IN  (DOMAIN a.nodes \ told) \ Skip(known) = {}
  BY DEF VerdictOk, Observed
<1> HIDE DEF b
<1>3. Skip(known) \intersect Storage = {} /\ (known => Skip(known) = Nodes \ Storage)
  BY DEF Skip
<1>4. ill \subseteq Nodes /\ Storage \subseteq Nodes
  BY StorageHealthAssumption
<1>5. ASSUME NEW n \in ill PROVE parts[n] = "absent"
  BY <1>1, <1>2, <1>3, <1>4
<1>6. \E n \in Nodes : parts[n] = "read" /\ (known => n \in Storage)
  BY <1>1, <1>2, <1>3
<1>7. ASSUME NEW a \in shown, NEW n \in DOMAIN a.nodes \intersect Storage PROVE a.nodes[n].errs # "unknown"
  BY <1>2, <1>3
<1> QED
  BY <1>5, <1>6, <1>7

LEMMA ToneEvidence ==
  ASSUME TypeOK, NEW known \in BOOLEAN, NEW a \in shown, ResyncErrorsTone(a, known) = "neutral"
  PROVE  /\ ~err
         /\ \E n \in DOMAIN a.nodes : a.nodes[n].errs = "clean"
         /\ \A n \in DOMAIN a.nodes \intersect Storage : a.nodes[n].errs = "clean"
<1> DEFINE s == Summary(a, known)
           nodes == DOMAIN a.nodes \ Skip(known)
<1>1. ~err /\ MetricTone(s) = "neutral"
  BY DEF ResyncErrorsTone
<1>2. s.perNode # {} /\ ~s.positive /\ s.missing = {}
  BY <1>1 DEF MetricTone
<1>3. /\ s.perNode = {n \in nodes : a.nodes[n].errs # "unknown"}
      /\ s.missing = {n \in nodes : a.nodes[n].errs = "unknown"}
      /\ s.positive = (\E n \in nodes : a.nodes[n].errs = "sick")
  BY DEF Summary
<1> HIDE DEF s
<1>4. \A n \in DOMAIN a.nodes : a.nodes[n].errs \in {"clean", "sick", "unknown"}
  BY DEF TypeOK, IsAnswer
<1>5. Skip(known) \intersect Storage = {}
  BY DEF Skip
<1> QED
  BY <1>1, <1>2, <1>3, <1>4, <1>5

LEMMA BlockToneEvidence ==
  ASSUME NEW ill \in SUBSET Storage, NEW known \in BOOLEAN, NEW parts \in [Nodes -> Parts],
         BlockErrorsTone(BlockAnswer(parts, ill), known) = "neutral"
  PROVE  /\ \A n \in ill : parts[n] = "absent"
         /\ \E n \in Nodes : parts[n] = "read"
<1> DEFINE b == BlockAnswer(parts, ill)
<1>1. /\ b.items = (\E n \in ill : parts[n] = "read")
      /\ b.checked = {n \in Nodes : parts[n] = "read"}
      /\ b.errors = {n \in Nodes : parts[n] # "absent" /\ parts[n] # "read"}
  BY DEF BlockAnswer, Checked
<1>2. ~b.items /\ b.checked \ Skip(known) # {} /\ b.errors \ Skip(known) = {}
  BY DEF BlockErrorsTone
<1> HIDE DEF b
<1>3. Skip(known) \intersect Storage = {} /\ ill \subseteq Nodes
  BY StorageHealthAssumption DEF Skip
<1> QED
  BY <1>1, <1>2, <1>3

\* What the maintenance page shows as well has evidence: the recommendation, and
\* the figures in their neutral colour.
THEOREM MaintenanceEvidenced == Spec => []MaintenanceIsEvidenced
<1>1. OkIsEvidenced
  BY OkEvidence DEF OkIsEvidenced
<1>2. TypeOK => MaintenanceIsEvidenced
  BY <1>1, ToneEvidence, BlockToneEvidence DEF MaintenanceIsEvidenced
<1> QED
  BY <1>2, TypeCorrect, PTL

-----------------------------------------------------------------------------
(* The attention panel *)

\* What an answer that is shown tells of a node.
LEMMA ShownFacts ==
  ASSUME HealthAll, NEW a \in shown, NEW n \in DOMAIN a.nodes
  PROVE  /\ a.nodes[n].errs \in {"clean", "sick", "unknown"}
         /\ a.nodes[n].errs = "clean" => n \notin a.sick
         /\ a.nodes[n].errs = "unknown" /\ ~a.noStats => a.nodes[n].error
<1>1. IsAnswer(a) /\ Honest(a)
  BY HealthFacts DEF Kept
<1> QED
  BY <1>1 DEF IsAnswer, Honest

LEMMA PanelEvidence ==
  ASSUME HealthAll, NEW live \in SUBSET Nodes, PanelClear({live}), NEW a \in shown
  PROVE  DOMAIN a.nodes \intersect Storage \intersect live \intersect a.sick = {}
<1> SUFFICES ASSUME NEW n \in DOMAIN a.nodes, n \in Storage, n \in live, n \in a.sick PROVE FALSE
  OBVIOUS
<1>1. ~err /\ ~PanelItems({live}) /\ ~PanelUnknown({live})
  BY DEF PanelClear, PanelUnknown
<1>2. Take(err, shown) = shown
  BY <1>1 DEF Take
<1>3. a.nodes[n].errs # "sick"
  BY <1>1, <1>2 DEF PanelItems
<1>4. ~a.noStats /\ ~(Relevant({live}, n) /\ a.nodes[n].error)
  BY <1>1, <1>2 DEF PanelUnknown
<1>5. Relevant({live}, n)
  BY DEF Relevant
<1> QED
  BY <1>3, <1>4, <1>5, ShownFacts

LEMMA CardEvidence ==
  ASSUME HealthAll, NEW live \in SUBSET Nodes, NEW n \in QuietCards(live), NEW a \in shown
  PROVE  n \in DOMAIN a.nodes /\ n \notin a.sick
<1>1. PICK b \in shown : ~CardAlert(b, n, live) /\ ~NodeHealthError(b, n)
  BY DEF QuietCards
<1>2. b = a
  BY DEF HealthAll, HealthInv
<1>3. n \in DOMAIN a.nodes /\ a.nodes[n].errs # "sick" /\ ~a.noStats /\ ~a.nodes[n].error
  BY <1>1, <1>2 DEF CardAlert, NodeHealthError
<1> QED
  BY <1>3, ShownFacts

LEMMA JudgedQuiet ==
  ASSUME NEW r, NEW says, Quiet(Judged(r, says))
  PROVE  ~r.isError /\ r.data # {} /\ UNION says = {}
<1>1. ~r.isError
  BY DEF Judged, Quiet
<1>2. r.data # {}
  BY <1>1 DEF Judged, Quiet
<1> QED
  BY <1>1, <1>2 DEF Judged, Quiet

LEMMA ResultFacts ==
  ASSUME NEW S, NEW r \in Results(S), r.data # {}
  PROVE  \E a \in S : r.data = {a}
BY DEF Results

LEMMA ClusterSources ==
  ASSUME NEW health \in Results(HealthStates), NEW layout \in Results(Staged),
         Quiet(Judged(health, {HealthSays(a) : a \in health.data}) \union
               Judged(layout, {LayoutSays(a) : a \in layout.data}))
  PROVE  health.data = {"healthy"} /\ layout.data = {[changes |-> FALSE, parameters |-> FALSE]}
<1>1. /\ Quiet(Judged(health, {HealthSays(a) : a \in health.data}))
      /\ Quiet(Judged(layout, {LayoutSays(a) : a \in layout.data}))
  BY DEF Quiet
<1>2. PICK h \in HealthStates : health.data = {h}
  BY <1>1, JudgedQuiet, ResultFacts
<1>3. PICK l \in Staged : layout.data = {l}
  BY <1>1, JudgedQuiet, ResultFacts
<1>4. HealthSays(h) = {}
  BY <1>1, <1>2, JudgedQuiet
<1>5. LayoutSays(l) = {}
  BY <1>1, <1>3, JudgedQuiet
<1>6. h = "healthy"
  BY <1>4 DEF HealthSays, Whenever
<1>7. l.changes = FALSE /\ l.parameters = FALSE
  BY <1>3, <1>5 DEF LayoutSays, Whenever, Staged
<1>8. l = [changes |-> FALSE, parameters |-> FALSE]
  BY <1>3, <1>7 DEF Staged
<1> QED
  BY <1>2, <1>3, <1>6, <1>8

LEMMA TokenSource ==
  ASSUME NEW tokens \in Results([Things -> Expiries]),
         Quiet(Judged(tokens, {TokensSay(a) : a \in tokens.data})),
         NEW a \in tokens.data, NEW t \in Things
  PROVE  ~a[t].expired /\ a[t].at \in {"later", "never"}
<1>1. TokensSay(a) = {}
  BY JudgedQuiet
<1>2. a \in [Things -> Expiries]
  BY DEF Results
<1>3. ~NeedsAttention(a[t])
  BY <1>1 DEF TokensSay, Whenever
<1> QED
  BY <1>2, <1>3 DEF NeedsAttention, Expiries, Times

LEMMA KeySource ==
  ASSUME NEW e \in [Things -> Expiries], NEW keys \in Results(KeyLists(e)),
         Quiet(Judged(keys, {KeysSay(a) : a \in keys.data})), NEW k \in Things
  PROVE  e[k].at \notin {"past", "thisWeek"}
<1>1. PICK a \in KeyLists(e) : keys.data = {a}
  BY JudgedQuiet, ResultFacts
<1>2. KeysSay(a) = {}
  BY <1>1, JudgedQuiet
<1>3. PICK listed \in SUBSET Things : a = [truncated |-> listed # Things, listed |-> listed, expiry |-> e]
  BY DEF KeyLists
<1>4. a.listed = listed /\ a.expiry = e /\ a.truncated = (listed # Things)
  BY <1>3
<1>5. ~a.truncated /\ ~\E i \in a.listed : NeedsAttention(a.expiry[i])
  BY <1>2 DEF KeysSay, Whenever
<1> QED
  BY <1>4, <1>5 DEF NeedsAttention

LEMMA BucketSource ==
  ASSUME NEW w \in Worlds, NEW buckets \in Results(BucketLists(w)), NEW conn \in Results(BOOLEAN),
         Quiet(SourcesSay(buckets, conn))
  PROVE  w.many = {} /\ (conn.data = {TRUE} => w.granted = Things)
<1> DEFINE key == ~conn.isError /\ conn.data = {TRUE}
<1>1. /\ Quiet(Judged(conn, {}))
      /\ Quiet(Judged(buckets, {BucketsSay(a, key) : a \in buckets.data}))
  BY DEF Quiet, SourcesSay
<1>2. ~conn.isError
  BY <1>1, JudgedQuiet
<1>3. key = (conn.data = {TRUE})
  BY <1>2
<1> HIDE DEF key
<1>4. PICK a \in BucketLists(w) : buckets.data = {a}
  BY <1>1, JudgedQuiet, ResultFacts
<1>5. BucketsSay(a, key) = {}
  BY <1>1, <1>4, JudgedQuiet
<1>6. PICK listed \in SUBSET Things :
        \E counted, permitted \in SUBSET listed : a = BucketRow(w, listed, counted, permitted)
  BY DEF BucketLists
<1>6a. PICK counted \in SUBSET listed, permitted \in SUBSET Things :
         permitted \subseteq listed /\ a = BucketRow(w, listed, counted, permitted)
  BY <1>6
<1>7. /\ a.truncated = (listed # Things) /\ a.listed = listed /\ a.counted = counted
      /\ a.permitted = permitted /\ a.manyUploads = counted \intersect w.many
      /\ a.notGranted = permitted \ w.granted
  BY <1>6a DEF BucketRow
<1>8. /\ ~a.truncated /\ \A b \in a.listed : b \in a.counted /\ (key => b \in a.permitted)
      /\ a.manyUploads = {} /\ (key => a.notGranted = {})
  BY <1>5 DEF BucketsSay, Whenever
<1>9. w.many \subseteq Things /\ w.granted \subseteq Things
  BY DEF Worlds
<1>10. w.many = {}
  BY <1>7, <1>8, <1>9
<1>11. key => w.granted = Things
  BY <1>7, <1>8, <1>9
<1> QED
  BY <1>3, <1>10, <1>11

LEMMA OtherSources == OtherSourcesEvidenced
BY ClusterSources, TokenSource, KeySource, BucketSource DEF OtherSourcesEvidenced

-----------------------------------------------------------------------------
(* The rises of a counter *)

\* Every set of natural numbers has a least element: an interval from 0 is
\* smaller than another when its end is.
LEMMA LeastNat ==
  ASSUME NEW S \in SUBSET Nat, S # {}
  PROVE  \E n \in S : \A m \in S : n <= m
<1> DEFINE F == {0..n : n \in S}
<1>1. F \subseteq FiniteSubsetsOf(Nat)
  <2>1. ASSUME NEW n \in S PROVE 0..n \in FiniteSubsetsOf(Nat)
    BY FS_Interval DEF FiniteSubsetsOf
  <2> QED
    BY <2>1
<1>2. IsWellFoundedOn(StrictSubsetOrdering(Nat), FiniteSubsetsOf(Nat))
  BY FS_StrictSubsetOrderingWellFounded
<1>3. F # {}
  OBVIOUS
<1>4. PICK x \in F : \A y \in F : ~(<<y, x>> \in StrictSubsetOrdering(Nat))
  <2> HIDE DEF F
  <2> QED BY <1>1, <1>2, <1>3, WFMin
<1>5. PICK n \in S : x = 0..n
  OBVIOUS
<1>6. ASSUME NEW m \in S, ~(n <= m) PROVE FALSE
  <2>1. 0..m \in F /\ 0..m \subseteq 0..n /\ 0..m # 0..n /\ 0..m \subseteq Nat /\ 0..n \subseteq Nat
    BY <1>6
  <2> QED
    BY <2>1, <1>4, <1>5 DEF StrictSubsetOrdering
<1> QED
  BY <1>6

\* What one answer of a node tells of its counter.
Values == {{}} \union {{c} : c \in Counts}

Lowest(S) == {m \in S : \A c \in S : m <= c}

LEMMA LowestFacts ==
  ASSUME NEW S \in SUBSET Nat, S # {}
  PROVE  \E m \in S : Lowest(S) = {m} /\ \A c \in S : m <= c
<1>1. PICK m \in S : \A c \in S : m <= c
  BY LeastNat
<1>2. ASSUME NEW x \in Lowest(S) PROVE x = m
  BY <1>1 DEF Lowest
<1> QED
  BY <1>1, <1>2 DEF Lowest

\* An answer moves the baseline to the lowest value seen so far.
LEMMA BaselineStep ==
  ASSUME NEW S \in SUBSET Counts, NEW report \in Values
  PROVE  Baseline(Lowest(S), report) = Lowest(S \union report)
<1>0. Counts \subseteq Nat
  BY DashboardAssumption
<1>1. CASE report = {}
  BY <1>1 DEF Baseline
<1>2. CASE report # {}
  <2>1. PICK v \in Counts : report = {v}
    BY <1>2 DEF Values
  <2>2. CASE S = {}
    <3>1. Lowest(S) = {} /\ Lowest(S \union report) = {v}
      BY <1>0, <2>1, <2>2 DEF Lowest
    <3> QED
      BY <2>1, <3>1 DEF Baseline
  <2>3. CASE S # {}
    <3>1. PICK m \in S : Lowest(S) = {m} /\ \A c \in S : m <= c
      BY <1>0, <2>3, LowestFacts
    <3>2. m \in Nat /\ v \in Nat /\ S \subseteq Nat
      BY <1>0
    <3>3. CASE v < m
      <4>1. Baseline(Lowest(S), report) = {v}
        BY <2>1, <3>1, <3>3 DEF Baseline
      <4>2. \A c \in S \union {v} : v <= c
        BY <3>1, <3>2, <3>3
      <4>3. \A x \in S : ~(x <= v)
        BY <3>1, <3>2, <3>3
      <4>4. Lowest(S \union {v}) = {v}
        BY <4>2, <4>3 DEF Lowest
      <4> QED
        BY <2>1, <4>1, <4>4
    <3>4. CASE ~(v < m)
      <4>1. Baseline(Lowest(S), report) = {m}
        BY <2>1, <3>1, <3>4 DEF Baseline
      <4>2. \A c \in S \union {v} : m <= c
        BY <3>1, <3>2, <3>4
      <4>3. \A x \in S \union {v} : x <= m => x = m
        BY <3>1, <3>2, <3>4
      <4>4. Lowest(S \union {v}) = {m}
        BY <4>2, <4>3 DEF Lowest
      <4> QED
        BY <2>1, <4>1, <4>4
    <3> QED
      BY <3>3, <3>4
  <2> QED
    BY <2>2, <2>3
<1> QED
  BY <1>1, <1>2

\* The values in the first i of some answers, and the baseline after them given
\* the baseline after one less.
Upto(r, i) == UNION {r[j] : j \in 1..i}

After(r, b, i) == IF i = 0 THEN {} ELSE Baseline(b[i - 1], r[i])

\* trackCorruptions keeps the lowest value it has seen.
LEMMA BaselinesAreLowest ==
  ASSUME NEW r \in Seq(Values)
  PROVE  Baselines(r) = Lowest(Upto(r, Len(r)))
<1> DEFINE N == Len(r)
           Base(g, n) == g = [i \in 0..n |-> After(r, g, i)]
<1>1. N \in Nat
  OBVIOUS
<1>2. \A n \in 0..N : \E g : Base(g, n)
  <2> DEFINE Bad == {n \in 0..N : ~\E g : Base(g, n)}
  <2> SUFFICES ASSUME Bad # {} PROVE FALSE
    OBVIOUS
  <2>1. PICK n \in Bad : \A m \in Bad : n <= m
    <3> Bad \in SUBSET Nat
      BY <1>1
    <3> HIDE DEF Bad
    <3> QED
      BY LeastNat
  <2>2. n \in 0..N /\ ~\E g : Base(g, n)
    OBVIOUS
  <2>3. CASE n = 0
    <3> DEFINE g == [i \in 0..0 |-> {}]
    <3>1. g = [i \in 0..0 |-> After(r, g, i)]
      BY DEF After
    <3> QED
      BY <2>2, <2>3, <3>1
  <2>4. CASE n # 0
    <3>1. n - 1 \in 0..N /\ n - 1 \notin Bad
      BY <2>1, <2>2, <2>4, <1>1
    <3>2. PICK g : Base(g, n - 1)
      BY <3>1
    <3> DEFINE h == [i \in 0..n |-> After(r, g, i)]
    <3>3. ASSUME NEW i \in 0..n PROVE After(r, g, i) = After(r, h, i)
      <4>1. i # 0 => i - 1 \in 0..(n - 1) /\ i - 1 \in 0..n
        BY <2>2, <1>1
      <4>2. i # 0 => g[i - 1] = h[i - 1]
        BY <3>2, <4>1
      <4> QED
        BY <4>2 DEF After
    <3>4. h = [i \in 0..n |-> After(r, h, i)]
      BY <3>3
    <3> QED
      BY <2>2, <3>4
  <2> QED
    BY <2>3, <2>4
<1> DEFINE base == CHOOSE g : Base(g, N)
<1>3. Base(base, N)
  <2>1. \E g : Base(g, N)
    BY <1>1, <1>2
  <2> QED
    BY <2>1
<1>4. Baselines(r) = base[N]
  BY DEF Baselines, After
<1> HIDE DEF base
<1> DEFINE Wrong == {n \in 0..N : base[n] # Lowest(Upto(r, n))}
<1>5. Wrong = {}
  <2> SUFFICES ASSUME Wrong # {} PROVE FALSE
    OBVIOUS
  <2>1. PICK n \in Wrong : \A m \in Wrong : n <= m
    <3> Wrong \in SUBSET Nat
      BY <1>1
    <3> HIDE DEF Wrong
    <3> QED
      BY LeastNat
  <2>2. base[n] = After(r, base, n)
    BY <1>3, <2>1
  <2>3. CASE n = 0
    BY <2>1, <2>2, <2>3 DEF After, Upto, Lowest
  <2>4. CASE n # 0
    <3>1. n - 1 \in 0..N /\ n \in 1..N
      BY <1>1, <2>1, <2>4
    <3>2. base[n - 1] = Lowest(Upto(r, n - 1))
      BY <1>1, <2>1, <3>1
    <3>3. r[n] \in Values
      BY <3>1
    <3>4. \A j \in 1..N : r[j] \subseteq Counts
      BY DEF Values
    <3>5. Upto(r, n - 1) \subseteq Counts
      BY <3>1, <3>4, <1>1 DEF Upto
    <3>6. 1..n = (1..(n - 1)) \union {n}
      BY <3>1, <1>1
    <3>7. Upto(r, n - 1) \union r[n] = Upto(r, n)
      BY <3>6 DEF Upto
    <3>8. base[n] = Baseline(Lowest(Upto(r, n - 1)), r[n])
      BY <2>2, <2>4, <3>2 DEF After
    <3> QED
      BY <2>1, <3>3, <3>5, <3>7, <3>8, BaselineStep
  <2> QED
    BY <2>3, <2>4
<1> QED
  BY <1>1, <1>4, <1>5

\* A rise is shown exactly when the last answer is above the lowest value seen.
LEMMA Rises == RisesAreNoticed
<1> SUFFICES ASSUME NEW r \in Reports
             PROVE  LET seen == UNION {r[i] : i \in DOMAIN r} IN
                    Rise(r) = {v - (CHOOSE m \in seen : \A c \in seen : m <= c) :
                                 v \in {x \in r[Len(r)] : \E c \in seen : c < x}}
  BY DEF RisesAreNoticed
<1>1. PICK k \in 1..MaxPolls : r \in [1..k -> Values]
  BY DEF Reports, Values
<1>2. k \in Nat \ {0}
  BY DashboardAssumption
<1>3. r \in Seq(Values) /\ Len(r) = k
  BY <1>1, <1>2, SeqDef
<1> DEFINE seen == UNION {r[i] : i \in DOMAIN r}
           low  == CHOOSE m \in seen : \A c \in seen : m <= c
           last == r[Len(r)]
<1>4. seen = Upto(r, Len(r)) /\ DOMAIN r = 1..k
  BY <1>1, <1>2, <1>3 DEF Upto
<1>5. seen \subseteq Nat /\ last \subseteq seen
  <2>1. \A i \in 1..k : r[i] \subseteq Counts
    BY <1>1 DEF Values
  <2>2. seen \subseteq Counts
    BY <1>4, <2>1
  <2>3. Len(r) \in DOMAIN r
    BY <1>2, <1>3, <1>4
  <2>4. last \subseteq seen
    BY <2>3
  <2> QED
    BY <2>2, <2>4, DashboardAssumption
<1>6. Rise(r) = UNION {{v - b : v \in {x \in last : x > b}} : b \in Lowest(seen)}
  BY <1>3, <1>4, BaselinesAreLowest DEF Rise
<1> HIDE DEF seen, last
<1>7. CASE seen = {}
  BY <1>5, <1>6, <1>7 DEF Lowest, seen, last
<1>8. CASE seen # {}
  <2>1. PICK m \in seen : Lowest(seen) = {m} /\ \A c \in seen : m <= c
    BY <1>5, <1>8, LowestFacts
  <2>2. low = m
    <3>1. low \in seen /\ \A c \in seen : low <= c
      BY <2>1
    <3> HIDE DEF low
    <3> QED
      BY <1>5, <2>1, <3>1
  <2> HIDE DEF low
  <2>3. ASSUME NEW x \in last PROVE (x > m) <=> \E c \in seen : c < x
    BY <1>5, <2>1, <2>3
  <2>4. {x \in last : x > m} = {x \in last : \E c \in seen : c < x}
    BY <2>3
  <2>5. Rise(r) = {v - m : v \in {x \in last : x > m}}
    BY <1>6, <2>1
  <2>6. Rise(r) = {v - low : v \in {x \in last : \E c \in seen : c < x}}
    BY <2>2, <2>4, <2>5
  <2> QED
    BY <2>6 DEF seen, last, low
<1> QED
  BY <1>7, <1>8

-----------------------------------------------------------------------------
(* The layout tracker *)

LEMMA MaxIsIn ==
  ASSUME NEW T \in SUBSET Nat, IsFiniteSet(T), T # {}
  PROVE  Max(T) \in T /\ \A y \in T : Max(T) >= y
<1> DEFINE HasMax(S) == \E x \in S : \A y \in S : x >= y
           Bad == {S \in SUBSET T : S # {} /\ ~HasMax(S)}
           Sizes == {Cardinality(S) : S \in Bad}
<1>1. ASSUME NEW S \in SUBSET T PROVE IsFiniteSet(S) /\ Cardinality(S) \in Nat
  BY FS_Subset, FS_CardinalityType
<1>2. Bad = {}
  <2> SUFFICES ASSUME Bad # {} PROVE FALSE
    OBVIOUS
  <2>1. Sizes \in SUBSET Nat /\ Sizes # {}
    BY <1>1
  <2>2. PICK n \in Sizes : \A m \in Sizes : n <= m
    <3> HIDE DEF Sizes
    <3> QED
      BY <2>1, LeastNat
  <2>3. PICK S \in Bad : Cardinality(S) = n
    OBVIOUS
  <2>4. PICK x \in S : TRUE
    OBVIOUS
  <2>5. S \ {x} \in SUBSET T /\ Cardinality(S \ {x}) = Cardinality(S) - 1
    BY <1>1, <2>4, FS_RemoveElement
  <2>6. S \ {x} \notin Bad
    <3>1. ~(n <= Cardinality(S \ {x}))
      BY <1>1, <2>1, <2>3, <2>5
    <3> QED
      BY <2>2, <3>1
  <2>7. S \subseteq Nat
    OBVIOUS
  <2>8. CASE S \ {x} = {}
    <3>1. \A y \in S : x >= y
      BY <2>4, <2>7, <2>8
    <3> QED
      BY <2>3, <2>4, <3>1
  <2>9. CASE S \ {x} # {}
    <3>1. PICK z \in S \ {x} : \A y \in S \ {x} : z >= y
      BY <2>5, <2>6, <2>9
    <3>2. CASE x >= z
      <4>1. \A y \in S : x >= y
        BY <2>4, <2>7, <3>1, <3>2
      <4> QED
        BY <2>3, <2>4, <4>1
    <3>3. CASE ~(x >= z)
      <4>1. \A y \in S : z >= y
        BY <2>4, <2>7, <3>1, <3>3
      <4> QED
        BY <2>3, <3>1, <4>1
    <3> QED
      BY <3>2, <3>3
  <2> QED
    BY <2>8, <2>9
<1>3. HasMax(T)
  BY <1>2
<1> QED
  BY <1>3 DEF Max

LEMMA Stepping ==
  ASSUME NEW h \in Histories, NEW roles \in RoleMaps
  PROVE  LET states == {StepState(i, h, roles) : i \in 1..3}
             There(n, step) == h.trackers[n][step] >= CurrentVersion(h)
         IN  /\ states # {"completed"} => "inprogress" \in states
             /\ (\A n \in DOMAIN h.trackers :
                   /\ There(n, "ack")
                   /\ n \in DOMAIN roles => There(n, "syncAck")
                   /\ n \in DOMAIN roles /\ roles[n] = "storage" => There(n, "sync"))
                  <=> states = {"completed"}
<1> DEFINE states == {StepState(i, h, roles) : i \in 1..3}
           There(n, step) == h.trackers[n][step] >= CurrentVersion(h)
           D(i) == Done(Steps[i], h, roles)
<1>1. 1..3 = {1, 2, 3}
  OBVIOUS
<1>2. states = {StepState(1, h, roles), StepState(2, h, roles), StepState(3, h, roles)}
  BY <1>1
<1>3. /\ StepState(1, h, roles) = IF D(1) THEN "completed" ELSE "inprogress"
      /\ StepState(2, h, roles) = IF D(2) THEN "completed" ELSE IF D(1) THEN "inprogress" ELSE "waiting"
      /\ StepState(3, h, roles) = IF D(3) THEN "completed" ELSE IF D(2) THEN "inprogress" ELSE "waiting"
  BY DEF StepState
<1>4. /\ D(1) <=> \A n \in DOMAIN h.trackers : There(n, "ack")
      /\ D(2) <=> \A n \in DOMAIN h.trackers : n \in DOMAIN roles /\ roles[n] = "storage" => There(n, "sync")
      /\ D(3) <=> \A n \in DOMAIN h.trackers : n \in DOMAIN roles => There(n, "syncAck")
  <2>1. Steps[1] = "ack" /\ Steps[2] = "sync" /\ Steps[3] = "syncAck"
    BY DEF Steps
  <2> HIDE DEF There
  <2>2. ASSUME NEW step PROVE Done(step, h, roles) <=> \A n \in Population(step, h, roles) : There(n, step)
    BY DEF Done, Progress, There
  <2>3. /\ Population("ack", h, roles) = DOMAIN h.trackers
        /\ Population("sync", h, roles) = {n \in DOMAIN h.trackers \intersect DOMAIN roles : roles[n] = "storage"}
        /\ Population("syncAck", h, roles) = DOMAIN h.trackers \intersect DOMAIN roles
    BY DEF Population
  <2>4. D(1) <=> \A n \in DOMAIN h.trackers : There(n, "ack")
    BY <2>1, <2>2, <2>3
  <2>5. D(2) <=> \A n \in DOMAIN h.trackers : n \in DOMAIN roles /\ roles[n] = "storage" => There(n, "sync")
    BY <2>1, <2>2, <2>3
  <2>6. D(3) <=> \A n \in DOMAIN h.trackers : n \in DOMAIN roles => There(n, "syncAck")
    BY <2>1, <2>2, <2>3
  <2> QED
    BY <2>4, <2>5, <2>6
<1> HIDE DEF states, There, D
<1>5. states # {"completed"} => "inprogress" \in states
  BY <1>2, <1>3
<1>6. states = {"completed"} <=> D(1) /\ D(2) /\ D(3)
  BY <1>2, <1>3
<1>7. (\A n \in DOMAIN h.trackers :
         /\ There(n, "ack")
         /\ n \in DOMAIN roles => There(n, "syncAck")
         /\ n \in DOMAIN roles /\ roles[n] = "storage" => There(n, "sync"))
        <=> states = {"completed"}
  BY <1>4, <1>6
<1> QED
  BY <1>5, <1>7 DEF states, There

LEMMA Banners ==
  ASSUME NEW isError \in BOOLEAN, NEW data \in {{}} \union {{h} : h \in Histories}, NEW compact \in BOOLEAN,
         Banner([isError |-> isError, data |-> data], compact) \in {"nothing", "everywhere"}
  PROVE  ~isError /\ \A h \in data : h.trackers = [n \in {} |-> Versions]
<1>1. ~isError /\ \A h \in data : DOMAIN h.trackers = {}
  BY DEF Banner, IsUpdateInFlight
<1>2. ASSUME NEW h \in data PROVE h.trackers = [n \in {} |-> Versions]
  <2>1. PICK M \in SUBSET Tracked : h.trackers \in [M -> Reached]
    BY DEF Histories
  <2> QED
    BY <1>1, <2>1
<1> QED
  BY <1>1, <1>2

LEMMA Forcing ==
  ASSUME NEW after \in Histories, NEW before \in Histories,
         NEW selected \in {{}} \union {{v} : v \in SkipTargets(before)}
  PROVE  LET version == ForceVersion(selected, SkipTargets(after)) IN
         /\ version \subseteq Accepted(after)
         /\ version = {} => Accepted(after) \intersect after.live = {}
         /\ selected \subseteq Accepted(after) \intersect after.live /\ selected # {} => version = selected
<1> DEFINE targets == SkipTargets(after)
           version == ForceVersion(selected, targets)
<1>1. after.live \subseteq Versions /\ Versions \subseteq Nat /\ IsFiniteSet(Versions)
  BY TrackerAssumption DEF Histories
<1>2. targets = Accepted(after) \intersect after.live
  BY <1>1 DEF SkipTargets, Accepted, CurrentVersion
<1>3. targets \subseteq Nat /\ IsFiniteSet(targets)
  BY <1>1, FS_Subset DEF SkipTargets
<1> HIDE DEF targets
<1>4. targets # {} => Max(targets) \in targets
  BY <1>3, MaxIsIn
<1>5. /\ version \subseteq targets
      /\ version = {} => targets = {}
      /\ selected \subseteq targets /\ selected # {} => version = selected
  BY <1>4 DEF ForceVersion
<1> QED
  BY <1>2, <1>5 DEF targets

LEMMA Tracker == TrackerIsHonest
<1>1. StepsAreHonest
  BY Stepping DEF StepsAreHonest
<1>2. BannerIsEvidenced
  BY Banners DEF BannerIsEvidenced
<1>3. ForceIsAccepted
  BY Forcing DEF ForceIsAccepted
<1> QED
  BY <1>1, <1>2, <1>3 DEF TrackerIsHonest

-----------------------------------------------------------------------------
\* What the dashboard shows as well has evidence: the panel's green line, the
\* rises of the counters, the progress of a layout update, and a quiet card.
THEOREM QuietEvidenced == Spec => []QuietIsEvidenced
<1>1. HealthAll => ClearPanelIsEvidenced
  BY PanelEvidence DEF ClearPanelIsEvidenced
<1>2. HealthAll => QuietIsEvidenced
  BY <1>1, OtherSources, Rises, Tracker, CardEvidence DEF QuietIsEvidenced
<1> QED
  BY <1>2, Health, PTL

=============================================================================
