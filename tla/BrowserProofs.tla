----------------------------- MODULE BrowserProofs ----------------------------
(***************************************************************************)
(* The object browser of a bucket: the upload queue and its handler, for   *)
(* any files, keys, slots and number of uploaders; and the page itself,    *)
(* for any objects, prefixes and page size.                                *)
(***************************************************************************)
EXTENDS Upload, ObjectBrowser, FiniteSetTheorems, SequenceTheorems, TLAPS

Rows == [st : {"none", "queued", "uploading", "done", "error", "conflict"},
         over : BOOLEAN, in : Mounts]

Requests == [file : Files, over : BOOLEAN, in : Mounts, raced : BOOLEAN,
             srv : {"check", "write", "written", "conflict", "failed"},
             cli : {"waits", "settled"}]

\* How many files of queue pumpUploads sends when n requests are in flight.
Sent(queue, n) == IF Len(queue) <= FreeSlots(n) THEN Len(queue) ELSE FreeSlots(n)

LEMMA SentFacts ==
  ASSUME NEW queue \in Seq(Files), NEW n \in 0..MaxConcurrent
  PROVE  /\ Sent(queue, n) \in 0..Len(queue) /\ Sent(queue, n) \in Nat
         /\ n + Sent(queue, n) \in 0..MaxConcurrent
         /\ Sent(queue, n) # Len(queue) => n + Sent(queue, n) = MaxConcurrent
<1>1. Len(queue) \in Nat /\ MaxConcurrent \in Nat
  BY UploadAssumption
<1> QED
  BY <1>1 DEF Sent, FreeSlots

\* pumpUploads sends the first files of the queue, as many as there are slots,
\* keeps the others in their order, and leaves the other uploaders alone.
Pumped(m, rows, queue, n, ts, k) ==
  /\ pending' \in [Mounts -> Seq(Files)]
  /\ Len(pending'[m]) = Len(queue) - k
  /\ \A i \in 1..(Len(queue) - k) : pending'[m][i] = queue[k + i]
  /\ \A o \in Mounts \ {m} : pending'[o] = pending[o] /\ active'[o] = active[o]
  /\ active' \in [Mounts -> 0..MaxConcurrent] /\ active'[m] = n + k
  /\ file' \in [Files -> Rows]
  /\ \A f \in Files :
       /\ file'[f].in = rows[f].in
       /\ file'[f].st = IF \E i \in 1..k : queue[i] = f THEN "uploading" ELSE rows[f].st
  /\ tries' \in Seq(Requests) /\ Len(tries') = Len(ts) + k
  /\ \A i \in 1..Len(ts) : tries'[i] = ts[i]
  /\ \A i \in 1..k : /\ tries'[Len(ts) + i].file = queue[i]
                     /\ tries'[Len(ts) + i].in = m
                     /\ tries'[Len(ts) + i].cli = "waits"
                     /\ tries'[Len(ts) + i].srv = "check"

LEMMA PumpEffect ==
  ASSUME TypeOK, NEW m \in Mounts, NEW rows \in [Files -> Rows], NEW queue \in Seq(Files),
         NEW n \in 0..MaxConcurrent, NEW ts \in Seq(Requests), Pump(m, rows, queue, n, ts)
  PROVE  /\ Pumped(m, rows, queue, n, ts, Sent(queue, n))
         /\ Sent(queue, n) \in 0..Len(queue) /\ Sent(queue, n) \in Nat
         /\ Sent(queue, n) # Len(queue) => n + Sent(queue, n) = MaxConcurrent
<1> DEFINE k == Sent(queue, n)
<1>s. /\ k \in 0..Len(queue) /\ k \in Nat /\ n + k \in 0..MaxConcurrent
      /\ k # Len(queue) => n + k = MaxConcurrent
  BY SentFacts
<1> DEFINE sent == SubSeq(queue, 1, k)
           new == [i \in 1..k |-> [Request(sent[i]) EXCEPT !.over = rows[sent[i]].over, !.in = m]]
<1>1. /\ k \in 0..Len(queue) /\ k \in Nat /\ Len(queue) \in Nat /\ Len(ts) \in Nat
      /\ n + k \in 0..MaxConcurrent
  BY <1>s, LenProperties
<1>2. /\ pending' = [pending EXCEPT ![m] = SubSeq(queue, k + 1, Len(queue))]
      /\ active' = [active EXCEPT ![m] = n + k]
      /\ file' = [f \in Files |->
           IF \E i \in 1..k : sent[i] = f THEN [rows[f] EXCEPT !.st = "uploading"] ELSE rows[f]]
      /\ tries' = ts \o new
  BY DEF Pump, Sent, Waiting
<1> HIDE DEF k
<1>3. \A i \in 1..k : sent[i] = queue[i] /\ queue[i] \in Files
  BY <1>1
<1>4. /\ SubSeq(queue, k + 1, Len(queue)) \in Seq(Files)
      /\ Len(SubSeq(queue, k + 1, Len(queue))) = Len(queue) - k
      /\ \A i \in 1..(Len(queue) - k) : SubSeq(queue, k + 1, Len(queue))[i] = queue[k + i]
  BY <1>1
<1>5. ASSUME NEW i \in 1..k
      PROVE  /\ new[i] \in Requests
             /\ new[i].file = queue[i] /\ new[i].in = m
             /\ new[i].cli = "waits" /\ new[i].srv = "check"
  <2>1. queue[i] \in Files /\ file[queue[i]].over \in BOOLEAN /\ file[queue[i]].in \in Mounts
        /\ rows[queue[i]].over \in BOOLEAN
    BY <1>3 DEF TypeOK, Rows
  <2>2. new[i] = [[file |-> queue[i], over |-> file[queue[i]].over, in |-> file[queue[i]].in,
                   srv |-> "check", cli |-> "waits", raced |-> FALSE]
                    EXCEPT !.over = rows[queue[i]].over, !.in = m]
    BY <1>3 DEF Request
  <2> QED
    BY <2>1, <2>2 DEF Requests
<1> HIDE DEF sent, new
<1>6. new \in Seq(Requests) /\ Len(new) = k
  <2>1. new \in [1..k -> Requests]
    <3>1. new = [i \in 1..k |-> new[i]]
      BY DEF new
    <3> QED
      BY <1>5, <3>1
  <2>2. new \in Seq(Requests)
    BY <1>1, <2>1, SeqDef
  <2> QED
    BY <1>1, <2>1, <2>2, LenProperties
<1>7. /\ tries' \in Seq(Requests) /\ Len(tries') = Len(ts) + k
      /\ \A i \in 1..Len(ts) : tries'[i] = ts[i]
      /\ \A i \in 1..k : tries'[Len(ts) + i] = new[i]
  <2>1. /\ tries' \in Seq(Requests) /\ Len(tries') = Len(ts) + k
        /\ \A i \in 1..(Len(ts) + k) :
             tries'[i] = IF i <= Len(ts) THEN ts[i] ELSE new[i - Len(ts)]
    BY <1>2, <1>6, ConcatProperties
  <2>2. \A i \in 1..Len(ts) : i \in 1..(Len(ts) + k) /\ i <= Len(ts)
    BY <1>1
  <2>3. \A i \in 1..k : /\ Len(ts) + i \in 1..(Len(ts) + k) /\ ~(Len(ts) + i <= Len(ts))
                        /\ (Len(ts) + i) - Len(ts) = i
    BY <1>1
  <2> QED
    BY <2>1, <2>2, <2>3
<1>8. /\ file' \in [Files -> Rows]
      /\ \A f \in Files :
           /\ file'[f].in = rows[f].in
           /\ file'[f].st = IF \E i \in 1..k : queue[i] = f THEN "uploading" ELSE rows[f].st
  <2>1. \A f \in Files : /\ rows[f] \in Rows
                         /\ [rows[f] EXCEPT !.st = "uploading"] \in Rows
                         /\ [rows[f] EXCEPT !.st = "uploading"].st = "uploading"
                         /\ [rows[f] EXCEPT !.st = "uploading"].in = rows[f].in
    BY DEF Rows
  <2>2. \A f \in Files : (\E i \in 1..k : sent[i] = f) <=> (\E i \in 1..k : queue[i] = f)
    BY <1>3
  <2>3. file' = [f \in Files |-> IF \E i \in 1..k : queue[i] = f
                                 THEN [rows[f] EXCEPT !.st = "uploading"] ELSE rows[f]]
    BY <1>2, <2>2
  <2> QED
    BY <2>1, <2>3
<1>9. /\ pending' \in [Mounts -> Seq(Files)]
      /\ pending'[m] = SubSeq(queue, k + 1, Len(queue))
      /\ \A o \in Mounts \ {m} : pending'[o] = pending[o] /\ active'[o] = active[o]
      /\ active' \in [Mounts -> 0..MaxConcurrent] /\ active'[m] = n + k
  BY <1>1, <1>2, <1>4 DEF TypeOK
<1>10. \A i \in 1..k : /\ tries'[Len(ts) + i].file = queue[i]
                       /\ tries'[Len(ts) + i].in = m
                       /\ tries'[Len(ts) + i].cli = "waits"
                       /\ tries'[Len(ts) + i].srv = "check"
  BY <1>5, <1>7
<1> QED
  BY <1>1, <1>4, <1>7, <1>8, <1>9, <1>10, <1>s DEF k, Pumped

\* pumpUploads keeps rows, queues, counts and requests consistent, and leaves
\* files waiting only when every slot is taken.
LEMMA PumpConsistent ==
  ASSUME TypeOK, NEW m \in Mounts, NEW rows \in [Files -> Rows], NEW queue \in Seq(Files),
         NEW n \in 0..MaxConcurrent, NEW ts \in Seq(Requests), Pump(m, rows, queue, n, ts),
         NEW queues, queues = [pending EXCEPT ![m] = queue],
         NEW counts, counts = [active EXCEPT ![m] = n],
         Consistent(rows, queues, counts, ts),
         \A o \in Mounts \ {m} : pending[o] # <<>> => active[o] = MaxConcurrent
  PROVE  /\ Consistent(file', pending', active', tries')
         /\ \A o \in Mounts : pending'[o] # <<>> => active'[o] = MaxConcurrent
<1> DEFINE k == Sent(queue, n)
<1>k. /\ Pumped(m, rows, queue, n, ts, k) /\ k \in 0..Len(queue) /\ k \in Nat
      /\ k # Len(queue) => n + k = MaxConcurrent
  BY PumpEffect
<1> HIDE DEF k
<1>1. /\ pending' \in [Mounts -> Seq(Files)]
      /\ Len(pending'[m]) = Len(queue) - k
      /\ \A i \in 1..(Len(queue) - k) : pending'[m][i] = queue[k + i]
      /\ \A o \in Mounts \ {m} : pending'[o] = pending[o] /\ active'[o] = active[o]
      /\ active'[m] = n + k
      /\ \A f \in Files :
           /\ file'[f].in = rows[f].in
           /\ file'[f].st = IF \E i \in 1..k : queue[i] = f THEN "uploading" ELSE rows[f].st
      /\ tries' \in Seq(Requests) /\ Len(tries') = Len(ts) + k
      /\ \A i \in 1..Len(ts) : tries'[i] = ts[i]
      /\ \A i \in 1..k : /\ tries'[Len(ts) + i].file = queue[i]
                         /\ tries'[Len(ts) + i].in = m
                         /\ tries'[Len(ts) + i].cli = "waits"
  BY <1>k DEF Pumped
<1>2. /\ k \in 0..Len(queue) /\ k \in Nat /\ Len(queue) \in Nat /\ Len(ts) \in Nat /\ n \in Nat
      /\ k # Len(queue) => n + k = MaxConcurrent
  BY <1>k, LenProperties
<1>3. /\ queues[m] = queue /\ counts[m] = n
      /\ \A o \in Mounts \ {m} : queues[o] = pending[o] /\ counts[o] = active[o]
  BY DEF TypeOK
<1>4. \A o \in Mounts :
        /\ \A i \in 1..Len(queues[o]) : rows[queues[o][i]].st = "queued" /\ rows[queues[o][i]].in = o
        /\ \A i, j \in 1..Len(queues[o]) : queues[o][i] = queues[o][j] => i = j
        /\ \A j \in Waits(ts, o) : rows[ts[j].file].st = "uploading" /\ rows[ts[j].file].in = o
        /\ \A j, l \in Waits(ts, o) : ts[j].file = ts[l].file => j = l
        /\ counts[o] = Cardinality(Waits(ts, o))
  BY DEF Consistent
<1>5. /\ \A i \in 1..Len(queue) : /\ queue[i] \in Files
                                  /\ rows[queue[i]].st = "queued" /\ rows[queue[i]].in = m
      /\ \A i, j \in 1..Len(queue) : queue[i] = queue[j] => i = j
  BY <1>3, <1>4
<1>6. \A i \in 1..k : i \in 1..Len(queue)
  BY <1>2
<1>7. \A o \in Mounts \ {m} :
        /\ Waits(tries', o) = Waits(ts, o)
        /\ \A i \in 1..Len(pending[o]) :
             pending[o][i] \in Files /\ rows[pending[o][i]].st = "queued" /\ rows[pending[o][i]].in = o
  <2>1. ASSUME NEW o \in Mounts \ {m} PROVE Waits(tries', o) = Waits(ts, o)
    <3>1. ASSUME NEW j \in 1..Len(tries') PROVE j \in Waits(tries', o) <=> j \in Waits(ts, o)
      <4>1. CASE j \in 1..Len(ts)
        BY <1>1, <1>2, <4>1 DEF Waits
      <4>2. CASE j \notin 1..Len(ts)
        <5>1. j - Len(ts) \in 1..k /\ j = Len(ts) + (j - Len(ts))
          BY <1>1, <1>2, <3>1, <4>2
        <5>2. tries'[j].in = m
          BY <1>1, <5>1
        <5> QED
          BY <4>2, <5>2 DEF Waits
      <4> QED
        BY <4>1, <4>2
    <3>2. Waits(tries', o) \subseteq 1..Len(tries') /\ Waits(ts, o) \subseteq 1..Len(tries')
      BY <1>1, <1>2 DEF Waits
    <3> QED
      BY <3>1, <3>2
  <2>2. ASSUME NEW o \in Mounts \ {m}, NEW i \in 1..Len(pending[o])
        PROVE  pending[o][i] \in Files
    BY ElementOfSeq DEF TypeOK
  <2> QED
    BY <1>3, <1>4, <2>1, <2>2
<1>8. Waits(tries', m) = Waits(ts, m) \cup ((Len(ts) + 1)..(Len(ts) + k))
  <2>1. ASSUME NEW j \in 1..Len(tries')
        PROVE  j \in Waits(tries', m) <=> j \in Waits(ts, m) \/ j \in (Len(ts) + 1)..(Len(ts) + k)
    <3>1. CASE j \in 1..Len(ts)
      BY <1>1, <1>2, <3>1 DEF Waits
    <3>2. CASE j \notin 1..Len(ts)
      <4>1. /\ j - Len(ts) \in 1..k /\ j = Len(ts) + (j - Len(ts))
            /\ j \in (Len(ts) + 1)..(Len(ts) + k)
        BY <1>1, <1>2, <2>1, <3>2
      <4>2. tries'[j].in = m /\ tries'[j].cli = "waits"
        BY <1>1, <4>1
      <4> QED
        BY <2>1, <4>1, <4>2 DEF Waits
    <3> QED
      BY <3>1, <3>2
  <2>2. Waits(tries', m) \subseteq 1..Len(tries') /\ Waits(ts, m) \subseteq 1..Len(tries')
    BY <1>1, <1>2 DEF Waits
  <2>3. (Len(ts) + 1)..(Len(ts) + k) \subseteq 1..Len(tries')
    BY <1>1, <1>2
  <2> QED
    BY <2>1, <2>2, <2>3
<1>9. ASSUME NEW o \in Mounts, NEW i \in 1..Len(pending'[o])
      PROVE  file'[pending'[o][i]].st = "queued" /\ file'[pending'[o][i]].in = o
  <2>1. CASE o = m
    <3>1. /\ i \in 1..(Len(queue) - k) /\ k + i \in 1..Len(queue)
          /\ \A j \in 1..k : j # k + i
      BY <1>1, <1>2, <1>9, <2>1
    <3>2. pending'[m][i] = queue[k + i] /\ ~(\E j \in 1..k : queue[j] = queue[k + i])
      BY <1>1, <1>5, <1>6, <3>1
    <3>3. /\ queue[k + i] \in Files
          /\ rows[queue[k + i]].st = "queued" /\ rows[queue[k + i]].in = m
      BY <1>5, <3>1
    <3>4. file'[queue[k + i]].st = "queued" /\ file'[queue[k + i]].in = m
      BY <1>1, <3>2, <3>3
    <3> QED
      BY <2>1, <3>2, <3>4
  <2>2. CASE o # m
    <3>1. /\ pending'[o][i] = pending[o][i] /\ pending[o][i] \in Files
          /\ rows[pending[o][i]].st = "queued" /\ rows[pending[o][i]].in = o
      BY <1>1, <1>7, <1>9, <2>2
    <3>2. ~(\E j \in 1..k : queue[j] = pending[o][i])
      BY <1>5, <1>6, <2>2, <3>1
    <3> QED
      BY <1>1, <3>1, <3>2
  <2> QED
    BY <2>1, <2>2
<1>10. ASSUME NEW o \in Mounts, NEW i \in 1..Len(pending'[o]), NEW j \in 1..Len(pending'[o]),
              pending'[o][i] = pending'[o][j]
       PROVE  i = j
  <2>1. CASE o = m
    <3>1. /\ i \in 1..(Len(queue) - k) /\ k + i \in 1..Len(queue)
          /\ j \in 1..(Len(queue) - k) /\ k + j \in 1..Len(queue)
      BY <1>1, <1>2, <1>10, <2>1
    <3>2. queue[k + i] = queue[k + j]
      BY <1>1, <1>10, <2>1, <3>1
    <3>3. k + i = k + j
      BY <1>5, <3>1, <3>2
    <3> QED
      BY <1>2, <3>1, <3>3
  <2>2. CASE o # m
    BY <1>1, <1>3, <1>4, <1>10, <2>2
  <2> QED
    BY <2>1, <2>2
\* The requests of ts, and those just sent.
<1>11. ASSUME NEW o \in Mounts, NEW j \in Waits(ts, o)
       PROVE  /\ tries'[j] = ts[j] /\ ts[j].file \in Files
              /\ rows[ts[j].file].st = "uploading"
              /\ file'[ts[j].file].st = "uploading" /\ file'[ts[j].file].in = o
  <2>1. rows[ts[j].file].st = "uploading" /\ rows[ts[j].file].in = o
    BY <1>4
  <2>2. tries'[j] = ts[j] /\ ts[j].file \in Files
    <3>1. j \in 1..Len(ts)
      BY DEF Waits
    <3>2. ts[j] \in Requests
      BY <3>1, ElementOfSeq
    <3> QED
      BY <1>1, <3>1, <3>2 DEF Requests
  <2> QED
    BY <1>1, <2>1, <2>2
<1>12. ASSUME NEW j \in (Len(ts) + 1)..(Len(ts) + k)
       PROVE  \E i \in 1..k : /\ j = Len(ts) + i /\ tries'[j].file = queue[i]
                              /\ file'[queue[i]].st = "uploading" /\ file'[queue[i]].in = m
  <2>1. j - Len(ts) \in 1..k /\ j = Len(ts) + (j - Len(ts))
    BY <1>2
  <2>2. PICK i \in 1..k : j = Len(ts) + i
    BY <2>1
  <2>3. tries'[j].file = queue[i] /\ queue[i] \in Files /\ rows[queue[i]].in = m
    BY <1>1, <1>5, <1>6, <2>2
  <2> QED
    BY <1>1, <2>2, <2>3
<1>13. ASSUME NEW o \in Mounts, NEW j \in Waits(tries', o)
       PROVE  file'[tries'[j].file].st = "uploading" /\ file'[tries'[j].file].in = o
  <2>1. CASE j \in Waits(ts, o)
    BY <1>11, <2>1
  <2>2. CASE j \notin Waits(ts, o)
    <3>1. o = m /\ j \in (Len(ts) + 1)..(Len(ts) + k)
      BY <1>7, <1>8, <2>2
    <3> QED
      BY <1>12, <3>1
  <2> QED
    BY <2>1, <2>2
<1>14. ASSUME NEW o \in Mounts, NEW j \in Waits(tries', o), NEW l \in Waits(tries', o),
              tries'[j].file = tries'[l].file
       PROVE  j = l
  <2>1. CASE j \in Waits(ts, o) /\ l \in Waits(ts, o)
    BY <1>4, <1>11, <1>14, <2>1
  <2>2. CASE o = m /\ j \notin Waits(ts, o) /\ l \notin Waits(ts, o)
    <3>1. PICK i \in 1..k : j = Len(ts) + i /\ tries'[j].file = queue[i]
      BY <1>8, <1>12, <2>2
    <3>2. PICK h \in 1..k : l = Len(ts) + h /\ tries'[l].file = queue[h]
      BY <1>8, <1>12, <2>2
    <3> QED
      BY <1>5, <1>6, <1>14, <3>1, <3>2
  <2>3. ASSUME NEW a \in Waits(ts, m), NEW b \in Waits(tries', m), b \notin Waits(ts, m)
        PROVE  tries'[a].file # tries'[b].file
    <3>1. PICK h \in 1..k : tries'[b].file = queue[h]
      BY <1>8, <1>12, <2>3
    <3>2. rows[queue[h]].st = "queued"
      BY <1>5, <1>6
    <3> QED
      BY <1>11, <3>1, <3>2
  <2> QED
    BY <1>7, <1>14, <2>1, <2>2, <2>3
<1>15. ASSUME NEW o \in Mounts PROVE active'[o] = Cardinality(Waits(tries', o))
  <2>1. CASE o = m
    <3> DEFINE A == Waits(ts, m)
               B == (Len(ts) + 1)..(Len(ts) + k)
    <3>1. IsFiniteSet(A) /\ Cardinality(A) = n
      <4>1. A \in SUBSET (1..Len(ts)) /\ IsFiniteSet(1..Len(ts))
        BY <1>2, FS_Interval DEF Waits
      <4> QED
        BY <1>3, <1>4, <4>1, FS_Subset
    <3>2. IsFiniteSet(B) /\ Cardinality(B) = k
      <4>1. Len(ts) + 1 \in Int /\ Len(ts) + k \in Int
        BY <1>2
      <4>2. /\ IsFiniteSet(B)
            /\ Cardinality(B) = IF Len(ts) + 1 > Len(ts) + k THEN 0
                                ELSE (Len(ts) + k) - (Len(ts) + 1) + 1
        BY <4>1, FS_Interval
      <4> QED
        BY <1>2, <4>2
    <3>3. A \cap B = {}
      BY <1>2 DEF Waits
    <3>4. Waits(tries', m) = A \cup B
      BY <1>8
    <3> HIDE DEF A, B
    <3>5. Cardinality(A \cup B) = n + k
      <4>1. Cardinality(A \cap B) = 0
        BY <3>3, FS_EmptySet
      <4>2. Cardinality(A \cup B) = Cardinality(A) + Cardinality(B) - Cardinality(A \cap B)
        BY <3>1, <3>2, FS_Union
      <4> QED
        BY <1>2, <3>1, <3>2, <4>1, <4>2
    <3> QED
      BY <1>1, <1>2, <2>1, <3>4, <3>5
  <2>2. CASE o # m
    BY <1>1, <1>3, <1>4, <1>7, <2>2
  <2> QED
    BY <2>1, <2>2
<1>16. Consistent(file', pending', active', tries')
  BY <1>9, <1>10, <1>13, <1>14, <1>15 DEF Consistent
<1>17. ASSUME NEW o \in Mounts, pending'[o] # <<>> PROVE active'[o] = MaxConcurrent
  <2>1. CASE o = m
    <3>1. Len(pending'[m]) # 0
      BY <1>1, <1>17, <2>1, EmptySeq
    <3> QED
      BY <1>1, <1>2, <2>1, <3>1
  <2>2. CASE o # m
    BY <1>1, <1>17, <2>2
  <2> QED
    BY <2>1, <2>2
<1> QED
  BY <1>16, <1>17

-----------------------------------------------------------------------------
(* What a step does to the handlers' side.                                  *)

\* New requests have not asked yet, so nothing is claimed of them.
LEMMA NewRequests ==
  ASSUME NEW ts \in Seq(Requests), NEW us \in Seq(Requests), NEW k \in Nat,
         Len(us) = Len(ts) + k,
         \A i \in 1..Len(ts) : us[i] = ts[i],
         \A i \in 1..k : us[Len(ts) + i].srv = "check",
         StillFree(ts)
  PROVE  StillFree(us)
<1>1. ASSUME NEW j \in 1..Len(us), us[j].srv = "write"
      PROVE  j \in 1..Len(ts) /\ us[j] = ts[j]
  <2>1. CASE j \in 1..Len(ts)
    BY <2>1
  <2>2. CASE j \notin 1..Len(ts)
    <3>1. j - Len(ts) \in 1..k /\ j = Len(ts) + (j - Len(ts))
      BY <2>2
    <3> QED
      BY <1>1, <3>1
  <2> QED
    BY <2>1, <2>2
<1> QED
  BY <1>1 DEF StillFree

\* A pump after a consistent update of uploader m keeps the type and the
\* invariant; what is said of the listing is left to the step.
LEMMA PumpStep ==
  ASSUME TypeOK, UploadInv, NEW m \in Mounts, NEW rows \in [Files -> Rows],
         NEW queue \in Seq(Files), NEW n \in 0..MaxConcurrent, NEW ts \in Seq(Requests),
         Pump(m, rows, queue, n, ts),
         NEW queues, queues = [pending EXCEPT ![m] = queue],
         NEW counts, counts = [active EXCEPT ![m] = n],
         Consistent(rows, queues, counts, ts),
         StillFree(ts), UNCHANGED <<exists, mount, mounted, replaced>>,
         unlisted' \in [Mounts -> BOOLEAN],
         \A o \in Mounts \ {m} : unlisted'[o] = unlisted[o],
         active'[m] = 0 => ~unlisted'[m]
  PROVE  TypeOK' /\ UploadInv'
<1> DEFINE k == Sent(queue, n)
<1>k. Pumped(m, rows, queue, n, ts, k)
  BY PumpEffect
<1>2. k \in Nat
  BY PumpEffect
<1> HIDE DEF k
<1>1. /\ pending' \in [Mounts -> Seq(Files)]
      /\ \A o \in Mounts \ {m} : active'[o] = active[o]
      /\ active' \in [Mounts -> 0..MaxConcurrent]
      /\ file' \in [Files -> Rows]
      /\ tries' \in Seq(Requests) /\ Len(tries') = Len(ts) + k
      /\ \A i \in 1..Len(ts) : tries'[i] = ts[i]
      /\ \A i \in 1..k : tries'[Len(ts) + i].srv = "check"
  BY <1>k DEF Pumped
<1>3. TypeOK'
  BY <1>1 DEF TypeOK, Rows, Requests
<1>4. /\ Consistent(file', pending', active', tries')
      /\ \A o \in Mounts : pending'[o] # <<>> => active'[o] = MaxConcurrent
  <2>1. \A o \in Mounts \ {m} : pending[o] # <<>> => active[o] = MaxConcurrent
    BY DEF UploadInv
  <2> QED
    BY <2>1, PumpConsistent
<1>5. StillFree(tries')
  BY <1>1, <1>2, NewRequests
<1>6. StillFree(tries)'
  BY <1>5 DEF StillFree
<1>7. ListingRefreshed'
  BY <1>1 DEF UploadInv, ListingRefreshed
<1> QED
  BY <1>3, <1>4, <1>6, <1>7 DEF UploadInv, ReplacesOnlyRaced

\* Files whose rows were neither queued nor uploading join the queue.
LEMMA QueueStep ==
  ASSUME TypeOK, UploadInv, NEW s \in Seq(Files), NEW over \in [Files -> BOOLEAN],
         \A i \in 1..Len(s) : file[s[i]].st \notin {"queued", "uploading"},
         \A i, j \in 1..Len(s) : s[i] = s[j] => i = j,
         NEW rows, rows = [f \in Files |-> IF \E i \in 1..Len(s) : s[i] = f
                                           THEN Row("queued", over[f], mount) ELSE file[f]],
         Pump(mount, rows, pending[mount] \o s, active[mount], tries),
         UNCHANGED <<exists, mount, mounted, replaced, unlisted>>
  PROVE  TypeOK' /\ UploadInv'
<1> DEFINE q == pending[mount]
           queue == q \o s
           queues == [pending EXCEPT ![mount] = queue]
           counts == [active EXCEPT ![mount] = active[mount]]
<1>1. /\ mount \in Mounts /\ q \in Seq(Files) /\ active[mount] \in 0..MaxConcurrent
      /\ file \in [Files -> Rows] /\ tries \in Seq(Requests) /\ unlisted \in [Mounts -> BOOLEAN]
  BY DEF TypeOK, Rows, Requests
<1>2. /\ queue \in Seq(Files) /\ Len(queue) = Len(q) + Len(s)
      /\ \A i \in 1..Len(q) : queue[i] = q[i] /\ q[i] \in Files
      /\ \A i \in 1..Len(s) : queue[Len(q) + i] = s[i] /\ s[i] \in Files
      /\ Len(q) \in Nat /\ Len(s) \in Nat
  BY <1>1
<1>3. rows \in [Files -> Rows]
  <2>1. \A f \in Files : file[f] \in Rows /\ Row("queued", over[f], mount) \in Rows
    BY <1>1 DEF Row, Rows
  <2> QED
    BY <2>1
<1>4. /\ \A f \in Files : file[f].st \in {"queued", "uploading"} => rows[f] = file[f]
      /\ \A i \in 1..Len(s) : rows[s[i]].st = "queued" /\ rows[s[i]].in = mount
  BY <1>2 DEF Row
<1>5. queues[mount] = queue /\ \A o \in Mounts \ {mount} : queues[o] = pending[o]
  BY <1>1 DEF TypeOK
<1>6. counts = active
  BY <1>1 DEF TypeOK
<1>7. \A o \in Mounts :
        /\ \A i \in 1..Len(pending[o]) :
             /\ pending[o][i] \in Files
             /\ file[pending[o][i]].st = "queued" /\ file[pending[o][i]].in = o
        /\ \A i, j \in 1..Len(pending[o]) : pending[o][i] = pending[o][j] => i = j
        /\ \A n \in Waits(tries, o) :
             file[tries[n].file].st = "uploading" /\ file[tries[n].file].in = o
        /\ \A n, l \in Waits(tries, o) : tries[n].file = tries[l].file => n = l
        /\ active[o] = Cardinality(Waits(tries, o))
  BY ElementOfSeq DEF UploadInv, Consistent, TypeOK
<1>q. /\ q = pending[mount]
      /\ \A i \in 1..Len(q) : q[i] \in Files /\ file[q[i]].st = "queued"
      /\ \A i, j \in 1..Len(q) : q[i] = q[j] => i = j
  BY <1>1, <1>7
<1> HIDE DEF queues, counts, queue, q
\* A place of the longer queue is one of the old queue or one of s.
<1>p. ASSUME NEW a \in 1..Len(queue)
      PROVE  \/ a \in 1..Len(q) /\ queue[a] = q[a]
             \/ /\ a \notin 1..Len(q)
                /\ \E b \in 1..Len(s) : a = Len(q) + b /\ queue[a] = s[b]
  <2>1. CASE a \in 1..Len(q)
    BY <1>2, <2>1
  <2>2. CASE a \notin 1..Len(q)
    <3>1. a - Len(q) \in 1..Len(s) /\ a = Len(q) + (a - Len(q))
      BY <1>2, <2>2
    <3> QED
      BY <1>2, <2>2, <3>1
  <2> QED
    BY <2>1, <2>2
<1>8. Consistent(rows, queues, counts, tries)
  <2>1. ASSUME NEW o \in Mounts, NEW i \in 1..Len(pending[o])
        PROVE  rows[pending[o][i]].st = "queued" /\ rows[pending[o][i]].in = o
    <3>1. /\ pending[o][i] \in Files
          /\ file[pending[o][i]].st = "queued" /\ file[pending[o][i]].in = o
      BY <1>7
    <3> QED
      BY <1>4, <3>1
  <2>2. ASSUME NEW o \in Mounts, NEW i \in 1..Len(queues[o])
        PROVE  rows[queues[o][i]].st = "queued" /\ rows[queues[o][i]].in = o
    <3>1. CASE o = mount
      <4>1. i \in 1..Len(queue) /\ queues[o][i] = queue[i]
        BY <1>5, <2>2, <3>1
      <4>2. CASE i \in 1..Len(q) /\ queue[i] = q[i]
        <5>1. i \in 1..Len(pending[mount]) /\ queue[i] = pending[mount][i]
          BY <1>q, <4>2
        <5>2. rows[pending[mount][i]].st = "queued" /\ rows[pending[mount][i]].in = mount
          BY <1>1, <2>1, <5>1
        <5> QED
          BY <3>1, <4>1, <5>1, <5>2
      <4>3. CASE \E b \in 1..Len(s) : queue[i] = s[b]
        BY <1>4, <3>1, <4>1, <4>3
      <4> QED
        BY <1>p, <4>1, <4>2, <4>3
    <3>2. CASE o # mount
      <4>1. queues[o] = pending[o]
        BY <1>5, <3>2
      <4> QED
        BY <2>1, <2>2, <4>1
    <3> QED
      BY <3>1, <3>2
  <2>3. ASSUME NEW i \in 1..Len(q), NEW j \in 1..Len(s) PROVE q[i] # s[j]
    <3>1. file[q[i]].st = "queued" /\ file[s[j]].st # "queued"
      BY <1>q
    <3> QED
      BY <3>1
  <2>4. ASSUME NEW i \in 1..Len(queue), NEW j \in 1..Len(queue), queue[i] = queue[j]
        PROVE  i = j
    <3>1. CASE i \in 1..Len(q) /\ j \in 1..Len(q)
      BY <1>p, <1>q, <2>4, <3>1
    <3>2. CASE i \in 1..Len(q) /\ j \notin 1..Len(q)
      <4>1. PICK b \in 1..Len(s) : queue[j] = s[b]
        BY <1>p, <3>2
      <4>2. queue[i] = q[i]
        BY <1>p, <3>2
      <4> QED
        BY <2>3, <2>4, <3>2, <4>1, <4>2
    <3>3. CASE i \notin 1..Len(q) /\ j \in 1..Len(q)
      <4>1. PICK b \in 1..Len(s) : queue[i] = s[b]
        BY <1>p, <3>3
      <4>2. queue[j] = q[j]
        BY <1>p, <3>3
      <4> QED
        BY <2>3, <2>4, <3>3, <4>1, <4>2
    <3>4. CASE i \notin 1..Len(q) /\ j \notin 1..Len(q)
      <4>1. PICK b \in 1..Len(s) : i = Len(q) + b /\ queue[i] = s[b]
        BY <1>p, <3>4
      <4>2. PICK d \in 1..Len(s) : j = Len(q) + d /\ queue[j] = s[d]
        BY <1>p, <3>4
      <4>3. b = d
        BY <2>4, <4>1, <4>2
      <4> QED
        BY <4>1, <4>2, <4>3
    <3> QED
      BY <3>1, <3>2, <3>3, <3>4
  <2>5. ASSUME NEW o \in Mounts
        PROVE  \A i, j \in 1..Len(queues[o]) : queues[o][i] = queues[o][j] => i = j
    <3>1. CASE o = mount
      BY <1>5, <2>4, <3>1
    <3>2. CASE o # mount
      <4>1. queues[o] = pending[o]
        BY <1>5, <3>2
      <4> QED
        BY <1>7, <4>1
    <3> QED
      BY <3>1, <3>2
  <2>6. ASSUME NEW o \in Mounts, NEW n \in Waits(tries, o)
        PROVE  rows[tries[n].file].st = "uploading" /\ rows[tries[n].file].in = o
    <3>1. n \in 1..Len(tries)
      BY DEF Waits
    <3>2. tries[n].file \in Files
      <4>1. tries[n] \in Requests
        BY <1>1, <3>1, ElementOfSeq
      <4> QED
        BY <4>1 DEF Requests
    <3> QED
      BY <1>4, <1>7, <3>2
  <2> QED
    BY <1>6, <1>7, <2>2, <2>5, <2>6 DEF Consistent
<1>9. Pump(mount, rows, queue, active[mount], tries)
  BY DEF queue, q
<1>10. active'[mount] = 0 => ~unlisted'[mount]
  <2>1. active'[mount] = active[mount] + Sent(queue, active[mount])
    <3>1. active' = [active EXCEPT ![mount] = active[mount] + Sent(queue, active[mount])]
      BY <1>9 DEF Pump, Sent
    <3> QED
      BY <1>1, <3>1 DEF TypeOK
  <2>2. Sent(queue, active[mount]) \in Nat
    BY <1>1, <1>2, SentFacts
  <2>3. active'[mount] = 0 => active[mount] = 0
    BY <1>1, <2>1, <2>2, UploadAssumption
  <2>4. active[mount] = 0 => ~unlisted[mount]
    BY <1>1 DEF UploadInv, ListingRefreshed
  <2>5. unlisted' = unlisted
    OBVIOUS
  <2> QED
    BY <2>3, <2>4, <2>5, Zenon
<1>11. StillFree(tries)
  BY DEF UploadInv
<1>12. unlisted' \in [Mounts -> BOOLEAN] /\ \A o \in Mounts \ {mount} : unlisted'[o] = unlisted[o]
  BY <1>1
<1>13. /\ queues = [pending EXCEPT ![mount] = queue]
       /\ counts = [active EXCEPT ![mount] = active[mount]]
  BY DEF queues, counts
<1> QED
  BY <1>1, <1>2, <1>3, <1>8, <1>9, <1>10, <1>11, <1>12, <1>13, PumpStep

LEMMA OrdersFacts ==
  ASSUME NEW S \in SUBSET Files, NEW s \in Orders(S)
  PROVE  /\ s \in Seq(Files) /\ DOMAIN s = 1..Len(s)
         /\ \A i, j \in 1..Len(s) : s[i] = s[j] => i = j
<1>1. IsFiniteSet(S)
  BY UploadAssumption, FS_Subset
<1>2. Cardinality(S) \in Nat
  BY <1>1, FS_CardinalityType
<1>3. s \in [1..Cardinality(S) -> Files] /\ \A i, j \in DOMAIN s : s[i] = s[j] => i = j
  BY DEF Orders
<1>4. s \in Seq(Files)
  BY <1>2, <1>3, SeqDef
<1> QED
  BY <1>3, <1>4, LenProperties

LEMMA EnqueueStep ==
  ASSUME TypeOK, UploadInv, NEW S \in SUBSET Files, NEW s \in Orders(S), Enqueue(s)
  PROVE  TypeOK' /\ UploadInv'
<1> DEFINE over == [f \in Files |-> FALSE]
           rows == [f \in Files |-> IF \E i \in 1..Len(s) : s[i] = f
                                    THEN Row("queued", over[f], mount) ELSE file[f]]
<1>1. /\ s \in Seq(Files) /\ DOMAIN s = 1..Len(s)
      /\ \A i, j \in 1..Len(s) : s[i] = s[j] => i = j
  BY OrdersFacts
<1>2. rows = [f \in Files |-> IF \E i \in DOMAIN s : s[i] = f
                              THEN Row("queued", FALSE, mount) ELSE file[f]]
  BY <1>1
<1>3. Pump(mount, rows, pending[mount] \o s, active[mount], tries)
  BY <1>2, Zenon DEF Enqueue
<1>4. \A i \in 1..Len(s) : file[s[i]].st \notin {"queued", "uploading"}
  BY <1>1 DEF Enqueue
<1>5. over \in [Files -> BOOLEAN] /\ UNCHANGED <<exists, mount, mounted, replaced, unlisted>>
  BY DEF Enqueue, mvars
<1>6. rows = [f \in Files |-> IF \E i \in 1..Len(s) : s[i] = f
                              THEN Row("queued", over[f], mount) ELSE file[f]]
  OBVIOUS
<1> HIDE DEF rows, over
<1> QED
  BY <1>1, <1>3, <1>4, <1>5, <1>6, QueueStep

LEMMA RequeueStep ==
  ASSUME TypeOK, UploadInv, NEW s \in Seq(Files), NEW over \in [Files -> BOOLEAN],
         \A i, j \in 1..Len(s) : s[i] = s[j] => i = j, Requeue(s, over)
  PROVE  TypeOK' /\ UploadInv'
<1> DEFINE rows == [f \in Files |-> IF \E i \in 1..Len(s) : s[i] = f
                                    THEN Row("queued", over[f], mount) ELSE file[f]]
<1>1. DOMAIN s = 1..Len(s)
  BY LenProperties
<1>2. rows = [f \in Files |-> IF \E i \in DOMAIN s : s[i] = f
                              THEN Row("queued", over[f], mount) ELSE file[f]]
  BY <1>1
<1>3. Pump(mount, rows, pending[mount] \o s, active[mount], tries)
  BY <1>2, Zenon DEF Requeue
<1>4. \A i \in 1..Len(s) : file[s[i]].st \notin {"queued", "uploading"}
  BY <1>1 DEF Requeue, Requeueable
<1>5. UNCHANGED <<exists, mount, mounted, replaced, unlisted>>
  BY DEF Requeue, mvars
<1>6. rows = [f \in Files |-> IF \E i \in 1..Len(s) : s[i] = f
                              THEN Row("queued", over[f], mount) ELSE file[f]]
  OBVIOUS
<1> HIDE DEF rows
<1> QED
  BY <1>3, <1>4, <1>5, <1>6, QueueStep

\* The three buttons that put files back into the queue.
LEMMA AgainStep ==
  ASSUME TypeOK, UploadInv,
         OverwriteAll \/ \E f \in Files : OverwriteOne(f) \/ Retry(f)
  PROVE  TypeOK' /\ UploadInv'
<1>1. Overwriting \in [Files -> BOOLEAN] /\ [g \in Files |-> file[g].over] \in [Files -> BOOLEAN]
  BY DEF Overwriting, TypeOK
<1>2. ASSUME NEW f \in Files
      PROVE  /\ <<f>> \in Seq(Files)
             /\ \A i, j \in 1..Len(<<f>>) : <<f>>[i] = <<f>>[j] => i = j
  OBVIOUS
<1>3. ASSUME NEW f \in Files, OverwriteOne(f) PROVE TypeOK' /\ UploadInv'
  BY <1>1, <1>2, <1>3, RequeueStep DEF OverwriteOne
<1>4. ASSUME NEW f \in Files, Retry(f) PROVE TypeOK' /\ UploadInv'
  <2>1. Requeue(<<f>>, [g \in Files |-> file[g].over])
    BY <1>4 DEF Retry
  <2> QED
    BY <1>1, <1>2, <2>1, RequeueStep
<1>5. CASE OverwriteAll
  <2> DEFINE C == {f \in Files : Shown(f) /\ file[f].st = "conflict"}
  <2>1. PICK s \in Orders(C) : Requeue(s, Overwriting)
    BY <1>5 DEF OverwriteAll
  <2>2. C \in SUBSET Files
    OBVIOUS
  <2> HIDE DEF C
  <2>3. s \in Seq(Files) /\ \A i, j \in 1..Len(s) : s[i] = s[j] => i = j
    BY <2>1, <2>2, OrdersFacts
  <2> QED
    BY <1>1, <2>1, <2>3, RequeueStep
<1> QED
  BY <1>3, <1>4, <1>5

\* What consistency says of a request's own uploader.
LEMMA RequestFacts ==
  ASSUME TypeOK, UploadInv, NEW n \in InFlight
  PROVE  /\ n \in 1..Len(tries) /\ Len(tries) \in Nat
         /\ tries[n] \in Requests /\ tries[n].file \in Files /\ tries[n].in \in Mounts
         /\ n \in Waits(tries, tries[n].in)
         /\ file[tries[n].file].st = "uploading" /\ file[tries[n].file].in = tries[n].in
         /\ active[tries[n].in] = Cardinality(Waits(tries, tries[n].in))
         /\ active[tries[n].in] \in 1..MaxConcurrent
         /\ IsFiniteSet(Waits(tries, tries[n].in))
<1>1. n \in 1..Len(tries) /\ tries[n].cli = "waits" /\ tries \in Seq(Requests)
  BY DEF InFlight, TypeOK, Requests
<1>2. tries[n] \in Requests /\ Len(tries) \in Nat
  BY <1>1, ElementOfSeq, LenProperties
<1>3. tries[n].file \in Files /\ tries[n].in \in Mounts
  BY <1>2 DEF Requests
<1> DEFINE m == tries[n].in
           W == Waits(tries, m)
<1>4. n \in W
  BY <1>1 DEF Waits
<1>5. /\ file[tries[n].file].st = "uploading" /\ file[tries[n].file].in = m
      /\ active[m] = Cardinality(W)
  BY <1>3, <1>4 DEF UploadInv, Consistent
<1>6. IsFiniteSet(W)
  <2>1. W \in SUBSET (1..Len(tries)) /\ IsFiniteSet(1..Len(tries))
    BY <1>2, FS_Interval DEF Waits
  <2> QED
    BY <2>1, FS_Subset
<1>7. active[m] \in 0..MaxConcurrent /\ MaxConcurrent \in Nat
  BY <1>3, UploadAssumption DEF TypeOK
<1> HIDE DEF W
<1>8. Cardinality(W) # 0
  BY <1>4, <1>6, FS_EmptySet
<1>9. active[m] \in 1..MaxConcurrent
  BY <1>5, <1>7, <1>8
<1> QED
  BY <1>1, <1>2, <1>3, <1>4, <1>5, <1>6, <1>9 DEF W

\* The browser stops waiting for a request, and its row leaves "uploading".
LEMMA SettledConsistent ==
  ASSUME TypeOK, UploadInv, NEW n \in InFlight, NEW st \in {"done", "conflict", "error"},
         NEW m, m = tries[n].in,
         NEW rows, rows = [file EXCEPT ![tries[n].file].st = st],
         NEW ts, ts = [tries EXCEPT ![n].cli = "settled"],
         NEW counts, counts = [active EXCEPT ![m] = active[m] - 1]
  PROVE  /\ rows \in [Files -> Rows] /\ ts \in Seq(Requests)
         /\ Consistent(rows, pending, counts, ts) /\ StillFree(ts)
<1>1. /\ n \in 1..Len(tries) /\ Len(tries) \in Nat
      /\ tries[n] \in Requests /\ tries[n].file \in Files /\ m \in Mounts
      /\ n \in Waits(tries, m)
      /\ file[tries[n].file].st = "uploading" /\ file[tries[n].file].in = m
      /\ active[m] = Cardinality(Waits(tries, m)) /\ IsFiniteSet(Waits(tries, m))
  BY RequestFacts
<1>2. /\ \A f \in Files \ {tries[n].file} : rows[f] = file[f]
      /\ rows \in [Files -> Rows]
  <2>1. file \in [Files -> Rows]
    BY DEF TypeOK, Rows
  <2>2. [file[tries[n].file] EXCEPT !.st = st] \in Rows
    BY <1>1, <2>1 DEF Rows
  <2> QED
    BY <1>1, <2>1, <2>2
<1>3. /\ ts \in Seq(Requests) /\ Len(ts) = Len(tries) /\ ts[n].cli = "settled"
      /\ ts[n].in = m
      /\ \A j \in 1..Len(tries) : j # n => ts[j] = tries[j]
      /\ \A j \in 1..Len(tries) : /\ ts[j].file = tries[j].file /\ ts[j].srv = tries[j].srv
                                  /\ ts[j].over = tries[j].over /\ ts[j].raced = tries[j].raced
  <2>1. tries \in Seq(Requests)
    BY DEF TypeOK, Requests
  <2>2. [tries[n] EXCEPT !.cli = "settled"] \in Requests
    BY <1>1 DEF Requests
  <2>3. ts = [tries EXCEPT ![n] = [tries[n] EXCEPT !.cli = "settled"]]
    OBVIOUS
  <2>4. ts \in Seq(Requests) /\ Len(ts) = Len(tries)
    BY <1>1, <2>1, <2>2, <2>3, ExceptSeq
  <2>5. /\ ts[n] = [tries[n] EXCEPT !.cli = "settled"]
        /\ \A j \in 1..Len(tries) : j # n => ts[j] = tries[j]
    BY <1>1, <2>1, <2>2, <2>3, ExceptSeq
  <2>6. /\ ts[n].cli = "settled" /\ ts[n].in = m /\ ts[n].file = tries[n].file
        /\ ts[n].srv = tries[n].srv /\ ts[n].over = tries[n].over /\ ts[n].raced = tries[n].raced
    BY <1>1, <2>5 DEF Requests
  <2> QED
    BY <2>4, <2>5, <2>6
<1>4. \A o \in Mounts \ {m} : Waits(ts, o) = Waits(tries, o)
  BY <1>1, <1>3 DEF Waits
<1>5. Waits(ts, m) = Waits(tries, m) \ {n}
  BY <1>1, <1>3 DEF Waits
<1>6. \A o \in Mounts :
        /\ \A i \in 1..Len(pending[o]) :
             /\ pending[o][i] \in Files
             /\ file[pending[o][i]].st = "queued" /\ file[pending[o][i]].in = o
        /\ \A i, j \in 1..Len(pending[o]) : pending[o][i] = pending[o][j] => i = j
        /\ \A j \in Waits(tries, o) :
             /\ j \in 1..Len(tries) /\ tries[j].file \in Files
             /\ file[tries[j].file].st = "uploading" /\ file[tries[j].file].in = o
        /\ \A j, l \in Waits(tries, o) : tries[j].file = tries[l].file => j = l
        /\ active[o] = Cardinality(Waits(tries, o))
  <2>1. \A j \in 1..Len(tries) : tries[j].file \in Files
    <3>1. \A j \in 1..Len(tries) : tries[j] \in Requests
      BY ElementOfSeq DEF TypeOK, Requests
    <3> QED
      BY <3>1 DEF Requests
  <2>2. \A o \in Mounts : \A i \in 1..Len(pending[o]) : pending[o][i] \in Files
    BY ElementOfSeq DEF TypeOK
  <2>3. \A o \in Mounts : \A j \in Waits(tries, o) : j \in 1..Len(tries)
    BY DEF Waits
  <2> QED
    BY <2>1, <2>2, <2>3 DEF UploadInv, Consistent
\* No other request of any uploader carries the file.
<1>7. ASSUME NEW o \in Mounts, NEW j \in Waits(ts, o)
      PROVE  /\ j \in Waits(tries, o) /\ tries[j].file # tries[n].file
             /\ ts[j].file = tries[j].file
  <2>1. j \in Waits(tries, o) /\ j # n
    BY <1>1, <1>3, <1>4, <1>5 DEF Waits
  <2>2. tries[j].file # tries[n].file
    <3>1. SUFFICES ASSUME tries[j].file = tries[n].file PROVE FALSE
      OBVIOUS
    <3>2. o = m
      BY <1>1, <1>6, <2>1, <3>1
    <3> QED
      BY <1>1, <1>6, <2>1, <3>1, <3>2
  <2> QED
    BY <1>3, <1>6, <2>1, <2>2
<1>8. Consistent(rows, pending, counts, ts)
  <2>1. ASSUME NEW o \in Mounts, NEW i \in 1..Len(pending[o])
        PROVE  rows[pending[o][i]].st = "queued" /\ rows[pending[o][i]].in = o
    <3>1. pending[o][i] \in Files \ {tries[n].file} /\ file[pending[o][i]].st = "queued"
          /\ file[pending[o][i]].in = o
      BY <1>1, <1>6
    <3> QED
      BY <1>2, <3>1
  <2>2. ASSUME NEW o \in Mounts, NEW j \in Waits(ts, o)
        PROVE  rows[ts[j].file].st = "uploading" /\ rows[ts[j].file].in = o
    <3>1. j \in Waits(tries, o) /\ tries[j].file # tries[n].file /\ ts[j].file = tries[j].file
      BY <1>7
    <3>2. /\ tries[j].file \in Files
          /\ file[tries[j].file].st = "uploading" /\ file[tries[j].file].in = o
      BY <1>6, <3>1
    <3> QED
      BY <1>2, <3>1, <3>2
  <2>3. ASSUME NEW o \in Mounts, NEW j \in Waits(ts, o), NEW l \in Waits(ts, o),
               ts[j].file = ts[l].file
        PROVE  j = l
    <3>1. j \in Waits(tries, o) /\ ts[j].file = tries[j].file
      BY <1>7
    <3>2. l \in Waits(tries, o) /\ ts[l].file = tries[l].file
      BY <1>7
    <3>3. tries[j].file = tries[l].file
      BY <2>3, <3>1, <3>2
    <3> QED
      BY <1>6, <3>1, <3>2, <3>3
  <2>4. ASSUME NEW o \in Mounts PROVE counts[o] = Cardinality(Waits(ts, o))
    <3>1. CASE o = m
      <4>1. Cardinality(Waits(tries, m) \ {n}) = Cardinality(Waits(tries, m)) - 1
        BY <1>1, FS_RemoveElement
      <4>2. counts[m] = active[m] - 1
        BY <1>1 DEF TypeOK
      <4> QED
        BY <1>1, <1>5, <3>1, <4>1, <4>2
    <3>2. CASE o # m
      <4>1. counts[o] = active[o]
        BY <3>2 DEF TypeOK
      <4> QED
        BY <1>4, <1>6, <3>2, <4>1
    <3> QED
      BY <3>1, <3>2
  <2> QED
    BY <1>6, <2>1, <2>2, <2>3, <2>4 DEF Consistent
<1>9. StillFree(ts)
  <2>1. StillFree(tries)
    BY DEF UploadInv
  <2> QED
    BY <1>3, <2>1 DEF StillFree
<1> QED
  BY <1>2, <1>3, <1>8, <1>9

LEMMA SettleStep ==
  ASSUME TypeOK, UploadInv, NEW n \in InFlight, NEW st \in {"done", "conflict", "error"},
         Settle(n, st)
  PROVE  TypeOK' /\ UploadInv'
<1> DEFINE m == tries[n].in
           rows == [file EXCEPT ![tries[n].file].st = st]
           ts == [tries EXCEPT ![n].cli = "settled"]
           queue == pending[m]
           left == active[m] - 1
           queues == [pending EXCEPT ![m] = queue]
           counts == [active EXCEPT ![m] = left]
<1>1. /\ m \in Mounts /\ file[tries[n].file].in = m
      /\ active[m] \in 1..MaxConcurrent
  BY RequestFacts
<1>2. left \in 0..MaxConcurrent
  BY <1>1, UploadAssumption
<1>3. /\ Pump(m, rows, queue, left, ts)
      /\ unlisted' = [unlisted EXCEPT ![m] = Refreshed(m, active'[m], st)]
      /\ UNCHANGED <<exists, mount, mounted, replaced>>
  BY <1>1 DEF Settle, SlotsAfter, mvars
<1>4. queues = pending /\ queue \in Seq(Files)
  BY <1>1 DEF TypeOK
<1>5. /\ rows \in [Files -> Rows] /\ ts \in Seq(Requests)
      /\ Consistent(rows, pending, counts, ts) /\ StillFree(ts)
  BY SettledConsistent
<1>6. /\ unlisted' \in [Mounts -> BOOLEAN]
      /\ \A o \in Mounts \ {m} : unlisted'[o] = unlisted[o]
      /\ unlisted'[m] = IF active'[m] = 0 THEN FALSE ELSE unlisted[m]
  BY <1>1, <1>3 DEF Refreshed, TypeOK
<1>7. active'[m] = 0 => ~unlisted'[m]
  BY <1>6
<1>8. Consistent(rows, queues, counts, ts)
  BY <1>4, <1>5, Zenon
<1>9. /\ queues = [pending EXCEPT ![m] = queue]
      /\ counts = [active EXCEPT ![m] = left]
  OBVIOUS
<1>10. \A o \in Mounts \ {m} : unlisted'[o] = unlisted[o]
  BY <1>6
<1>11. UNCHANGED <<exists, mount, mounted, replaced>>
  BY <1>3
<1>12. Pump(m, rows, queue, left, ts)
  BY <1>3
<1>13. m \in Mounts /\ rows \in [Files -> Rows] /\ queue \in Seq(Files) /\ ts \in Seq(Requests)
       /\ StillFree(ts) /\ unlisted' \in [Mounts -> BOOLEAN]
  BY <1>1, <1>4, <1>5, <1>6
<1> HIDE DEF m, left, rows, ts, queue, queues, counts
<1> QED
  BY <1>2, <1>7, <1>8, <1>9, <1>10, <1>11, <1>12, <1>13, PumpStep

\* Rows that are neither queued nor uploading do not matter to the story.
LEMMA DismissStep ==
  ASSUME TypeOK, UploadInv, NEW S \in SUBSET Files, Dismiss(S)
  PROVE  TypeOK' /\ UploadInv'
<1>1. /\ file' = [f \in Files |-> IF f \in S THEN Row("none", FALSE, mount) ELSE file[f]]
      /\ UNCHANGED <<exists, mount, mounted, pending, active, tries, foreign, replaced, unlisted>>
      /\ \A f \in S : file[f].st \in {"conflict", "done", "error"}
  BY DEF Dismiss, mvars
<1>2. TypeOK'
  <2>1. \A f \in Files : file[f] \in Rows /\ Row("none", FALSE, mount) \in Rows
    BY DEF TypeOK, Row, Rows
  <2>2. file' \in [Files -> Rows]
    BY <1>1, <2>1
  <2> QED
    BY <1>1, <2>2 DEF TypeOK, Rows
<1>3. \A f \in Files : file[f].st \in {"queued", "uploading"} => file'[f] = file[f]
  BY <1>1
<1>4. ASSUME NEW o \in Mounts
      PROVE  /\ \A i \in 1..Len(pending[o]) : pending[o][i] \in Files
             /\ \A n \in Waits(tries, o) : tries[n].file \in Files
  <2>1. \A i \in 1..Len(pending[o]) : pending[o][i] \in Files
    BY ElementOfSeq DEF TypeOK
  <2>2. \A n \in 1..Len(tries) : tries[n] \in Requests
    BY ElementOfSeq DEF TypeOK, Requests
  <2> QED
    BY <2>1, <2>2 DEF Waits, Requests
<1>5. Consistent(file', pending, active, tries)
  BY <1>3, <1>4 DEF UploadInv, Consistent
<1>6. Consistent(file', pending', active', tries')
  <2>1. pending' = pending /\ active' = active /\ tries' = tries
    BY <1>1
  <2> QED
    BY <1>5, <2>1
<1> QED
  BY <1>1, <1>2, <1>6 DEF UploadInv, StillFree, ReplacesOnlyRaced, ListingRefreshed

-----------------------------------------------------------------------------
(* The handler and the others *)

\* What the handlers do to their requests is not seen by the queue.
LEMMA SameStory ==
  ASSUME TypeOK, UploadInv, NEW us, Len(us) = Len(tries),
         \A i \in 1..Len(tries) : /\ us[i].file = tries[i].file /\ us[i].in = tries[i].in
                                  /\ us[i].cli = tries[i].cli
  PROVE  Consistent(file, pending, active, us)
<1>1. \A o \in Mounts : Waits(us, o) = Waits(tries, o) /\ Waits(tries, o) \subseteq 1..Len(tries)
  BY DEF Waits
<1> QED
  BY <1>1 DEF UploadInv, Consistent

LEMMA ServeStep ==
  ASSUME TypeOK, UploadInv, NEW n \in 1..Len(tries), NEW srv \in {"write", "conflict", "failed"},
         srv = "write" => FoundFree(n), Serve(n, srv), UNCHANGED <<exists, replaced, unlisted>>
  PROVE  TypeOK' /\ UploadInv'
<1>1. /\ tries' = [tries EXCEPT ![n].srv = srv]
      /\ UNCHANGED <<exists, mount, mounted, file, pending, active, foreign, replaced, unlisted>>
  BY DEF Serve, mvars
<1>2. tries \in Seq(Requests) /\ tries[n] \in Requests
  BY ElementOfSeq DEF TypeOK, Requests
<1>3. [tries[n] EXCEPT !.srv = srv] \in Requests
  BY <1>2 DEF Requests
<1>4. tries' = [tries EXCEPT ![n] = [tries[n] EXCEPT !.srv = srv]]
  BY <1>1
<1>5. /\ tries' \in Seq(Requests) /\ Len(tries') = Len(tries)
      /\ tries'[n] = [tries[n] EXCEPT !.srv = srv]
      /\ \A j \in 1..Len(tries) : j # n => tries'[j] = tries[j]
  BY <1>2, <1>3, <1>4, ExceptSeq
<1>6. /\ tries'[n].srv = srv /\ tries'[n].file = tries[n].file /\ tries'[n].in = tries[n].in
      /\ tries'[n].cli = tries[n].cli /\ tries'[n].over = tries[n].over
  BY <1>2, <1>5 DEF Requests
<1>7. TypeOK'
  BY <1>1, <1>5 DEF TypeOK, Requests
<1>8. Consistent(file', pending', active', tries')
  <2>1. Consistent(file, pending, active, tries')
    BY <1>5, <1>6, SameStory
  <2>2. file' = file /\ pending' = pending /\ active' = active
    BY <1>1
  <2> QED
    BY <2>1, <2>2
<1>9. StillFree(tries)'
  <2> SUFFICES ASSUME NEW j \in 1..Len(tries'), tries'[j].srv = "write", ~tries'[j].over,
                      ~tries'[j].raced
               PROVE  KeyOf[tries'[j].file] \notin exists'
    BY DEF StillFree
  <2>1. CASE j = n
    BY <1>1, <1>6, <2>1 DEF FoundFree
  <2>2. CASE j # n
    BY <1>1, <1>5, <2>2 DEF UploadInv, StillFree
  <2> QED
    BY <2>1, <2>2
<1> QED
  BY <1>1, <1>7, <1>8, <1>9 DEF UploadInv, ReplacesOnlyRaced, ListingRefreshed

\* Somebody writes key k: who was told that it is free is overtaken.
Overtaken(t, k) == [t EXCEPT !.raced = @ \/ (KeyOf[t.file] = k /\ t.srv = "write")]

LEMMA OvertakenFacts ==
  ASSUME NEW t \in Requests, NEW k
  PROVE  /\ Overtaken(t, k) \in Requests
         /\ Overtaken(t, k).file = t.file /\ Overtaken(t, k).in = t.in
         /\ Overtaken(t, k).cli = t.cli /\ Overtaken(t, k).srv = t.srv
         /\ Overtaken(t, k).over = t.over
         /\ ~Overtaken(t, k).raced => ~t.raced /\ ~(KeyOf[t.file] = k /\ t.srv = "write")
<1>1. t.raced \in BOOLEAN
  BY DEF Requests
<1>2. (t.raced \/ (KeyOf[t.file] = k /\ t.srv = "write")) \in BOOLEAN
  BY Zenon
<1> DEFINE b == t.raced \/ (KeyOf[t.file] = k /\ t.srv = "write")
<1>3. Overtaken(t, k) = [t EXCEPT !.raced = b]
  BY DEF Overtaken
<1> HIDE DEF b
<1>4. b \in BOOLEAN
  BY <1>2 DEF b
<1>5. /\ [t EXCEPT !.raced = b] \in Requests
      /\ [t EXCEPT !.raced = b].file = t.file /\ [t EXCEPT !.raced = b].in = t.in
      /\ [t EXCEPT !.raced = b].cli = t.cli /\ [t EXCEPT !.raced = b].srv = t.srv
      /\ [t EXCEPT !.raced = b].over = t.over /\ [t EXCEPT !.raced = b].raced = b
  BY <1>4 DEF Requests
<1>6. ~b => ~t.raced /\ ~(KeyOf[t.file] = k /\ t.srv = "write")
  BY Zenon DEF b
<1> QED
  BY <1>3, <1>5, <1>6, Zenon

LEMMA PutStep ==
  ASSUME TypeOK, UploadInv, NEW k \in Keys, Put(k)
  PROVE  TypeOK' /\ UploadInv'
<1>1. /\ exists' = exists \cup {k}
      /\ tries' = [i \in 1..Len(tries) |-> Overtaken(tries[i], k)]
      /\ UNCHANGED <<mount, mounted, file, pending, active, replaced, unlisted>>
  BY DEF Put, Overtaken, mvars
<1>2. /\ tries \in Seq(Requests) /\ Len(tries) \in Nat
      /\ \A i \in 1..Len(tries) : tries[i] \in Requests
  BY ElementOfSeq, LenProperties DEF TypeOK, Requests
<1>3. \A i \in 1..Len(tries) : tries'[i] = Overtaken(tries[i], k)
  BY <1>1
<1>4. tries' \in Seq(Requests) /\ Len(tries') = Len(tries)
  <2>1. tries' \in [1..Len(tries) -> Requests]
    BY <1>1, <1>2, OvertakenFacts
  <2>2. tries' \in Seq(Requests)
    BY <1>2, <2>1, SeqDef
  <2> QED
    BY <1>2, <2>1, <2>2, LenProperties
<1>5. TypeOK'
  BY <1>1, <1>4 DEF TypeOK, Requests
<1>6. \A i \in 1..Len(tries) :
        /\ tries'[i].file = tries[i].file /\ tries'[i].in = tries[i].in
        /\ tries'[i].cli = tries[i].cli /\ tries'[i].srv = tries[i].srv
        /\ tries'[i].over = tries[i].over
        /\ ~tries'[i].raced => ~tries[i].raced /\ ~(KeyOf[tries[i].file] = k /\ tries[i].srv = "write")
  BY <1>2, <1>3, OvertakenFacts
<1>7. Consistent(file', pending', active', tries')
  <2>1. Consistent(file, pending, active, tries')
    BY <1>4, <1>6, SameStory
  <2>2. file' = file /\ pending' = pending /\ active' = active
    BY <1>1
  <2> QED
    BY <2>1, <2>2
<1>8. StillFree(tries)'
  <2> SUFFICES ASSUME NEW j \in 1..Len(tries'), tries'[j].srv = "write", ~tries'[j].over,
                      ~tries'[j].raced
               PROVE  KeyOf[tries'[j].file] \notin exists'
    BY DEF StillFree
  <2>1. j \in 1..Len(tries)
    BY <1>4
  <2>2. tries[j].srv = "write" /\ ~tries[j].over /\ ~tries[j].raced /\ KeyOf[tries[j].file] # k
    BY <1>6, <2>1
  <2>3. KeyOf[tries[j].file] \notin exists
    BY <2>1, <2>2 DEF UploadInv, StillFree
  <2>4. tries'[j].file = tries[j].file
    BY <1>6, <2>1
  <2> QED
    BY <1>1, <2>2, <2>3, <2>4
<1> QED
  BY <1>1, <1>5, <1>7, <1>8 DEF UploadInv, ReplacesOnlyRaced, ListingRefreshed

LEMMA WritesStep ==
  ASSUME TypeOK, UploadInv, NEW n \in 1..Len(tries), NEW srv \in {"written", "failed"},
         Writes(n, srv)
  PROVE  TypeOK' /\ UploadInv'
<1> DEFINE t == tries[n]
           k == KeyOf[t.file]
<1>1. /\ t.srv = "write" /\ exists' = exists \cup {k}
      /\ tries' = [i \in 1..Len(tries) |-> IF i = n THEN [t EXCEPT !.srv = srv]
                                           ELSE Overtaken(tries[i], k)]
      /\ replaced' = IF k \in exists /\ ~t.over /\ ~t.raced THEN replaced \cup {n} ELSE replaced
      /\ unlisted' = [unlisted EXCEPT ![t.in] = @ \/ t.cli = "waits"]
      /\ UNCHANGED <<mount, mounted, file, pending, active, foreign>>
  BY DEF Writes, Overtaken, mvars
<1>2. /\ tries \in Seq(Requests) /\ Len(tries) \in Nat
      /\ \A i \in 1..Len(tries) : tries[i] \in Requests
  BY ElementOfSeq, LenProperties DEF TypeOK, Requests
<1>3. t \in Requests /\ t.file \in Files /\ t.in \in Mounts /\ k \in Keys
  <2>1. t \in Requests
    BY <1>2
  <2> QED
    BY <2>1, UploadAssumption DEF Requests
<1>4. /\ [t EXCEPT !.srv = srv] \in Requests
      /\ [t EXCEPT !.srv = srv].file = t.file /\ [t EXCEPT !.srv = srv].in = t.in
      /\ [t EXCEPT !.srv = srv].cli = t.cli /\ [t EXCEPT !.srv = srv].srv = srv
  BY <1>3 DEF Requests
<1> HIDE DEF t, k
<1>5. /\ tries'[n] = [t EXCEPT !.srv = srv]
      /\ \A i \in 1..Len(tries) : i # n => tries'[i] = Overtaken(tries[i], k)
  BY <1>1
<1>6. tries' \in Seq(Requests) /\ Len(tries') = Len(tries)
  <2>1. tries' \in [1..Len(tries) -> Requests]
    BY <1>1, <1>2, <1>4, OvertakenFacts
  <2>2. tries' \in Seq(Requests)
    BY <1>2, <2>1, SeqDef
  <2> QED
    BY <1>2, <2>1, <2>2, LenProperties
<1>7. \A i \in 1..Len(tries) :
        /\ tries'[i].file = tries[i].file /\ tries'[i].in = tries[i].in
        /\ tries'[i].cli = tries[i].cli
        /\ i # n => /\ tries'[i].srv = tries[i].srv /\ tries'[i].over = tries[i].over
                    /\ ~tries'[i].raced => /\ ~tries[i].raced
                                           /\ ~(KeyOf[tries[i].file] = k /\ tries[i].srv = "write")
  <2> TAKE i \in 1..Len(tries)
  <2>1. CASE i = n
    BY <1>4, <1>5, <2>1 DEF t
  <2>2. CASE i # n
    BY <1>2, <1>5, <2>2, OvertakenFacts
  <2> QED
    BY <2>1, <2>2
<1>8. /\ unlisted' \in [Mounts -> BOOLEAN]
      /\ \A o \in Mounts : unlisted'[o] => unlisted[o] \/ (o = t.in /\ t.cli = "waits")
  <2>1. unlisted \in [Mounts -> BOOLEAN]
    BY DEF TypeOK
  <2>2. \A o \in Mounts : unlisted'[o] = IF o = t.in THEN unlisted[o] \/ t.cli = "waits"
                                         ELSE unlisted[o]
    BY <1>1, <1>3, <2>1
  <2>3. \A o \in Mounts : unlisted'[o] \in BOOLEAN
    BY <2>1, <2>2, Zenon
  <2>4. DOMAIN unlisted' = Mounts /\ unlisted' = [o \in Mounts |-> unlisted'[o]]
    BY <1>1, <2>1
  <2> QED
    BY <2>2, <2>3, <2>4, Zenon
<1>9. TypeOK'
  BY <1>1, <1>3, <1>6, <1>8 DEF TypeOK, Requests
<1>10. Consistent(file', pending', active', tries')
  <2>1. Consistent(file, pending, active, tries')
    BY <1>6, <1>7, SameStory
  <2>2. file' = file /\ pending' = pending /\ active' = active
    BY <1>1
  <2> QED
    BY <2>1, <2>2
<1>11. StillFree(tries)'
  <2> SUFFICES ASSUME NEW j \in 1..Len(tries'), tries'[j].srv = "write", ~tries'[j].over,
                      ~tries'[j].raced
               PROVE  KeyOf[tries'[j].file] \notin exists'
    BY DEF StillFree
  <2>1. j \in 1..Len(tries) /\ j # n
    BY <1>4, <1>5, <1>6
  <2>2. tries[j].srv = "write" /\ ~tries[j].over /\ ~tries[j].raced /\ KeyOf[tries[j].file] # k
    BY <1>7, <2>1
  <2>3. KeyOf[tries[j].file] \notin exists
    BY <2>1, <2>2 DEF UploadInv, StillFree
  <2>4. tries'[j].file = tries[j].file
    BY <1>7, <2>1
  <2> QED
    BY <1>1, <2>2, <2>3, <2>4
<1>12. replaced' = replaced
  <2>1. t.srv = "write" /\ ~t.over /\ ~t.raced => k \notin exists
    BY DEF UploadInv, StillFree, t, k
  <2> QED
    BY <1>1, <2>1
<1>13. ListingRefreshed'
  <2> SUFFICES ASSUME NEW o \in Mounts, active'[o] = 0, unlisted'[o] PROVE FALSE
    BY DEF ListingRefreshed
  <2>1. CASE unlisted[o]
    BY <1>1, <2>1 DEF UploadInv, ListingRefreshed
  <2>2. CASE o = t.in /\ t.cli = "waits"
    <3>1. n \in InFlight
      BY <2>2 DEF InFlight, t
    <3>2. active[tries[n].in] \in 1..MaxConcurrent
      BY <3>1, RequestFacts
    <3> QED
      BY <1>1, <2>2, <3>2 DEF t
  <2> QED
    BY <1>8, <2>1, <2>2
<1> QED
  BY <1>1, <1>9, <1>10, <1>11, <1>12, <1>13 DEF UploadInv, ReplacesOnlyRaced

LEMMA RemoveStep ==
  ASSUME TypeOK, UploadInv, NEW k \in Keys, Remove(k)
  PROVE  TypeOK' /\ UploadInv'
<1>1. /\ exists' = exists \ {k}
      /\ UNCHANGED <<mount, mounted, file, pending, active, tries, replaced, unlisted>>
  BY DEF Remove, mvars, qvars
<1>2. TypeOK'
  BY <1>1 DEF TypeOK
<1>3. StillFree(tries)'
  BY <1>1 DEF UploadInv, StillFree
<1> QED
  BY <1>1, <1>2, <1>3 DEF UploadInv, Consistent, ReplacesOnlyRaced, ListingRefreshed

LEMMA MountStep ==
  ASSUME TypeOK, UploadInv, Unmount \/ Mount \/ UNCHANGED vars
  PROVE  TypeOK' /\ UploadInv'
<1>1. UNCHANGED <<exists, file, pending, active, tries, replaced, unlisted>>
  BY DEF Unmount, Mount, vars, qvars, mvars
<1>2. mount' \in Mounts /\ mounted' \in BOOLEAN
  <2>1. mount \in Mounts /\ mounted \in BOOLEAN
    BY DEF TypeOK
  <2>2. ASSUME Mount PROVE mount' \in Mounts /\ mounted' \in BOOLEAN
    BY <2>1, <2>2, UploadAssumption DEF Mount, Mounts
  <2> QED
    BY <2>1, <2>2 DEF Unmount, vars, mvars
<1>3. TypeOK'
  BY <1>1, <1>2 DEF TypeOK
<1> QED
  BY <1>1, <1>3 DEF UploadInv, Consistent, StillFree, ReplacesOnlyRaced, ListingRefreshed

LEMMA UploadInit == Init => TypeOK /\ UploadInv
<1> SUFFICES ASSUME Init PROVE TypeOK /\ UploadInv
  OBVIOUS
<1>1. 1 \in Mounts /\ 0 \in 0..MaxConcurrent
  BY UploadAssumption DEF Mounts
<1>2. /\ exists \in SUBSET Keys /\ mount = 1 /\ mounted = TRUE
      /\ file = [f \in Files |-> [st |-> "none", over |-> FALSE, in |-> 1]]
      /\ pending = [m \in Mounts |-> <<>>] /\ active = [m \in Mounts |-> 0]
      /\ tries = <<>> /\ replaced = {} /\ unlisted = [m \in Mounts |-> FALSE]
  BY DEF Init, Row
<1>3. tries \in Seq(Requests) /\ Len(tries) = 0 /\ <<>> \in Seq(Files)
  BY <1>2
<1>4. TypeOK
  <2>1. file \in [Files -> Rows]
    BY <1>1, <1>2 DEF Rows
  <2> QED
    BY <1>1, <1>2, <1>3, <2>1 DEF TypeOK, Rows, Requests
<1>5. \A m \in Mounts : Waits(tries, m) = {} /\ Cardinality(Waits(tries, m)) = 0
  <2>1. \A m \in Mounts : Waits(tries, m) = {}
    BY <1>3 DEF Waits
  <2> QED
    BY <2>1, FS_EmptySet
<1>6. Consistent(file, pending, active, tries)
  <2>1. \A m \in Mounts : Len(pending[m]) = 0 /\ active[m] = 0
    BY <1>2
  <2> QED
    BY <1>5, <2>1 DEF Consistent
<1>7. StillFree(tries)
  BY <1>3 DEF StillFree
<1> QED
  BY <1>2, <1>4, <1>6, <1>7 DEF UploadInv, ReplacesOnlyRaced, ListingRefreshed

LEMMA UploadNext == TypeOK /\ UploadInv /\ [Next]_vars => TypeOK' /\ UploadInv'
<1> SUFFICES ASSUME TypeOK, UploadInv, [Next]_vars PROVE TypeOK' /\ UploadInv'
  OBVIOUS
<1>1. ASSUME NEW S \in SUBSET Files, Dismiss(S) PROVE TypeOK' /\ UploadInv'
  BY <1>1, DismissStep
<1>2. ASSUME NEW S \in SUBSET Files, NEW s \in Orders(S), Enqueue(s) PROVE TypeOK' /\ UploadInv'
  BY <1>2, EnqueueStep
<1>3. CASE OverwriteAll \/ \E f \in Files : OverwriteOne(f) \/ Retry(f)
  BY <1>3, AgainStep
<1>4. ASSUME NEW n \in 1..Len(tries), Answer(n) \/ Break(n) PROVE TypeOK' /\ UploadInv'
  <2>1. n \in InFlight /\ \E st \in {"done", "conflict", "error"} : Settle(n, st)
    BY <1>4 DEF Answer, Break
  <2> QED
    BY <2>1, SettleStep
<1>5. ASSUME NEW n \in 1..Len(tries), Handler(n) PROVE TypeOK' /\ UploadInv'
  <2>1. CASE PassesCheck(n)
    BY <2>1, ServeStep DEF PassesCheck
  <2>2. CASE FindsConflict(n)
    BY <2>2, ServeStep DEF FindsConflict
  <2>3. CASE Fails(n)
    BY <2>3, ServeStep DEF Fails
  <2>4. CASE Writes(n, "written") \/ Writes(n, "failed")
    BY <2>4, WritesStep
  <2> QED
    BY <1>5, <2>1, <2>2, <2>3, <2>4 DEF Handler
<1>6. CASE Unmount \/ Mount \/ UNCHANGED vars
  BY <1>6, MountStep
<1>7. ASSUME NEW k \in Keys, Put(k) \/ Remove(k) PROVE TypeOK' /\ UploadInv'
  BY <1>7, PutStep, RemoveStep
<1> QED
  BY <1>1, <1>2, <1>3, <1>4, <1>5, <1>6, <1>7 DEF Next

\* Every variable of the uploaders and of their requests has its type.
THEOREM TypeCorrect == Spec => []TypeOK
<1>1. Init => TypeOK /\ UploadInv
  BY UploadInit
<1>2. TypeOK /\ UploadInv /\ [Next]_vars => (TypeOK /\ UploadInv)'
  BY UploadNext
<1> QED
  BY <1>1, <1>2, PTL DEF Spec

\* The rows, queues, counts and requests agree at every step.
LEMMA Agreement == Spec => [](TypeOK /\ UploadInv)
<1>1. Init => TypeOK /\ UploadInv
  BY UploadInit
<1>2. TypeOK /\ UploadInv /\ [Next]_vars => (TypeOK /\ UploadInv)'
  BY UploadNext
<1> QED
  BY <1>1, <1>2, PTL DEF Spec

LEMMA WaitsAreSent == ASSUME NEW m \in Mounts PROVE Sending(m) = Waits(tries, m)
BY DEF Sending, InFlight, Waits

\* No file is queued or in flight twice in one uploader, however the buttons,
\* the answers and the pump interleave: Requeueable looks at the rows, and a
\* row says "queued" or "uploading" exactly while the file is.
THEOREM NoDoubleStart == Spec => []EachFileOnce
<1>1. TypeOK /\ UploadInv => EachFileOnce
  <2> SUFFICES ASSUME TypeOK, UploadInv, NEW m \in Mounts
               PROVE  /\ \A i, j \in 1..Len(pending[m]) : pending[m][i] = pending[m][j] => i = j
                      /\ \A n \in Sending(m) : tries[n].file \notin Queued(m)
                      /\ \A n, o \in Sending(m) : tries[n].file = tries[o].file => n = o
    BY DEF EachFileOnce
  <2>1. /\ \A i \in 1..Len(pending[m]) : file[pending[m][i]].st = "queued"
        /\ \A i, j \in 1..Len(pending[m]) : pending[m][i] = pending[m][j] => i = j
        /\ \A n \in Waits(tries, m) : file[tries[n].file].st = "uploading"
        /\ \A n, o \in Waits(tries, m) : tries[n].file = tries[o].file => n = o
    BY DEF UploadInv, Consistent
  <2>2. Sending(m) = Waits(tries, m)
    BY WaitsAreSent
  <2> QED
    BY <2>1, <2>2 DEF Queued
<1> QED
  BY <1>1, Agreement, PTL

\* Whatever order requests end in, and whether or not the uploader is still
\* there, its count is the number of requests in flight and nothing waits while
\* a slot is free: pumpUploads runs after every change of either.
THEOREM SlotsAreUsed == Spec => []NoIdleSlot
<1>1. TypeOK /\ UploadInv => NoIdleSlot
  BY WaitsAreSent DEF UploadInv, Consistent, NoIdleSlot
<1> QED
  BY <1>1, Agreement, PTL

\* An upload that may not overwrite replaces only what was written between its
\* HeadObject and its PutObject.
THEOREM OnlyRacesReplace == Spec => []ReplacesOnlyRaced
<1>1. TypeOK /\ UploadInv => ReplacesOnlyRaced
  BY DEF UploadInv
<1> QED
  BY <1>1, Agreement, PTL

\* The listing is refreshed when a queue has drained, although only the last
\* answer of the queue refreshes it.
THEOREM DrainedIsListed == Spec => []ListingRefreshed
<1>1. TypeOK /\ UploadInv => ListingRefreshed
  BY DEF UploadInv
<1> QED
  BY <1>1, Agreement, PTL

-----------------------------------------------------------------------------
(* The page of the object browser.  Its proof follows the data: one cached *)
(* listing, the cache, the grants that judge its errors, then the page's    *)
(* other state, one lemma per group of steps.                               *)

(* One cached listing *)

Marks == [fetch : BOOLEAN, data : BOOLEAN]

\* A new fetch keeps the rows and forgets the answer of the one it replaces, so
\* whatever is gone by then, the entry stays explained; likewise below.
LEMMA StartedFacts ==
  ASSUME NEW l \in Listings
  PROVE  /\ Started(l) \in Listings
         /\ Started(l).data = l.data /\ Started(l).loaded = l.loaded
         /\ Started(l).stale = l.stale
         /\ Started(l).fetch = "sent" /\ Started(l).next = FALSE
         /\ Started(l).answer = None /\ Started(l).got = {}
         /\ Started(l).st = IF l.loaded THEN l.st ELSE "pending"
BY DEF Started, Listings, None

LEMMA StartedInv ==
  ASSUME NEW p \in Prefixes, NEW l \in Listings, NEW c \in Marks, NEW d \in Marks, NEW G,
         EntryInv(p, l, c, G), NEW H
  PROVE  EntryInv(p, Started(l), d, H)
<1>1. /\ Started(l).data = l.data /\ Started(l).loaded = l.loaded /\ Started(l).stale = l.stale
      /\ Started(l).fetch = "sent" /\ Started(l).next = FALSE
      /\ Started(l).answer = None /\ Started(l).got = {}
  BY StartedFacts
<1>2. Started(l).st = IF l.loaded THEN l.st ELSE "pending"
  BY StartedFacts
<1>3. Started(l).next = FALSE /\ l.loaded \in BOOLEAN
  BY <1>1 DEF Listings
<1>4. /\ Started(l).st = "error" => Started(l).stale
      /\ Started(l).loaded => Started(l).st # "pending"
  BY <1>1, <1>2 DEF EntryInv
<1> QED
  BY <1>1, <1>4 DEF EntryInv, None

LEMMA StaleFacts ==
  ASSUME NEW l \in Listings
  PROVE  LET s == [l EXCEPT !.stale = TRUE] IN
         /\ s \in Listings
         /\ s.data = l.data /\ s.loaded = l.loaded /\ s.stale = TRUE /\ s.fetch = l.fetch
         /\ s.next = l.next /\ s.answer = l.answer /\ s.got = l.got /\ s.st = l.st
BY DEF Listings

LEMMA StaleInv ==
  ASSUME NEW p \in Prefixes, NEW l \in Listings, NEW c \in Marks, NEW d \in Marks, NEW G,
         EntryInv(p, l, c, G), NEW H, l.fetch # None => d.fetch
  PROVE  EntryInv(p, [l EXCEPT !.stale = TRUE], d, H)
<1> DEFINE s == [l EXCEPT !.stale = TRUE]
<1>1. /\ s.data = l.data /\ s.loaded = l.loaded /\ s.stale = TRUE /\ s.fetch = l.fetch
      /\ s.next = l.next /\ s.answer = l.answer /\ s.got = l.got /\ s.st = l.st
  BY StaleFacts
<1> HIDE DEF s
<1>2. EntryInv(p, s, d, H)
  BY <1>1 DEF EntryInv, None
<1> QED
  BY <1>2 DEF s

\* The listing l when S3 answers it with the rows S.
Served(l, a, S) == [l EXCEPT !.fetch = "answered", !.answer = a, !.got = S]

LEMMA ServedInv ==
  ASSUME NEW p \in Prefixes, NEW l \in Listings, NEW c \in Marks, NEW G,
         EntryInv(p, l, c, G), l.fetch = "sent",
         NEW a \in {"end", "more"}, NEW S \in SUBSET Objects, S \subseteq Listed[p], S \cap G = {}
  PROVE  /\ Served(l, a, S) \in Listings /\ EntryInv(p, Served(l, a, S), c, G)
         /\ Served(l, a, S).st = l.st /\ Served(l, a, S).fetch = "answered"
         /\ Served(l, a, S).answer = a
<1> DEFINE s == Served(l, a, S)
<1>1. /\ s \in Listings
      /\ s.data = l.data /\ s.loaded = l.loaded /\ s.stale = l.stale /\ s.fetch = "answered"
      /\ s.next = l.next /\ s.answer = a /\ s.got = S /\ s.st = l.st
  BY DEF Served, Listings, None
<1> HIDE DEF s
<1>2. EntryInv(p, s, c, G)
  BY <1>1 DEF EntryInv, None
<1> QED
  BY <1>1, <1>2 DEF s

LEMMA RefusedInv ==
  ASSUME NEW p \in Prefixes, NEW l \in Listings, NEW c \in Marks, NEW G,
         EntryInv(p, l, c, G), l.fetch = "sent", NEW a \in {"denied", "failed"}
  PROVE  LET s == [l EXCEPT !.fetch = "answered", !.answer = a] IN
         s \in Listings /\ EntryInv(p, s, c, G) /\ s.st = l.st /\ s.stale = l.stale
         /\ s.fetch = "answered" /\ s.answer = a
<1> DEFINE s == [l EXCEPT !.fetch = "answered", !.answer = a]
<1>1. /\ s \in Listings
      /\ s.data = l.data /\ s.loaded = l.loaded /\ s.stale = l.stale /\ s.fetch = "answered"
      /\ s.next = l.next /\ s.answer = a /\ s.got = l.got /\ s.st = l.st
  BY DEF Listings, None
<1> HIDE DEF s
<1>2. EntryInv(p, s, c, G)
  BY <1>1 DEF EntryInv, None
<1> QED
  BY <1>1, <1>2 DEF s

\* The listing l when an answer with the rows D arrives.
Received(l, D, n) ==
  [l EXCEPT !.data = D, !.loaded = TRUE, !.pages = n,
            !.st = "success", !.denied = FALSE, !.more = l.answer = "more", !.stale = FALSE,
            !.fetch = None, !.answer = None, !.got = {}]

\* s is settled, with the rows D.
Fresh(s, D) ==
  /\ s \in Listings
  /\ s.data = D /\ s.loaded = TRUE /\ s.stale = FALSE /\ s.fetch = None
  /\ s.denied = FALSE /\ s.answer = None /\ s.got = {} /\ s.st = "success"

LEMMA ReceivedFresh ==
  ASSUME NEW l \in Listings, NEW D \in SUBSET Objects, NEW n \in Nat
  PROVE  Fresh(Received(l, D, n), D)
BY Zenon DEF Received, Fresh, Listings, None

\* An answer that lands settles the entry, and hands the mark of its fetch on to
\* the rows.
LEMMA LandedInv ==
  ASSUME NEW p \in Prefixes, NEW l \in Listings, NEW c \in Marks, NEW G,
         EntryInv(p, l, c, G), l.fetch = "answered",
         NEW d \in Marks, d.data = c.fetch
  PROVE  /\ Landed(l) \in Listings /\ EntryInv(p, Landed(l), d, G)
         /\ Landed(l).fetch = None /\ Landed(l).answer = None
         /\ Landed(l).st \in {"success", "error"}
         /\ Landed(l).stale => Landed(l).st = "error"
         /\ Landed(l).st = "error" /\ Landed(l).denied => l.answer = "denied"
<1> DEFINE s == Landed(l)
<1>1. CASE l.answer \in {"denied", "failed"}
  <2>1. /\ s \in Listings
        /\ s.data = l.data /\ s.loaded = l.loaded /\ s.stale = TRUE /\ s.fetch = None
        /\ s.denied = (l.answer = "denied")
        /\ s.answer = None /\ s.got = {} /\ s.st = "error"
    BY <1>1 DEF Landed, Listings, None
  <2> HIDE DEF s
  <2>2. EntryInv(p, s, d, G)
    BY <2>1 DEF EntryInv, None
  <2> QED
    BY <2>1, <2>2 DEF s
<1>2. CASE l.answer \notin {"denied", "failed"}
  <2>1. /\ s \in Listings
        /\ s.data = IF l.next THEN l.data \cup l.got ELSE l.got
        /\ s.loaded = TRUE /\ s.stale = FALSE /\ s.fetch = None
        /\ s.denied = FALSE /\ s.answer = None /\ s.got = {} /\ s.st = "success"
    <3> DEFINE D == IF l.next THEN l.data \cup l.got ELSE l.got
               n == IF l.next THEN l.pages + 1 ELSE l.pages
    <3>1. D \in SUBSET Objects /\ n \in Nat
      BY DEF Listings
    <3>2. s = Received(l, D, n)
      BY <1>2, Zenon DEF Landed, Received
    <3> HIDE DEF D, n, s
    <3>3. /\ s \in Listings
          /\ s.data = D /\ s.loaded = TRUE /\ s.stale = FALSE /\ s.fetch = None
          /\ s.denied = FALSE /\ s.answer = None /\ s.got = {} /\ s.st = "success"
      <4>1. Fresh(s, D)
        BY <3>1, <3>2, ReceivedFresh
      <4> QED
        BY <4>1 DEF Fresh
    <3> QED
      BY <3>3, Zenon DEF D
  <2> HIDE DEF s
  <2>2. s.data \cap G # {} => c.fetch
    BY <2>1 DEF EntryInv, None, Listings
  <2>3. EntryInv(p, s, d, G)
    BY <2>1, <2>2 DEF EntryInv, None
  <2> QED
    BY <2>1, <2>3 DEF s
<1> QED
  BY <1>1, <1>2

(* The cache of listings *)

\* The cache L with the history C, when the objects in G are gone.
Entries(L, C, G) ==
  /\ L \in [Prefixes -> Listings] /\ C \in [Prefixes -> Marks]
  /\ \A p \in Prefixes : EntryInv(p, L[p], C[p], G)

\* The listing of p may be on screen: it is fetched unless an answer settled it.
MayShow(l) ==
  /\ l.stale /\ l.fetch = None => l.st = "error"
  /\ l.st = "pending" => l.fetch # None

LEMMA RefreshedEntry ==
  ASSUME NEW L, NEW C, NEW G, Entries(L, C, G), NEW H, prefix \in Prefixes,
         list \in [Prefixes -> Listings], crossed \in [Prefixes -> Marks],
         \A p \in Prefixes : L[p].fetch = list[p].fetch /\ L[p].loaded = list[p].loaded,
         NEW p \in Prefixes
  PROVE  /\ Invalidated(L)[p] \in Listings /\ Crossing[p] \in Marks
         /\ EntryInv(p, Invalidated(L)[p], Crossing[p], H)
         /\ p = prefix => Invalidated(L)[p].fetch # None
         /\ Invalidated(L)[p].answer = "denied" => Crossing[p].fetch
<1>1. L[p] \in Listings /\ C[p] \in Marks /\ EntryInv(p, L[p], C[p], G) /\ crossed[p] \in Marks
  BY DEF Entries
<1>2. FirstLoad(L[p]) = FirstLoad(list[p]) /\ L[p].fetch = list[p].fetch
  BY DEF FirstLoad
<1>3. Crossing[p] \in Marks
  BY <1>1 DEF Crossing, Marks, FirstLoad
<1>4. CASE p = prefix /\ ~FirstLoad(L[p])
  <2>1. Invalidated(L)[p] = Started(L[p])
    BY <1>4 DEF Invalidated
  <2>2. /\ Started(L[p]) \in Listings
        /\ Started(L[p]).fetch = "sent" /\ Started(L[p]).answer = None
    BY <1>1, StartedFacts
  <2>3. EntryInv(p, Started(L[p]), Crossing[p], H)
    BY <1>1, <1>3, StartedInv
  <2> QED
    BY <2>1, <2>2, <2>3, <1>3 DEF None
<1>5. CASE ~(p = prefix /\ ~FirstLoad(L[p]))
  <2> DEFINE s == [L[p] EXCEPT !.stale = TRUE]
  <2>1. Invalidated(L)[p] = s
    BY <1>5 DEF Invalidated
  <2>2. L[p].fetch # None => Crossing[p].fetch
    BY <1>5, <1>2, <1>1 DEF Crossing, Marks
  <2>3. EntryInv(p, s, Crossing[p], H)
    BY <1>1, <1>3, <2>2, StaleInv
  <2>4. s \in Listings /\ s.fetch = L[p].fetch /\ s.answer = L[p].answer
    BY <1>1, StaleFacts
  <2> HIDE DEF s
  <2>5. s.answer = "denied" => Crossing[p].fetch
    BY <2>2, <2>4, <1>1 DEF EntryInv, None
  <2>6. p = prefix => s.fetch # None
    BY <1>5, <2>4 DEF FirstLoad
  <2> QED
    BY <2>1, <2>3, <2>4, <2>5, <2>6, <1>3
<1> QED
  BY <1>4, <1>5

\* An invalidation may come with any change of what is gone.
LEMMA RefreshStep ==
  ASSUME NEW L, NEW C, NEW G, Entries(L, C, G), NEW H, prefix \in Prefixes,
         list \in [Prefixes -> Listings], crossed \in [Prefixes -> Marks],
         \A p \in Prefixes : L[p].fetch = list[p].fetch /\ L[p].loaded = list[p].loaded
  PROVE  /\ Entries(Invalidated(L), Crossing, H)
         /\ Invalidated(L)[prefix].fetch # None
         /\ \A p \in Prefixes : Invalidated(L)[p].answer = "denied" => Crossing[p].fetch
<1>1. \A p \in Prefixes :
         /\ Invalidated(L)[p] \in Listings /\ Crossing[p] \in Marks
         /\ EntryInv(p, Invalidated(L)[p], Crossing[p], H)
         /\ p = prefix => Invalidated(L)[p].fetch # None
         /\ Invalidated(L)[p].answer = "denied" => Crossing[p].fetch
  BY RefreshedEntry
<1>2. Invalidated(L) \in [Prefixes -> Listings]
  <2> DEFINE e(p) == IF p = prefix /\ ~FirstLoad(L[p]) THEN Started(L[p])
                      ELSE [L[p] EXCEPT !.stale = TRUE]
  <2>1. Invalidated(L) = [p \in Prefixes |-> e(p)]
    BY DEF Invalidated
  <2> HIDE DEF e
  <2>2. \A p \in Prefixes : e(p) = Invalidated(L)[p]
    BY <2>1
  <2> QED
    BY <1>1, <2>1, <2>2
<1>3. Crossing \in [Prefixes -> Marks]
  BY DEF Crossing, Marks, FirstLoad
<1> QED
  BY <1>1, <1>2, <1>3 DEF Entries

\* A visit leaves the page with a listing that may be shown, and drops the
\* selection if it leads elsewhere.
LEMMA VisitStep ==
  ASSUME NEW p \in Prefixes, NEW L, NEW C, NEW H, Entries(L, C, H), prefix \in Prefixes,
         MayShow(L[prefix]), Visit(p, L, C)
  PROVE  /\ Entries(list', crossed', H) /\ MayShow(list'[p]) /\ prefix' = p
         /\ \/ p = prefix /\ selected' = selected /\ stray' = stray
            \/ selected' = {} /\ stray' = {}
         /\ grant' = GrantAfter(list', p, grant)
         /\ \A q \in Prefixes : list'[q].answer = "denied" =>
              L[q].answer = "denied" /\ crossed'[q] = C[q]
         /\ list'[p].fetch = None /\ list'[p].st = "error" =>
              p = prefix /\ list' = L /\ crossed' = C
<1>1. /\ L \in [Prefixes -> Listings] /\ C \in [Prefixes -> Marks]
      /\ \A q \in Prefixes : EntryInv(q, L[q], C[q], H)
      /\ L[p] \in Listings /\ C[p] \in Marks
  BY DEF Entries
<1>2. /\ Started(L[p]) \in Listings /\ Started(L[p]).fetch = "sent" /\ Started(L[p]).answer = None
  BY <1>1, StartedFacts
<1>3. prefix' = p /\ grant' = GrantAfter(list', p, grant)
  BY DEF Visit
<1>4. \/ p = prefix /\ selected' = selected /\ stray' = stray
      \/ selected' = {} /\ stray' = {}
  BY DEF Visit, SelectionFollows
<1>5. CASE list' = L
  <2>1. crossed' = C
    BY <1>5 DEF Visit
  <2>2. \/ p = prefix
        \/ L[p].fetch # None
        \/ L[p].loaded /\ ~L[p].stale
    <3>1. SUFFICES ASSUME p # prefix, L[p].fetch = None
                   PROVE  L[p].loaded /\ ~L[p].stale
      OBVIOUS
    <3>2. CASE ~Fetches(L[p])
      BY <3>2 DEF Fetches
    <3>3. CASE list' = [L EXCEPT ![p] = Started(@)]
      BY <3>1, <3>3, <1>5, <1>1, <1>2 DEF None
    <3> QED
      BY <3>1, <3>2, <3>3 DEF Visit
  <2>3. MayShow(L[p])
    BY <2>2, <1>1 DEF MayShow, EntryInv
  <2>4. L[p].fetch = None /\ L[p].st = "error" => p = prefix
    BY <2>2, <1>1 DEF EntryInv
  <2> QED
    BY <2>1, <2>3, <2>4, <1>5, <1>3, <1>4
<1>6. CASE list' # L
  <2>1. list' = [L EXCEPT ![p] = Started(@)] /\ p # prefix
    BY <1>6 DEF Visit
  <2>2. list'[p] # L[p]
    BY <2>1, <1>6, <1>1
  <2>3. crossed' = [C EXCEPT ![p].fetch = FALSE]
    BY <2>2 DEF Visit
  <2>4. crossed' \in [Prefixes -> Marks]
    BY <2>3, <1>1 DEF Marks
  <2>5. list' \in [Prefixes -> Listings] /\ list'[p] = Started(L[p])
    BY <2>1, <1>1, <1>2
  <2>6. \A q \in Prefixes : q # p => list'[q] = L[q] /\ crossed'[q] = C[q]
    BY <2>1, <2>3, <1>1
  <2>7. EntryInv(p, list'[p], crossed'[p], H)
    BY <2>5, <2>4, <1>1, StartedInv
  <2>8. Entries(list', crossed', H)
    BY <2>4, <2>5, <2>6, <2>7, <1>1 DEF Entries
  <2>9. MayShow(list'[p])
    BY <2>5, <1>2 DEF MayShow, None
  <2> QED
    BY <2>5, <2>6, <2>8, <2>9, <1>2, <1>3, <1>4 DEF None
<1> QED
  BY <1>5, <1>6

(* Answers and grants *)

\* The page's cache, as its prefix shows it.
Cached == Entries(list, crossed, gone) /\ prefix \in Prefixes /\ MayShow(list[prefix])

\* A listing that works has forgotten the grant; AccessInv is about the others.
Grants ==
  /\ list[prefix].st = "success" => grant = None
  /\ grant # None => ~proved
  /\ AccessInv

\* A step that neither grants nor revokes keeps AccessInv when every refusal that
\* it leaves is from across a refresh.
LEMMA AccessKept ==
  ASSUME AccessInv, key' = key, perm' = perm, excused' = excused, granting' = granting,
         grant' \in {grant, None},
         key = "good" /\ Granted /\ ~excused =>
           /\ \A p \in Prefixes : list'[p].answer = "denied" => crossed'[p].fetch
           /\ list'[prefix'].fetch = None /\ list'[prefix'].st = "error" /\ list'[prefix'].denied
                => crossed'[prefix'].data
  PROVE  AccessInv'
<1>1. Granted' => Granted
  BY DEF Granted, None
<1>2. key' = "good" => (Granted' \/ granting' \in {"changed", "unchanged"} => perm' \/ excused')
  BY <1>1 DEF AccessInv
<1>3. ASSUME key' = "good", Granted', ~excused'
      PROVE  /\ \A p \in Prefixes : list'[p].answer = "denied" => crossed'[p].fetch
             /\ list'[prefix'].fetch = None /\ list'[prefix'].st = "error" /\ list'[prefix'].denied
                  => crossed'[prefix'].data
  BY <1>1, <1>3
<1> QED
  BY <1>2, <1>3 DEF AccessInv

LEMMA GrantForgotten ==
  ASSUME NEW L, NEW p, NEW g
  PROVE  GrantAfter(L, p, g) \in {g, None} /\ (L[p].st = "success" => GrantAfter(L, p, g) = None)
BY DEF GrantAfter

\* An answer that refreshes the listings.
LEMMA RefreshKept ==
  ASSUME Cached, Grants, list' = Invalidated(list), crossed' = Crossing, prefix' = prefix,
         grant' = GrantAfter(list', prefix, grant),
         UNCHANGED <<key, perm, proved, excused, granting>>
  PROVE  Cached' /\ Grants'
<1>1. list \in [Prefixes -> Listings] /\ crossed \in [Prefixes -> Marks]
  BY DEF Cached, Entries
<1>2. /\ Entries(Invalidated(list), Crossing, gone')
      /\ Invalidated(list)[prefix].fetch # None
      /\ \A p \in Prefixes : Invalidated(list)[p].answer = "denied" => Crossing[p].fetch
  BY <1>1, RefreshStep DEF Cached
<1>3. Cached'
  BY <1>2 DEF Cached, MayShow
<1>4. grant' \in {grant, None} /\ (list'[prefix].st = "success" => grant' = None)
  BY GrantForgotten
<1>5. AccessInv'
  BY <1>2, <1>4, AccessKept DEF Grants
<1> QED
  BY <1>3, <1>4, <1>5 DEF Grants

LEMMA VisitKept ==
  ASSUME Cached, Grants, NEW p \in Prefixes, Visit(p, list, crossed),
         UNCHANGED <<key, perm, proved, excused, granting, gone>>
  PROVE  Cached' /\ Grants'
<1>1. /\ Entries(list', crossed', gone) /\ MayShow(list'[p]) /\ prefix' = p
      /\ grant' = GrantAfter(list', p, grant)
      /\ \A q \in Prefixes : list'[q].answer = "denied" =>
           list[q].answer = "denied" /\ crossed'[q] = crossed[q]
      /\ list'[p].fetch = None /\ list'[p].st = "error" =>
           p = prefix /\ list' = list /\ crossed' = crossed
  BY VisitStep DEF Cached
<1>2. Cached'
  BY <1>1 DEF Cached
<1>3. grant' \in {grant, None} /\ (list'[p].st = "success" => grant' = None)
  BY <1>1, GrantForgotten
<1>4. AccessInv'
  <2>1. ASSUME key = "good", Granted, ~excused
        PROVE  /\ \A q \in Prefixes : list'[q].answer = "denied" => crossed'[q].fetch
               /\ list'[prefix'].fetch = None /\ list'[prefix'].st = "error" /\ list'[prefix'].denied
                    => crossed'[prefix'].data
    BY <1>1, <2>1 DEF Grants, AccessInv
  <2> QED
    BY <1>3, <2>1, AccessKept DEF Grants
<1> QED
  BY <1>1, <1>2, <1>3, <1>4 DEF Grants

LEMMA RefreshedVisitKept ==
  ASSUME Cached, Grants, NEW p \in Prefixes, Visit(p, Invalidated(list), Crossing),
         UNCHANGED <<key, perm, proved, excused, granting>>
  PROVE  Cached' /\ Grants'
<1>1. list \in [Prefixes -> Listings] /\ crossed \in [Prefixes -> Marks]
  BY DEF Cached, Entries
<1>2. /\ Entries(Invalidated(list), Crossing, gone')
      /\ Invalidated(list)[prefix].fetch # None
      /\ \A q \in Prefixes : Invalidated(list)[q].answer = "denied" => Crossing[q].fetch
  BY <1>1, RefreshStep DEF Cached
<1>3. MayShow(Invalidated(list)[prefix])
  BY <1>2 DEF MayShow
<1>4. /\ Entries(list', crossed', gone') /\ MayShow(list'[p]) /\ prefix' = p
      /\ grant' = GrantAfter(list', p, grant)
      /\ \A q \in Prefixes : list'[q].answer = "denied" =>
           Invalidated(list)[q].answer = "denied" /\ crossed'[q] = Crossing[q]
      /\ list'[p].fetch = None /\ list'[p].st = "error" =>
           p = prefix /\ list' = Invalidated(list) /\ crossed' = Crossing
  BY <1>2, <1>3, VisitStep DEF Cached
<1>5. Cached'
  BY <1>4 DEF Cached
<1>6. grant' \in {grant, None} /\ (list'[p].st = "success" => grant' = None)
  BY <1>4, GrantForgotten
<1>7. AccessInv'
  <2>1. /\ \A q \in Prefixes : list'[q].answer = "denied" => crossed'[q].fetch
        /\ ~(list'[prefix'].fetch = None /\ list'[prefix'].st = "error")
    BY <1>2, <1>4
  <2> QED
    BY <1>6, <2>1, AccessKept DEF Grants
<1> QED
  BY <1>4, <1>5, <1>6, <1>7 DEF Grants

(* The listing's own steps *)

\* Only the entry of p changes.
LEMMA OneEntry ==
  ASSUME Cached, prefix' = prefix, gone' = gone, NEW p \in Prefixes, NEW l \in Listings,
         list' = [list EXCEPT ![p] = l], NEW c \in Marks, crossed' = [crossed EXCEPT ![p] = c],
         EntryInv(p, l, c, gone), p = prefix => MayShow(l)
  PROVE  Cached' /\ list'[p] = l /\ crossed'[p] = c
         /\ \A q \in Prefixes \ {p} : list'[q] = list[q] /\ crossed'[q] = crossed[q]
BY DEF Cached, Entries

LEMMA RefocusKept == Cached /\ Grants /\ Refocus => Cached' /\ Grants'
<1> SUFFICES ASSUME Cached, Grants, Refocus PROVE Cached' /\ Grants'
  OBVIOUS
<1> DEFINE l == Started(list[prefix])  c == [crossed[prefix] EXCEPT !.fetch = FALSE]
<1>1. /\ list[prefix] \in Listings /\ crossed[prefix] \in Marks /\ prefix \in Prefixes
      /\ EntryInv(prefix, list[prefix], crossed[prefix], gone)
  BY DEF Cached, Entries
<1>2. c \in Marks
  BY <1>1 DEF Marks
<1>3. /\ l \in Listings /\ l.fetch = "sent" /\ l.answer = None
      /\ l.st = IF list[prefix].loaded THEN list[prefix].st ELSE "pending"
  BY <1>1, StartedFacts
<1>4. EntryInv(prefix, l, c, gone)
  BY <1>1, <1>2, StartedInv
<1>5. list' = [list EXCEPT ![prefix] = l]
  BY DEF Refocus
<1>6. crossed' = [crossed EXCEPT ![prefix] = c]
  BY DEF Refocus
<1> HIDE DEF l, c
<1>7. MayShow(l)
  BY <1>3 DEF MayShow, None
<1>8. prefix' = prefix /\ gone' = gone
  BY DEF Refocus, pvars, hvars
<1>9. /\ Cached' /\ list'[prefix] = l
      /\ \A q \in Prefixes \ {prefix} : list'[q] = list[q] /\ crossed'[q] = crossed[q]
  BY <1>1, <1>2, <1>3, <1>4, <1>5, <1>6, <1>7, <1>8, OneEntry
<1>10. UNCHANGED <<key, perm, proved, excused, granting, grant>>
  BY DEF Refocus, svars, avars, gvars
<1>11. /\ \A q \in Prefixes : list'[q].answer = "denied" =>
            list[q].answer = "denied" /\ crossed'[q] = crossed[q]
       /\ list'[prefix].fetch # None
  BY <1>3, <1>9 DEF None
<1>12. AccessInv'
  BY <1>8, <1>10, <1>11, AccessKept DEF Grants, AccessInv
<1> QED
  BY <1>3, <1>8, <1>9, <1>10, <1>12 DEF Grants

LEMMA NextPageKept == Cached /\ Grants /\ FetchNextPage => Cached' /\ Grants'
<1> SUFFICES ASSUME Cached, Grants, FetchNextPage PROVE Cached' /\ Grants'
  OBVIOUS
<1> DEFINE o == list[prefix]
           l == [Started(o) EXCEPT !.next = TRUE]
           c == [crossed[prefix] EXCEPT !.fetch = o.fetch # None \/ crossed[prefix].data]
<1>1. /\ o \in Listings /\ crossed[prefix] \in Marks /\ prefix \in Prefixes
      /\ EntryInv(prefix, o, crossed[prefix], gone) /\ MayShow(o)
  BY DEF Cached, Entries
<1>2. c \in Marks /\ (c.fetch <=> o.fetch # None \/ crossed[prefix].data)
  BY <1>1 DEF Marks
<1>3. /\ Started(o) \in Listings /\ Started(o).fetch = "sent" /\ Started(o).answer = None
      /\ Started(o).data = o.data /\ Started(o).got = {} /\ Started(o).stale = o.stale
      /\ Started(o).loaded = o.loaded
      /\ Started(o).st = IF o.loaded THEN o.st ELSE "pending"
  BY <1>1, StartedFacts
<1>4. /\ l \in Listings /\ l.fetch = "sent" /\ l.answer = None
      /\ l.data = o.data /\ l.got = {} /\ l.stale = o.stale /\ l.loaded = o.loaded
      /\ l.st = Started(o).st
  <2> DEFINE s == Started(o)
  <2> HIDE DEF s, o
  <2>1. s \in Listings
    BY <1>3 DEF s
  <2>2. LET w == [s EXCEPT !.next = TRUE] IN
        /\ w \in Listings /\ w.fetch = s.fetch /\ w.answer = s.answer
        /\ w.data = s.data /\ w.got = s.got /\ w.stale = s.stale /\ w.loaded = s.loaded
        /\ w.st = s.st
    BY <2>1 DEF Listings
  <2> QED
    BY <2>2, <1>3 DEF s
<1>5. o.st = "success"
  BY DEF FetchNextPage
<1>6. list' = [list EXCEPT ![prefix] = l]
  BY DEF FetchNextPage
<1>7. crossed' = [crossed EXCEPT ![prefix] = c]
  BY DEF FetchNextPage
<1>8. UNCHANGED <<key, perm, proved, excused, granting, grant>> /\ prefix' = prefix /\ gone' = gone
  BY DEF FetchNextPage, svars, avars, gvars, pvars, hvars
<1> HIDE DEF l, c, o
<1>9. EntryInv(prefix, l, c, gone)
  <2>1. o.data \cap gone # {} => c.fetch
    BY <1>1, <1>2, <1>5 DEF EntryInv, MayShow
  <2>2. l.st = "error" => l.stale
    BY <1>1, <1>3, <1>4 DEF EntryInv
  <2>3. l.loaded => l.st # "pending"
    BY <1>1, <1>3, <1>4 DEF EntryInv
  <2>4. l.data \subseteq Listed[prefix]
    BY <1>1, <1>4 DEF EntryInv
  <2> QED
    BY <2>1, <2>2, <2>3, <2>4, <1>4 DEF EntryInv, None
<1>10. MayShow(l)
  BY <1>4 DEF MayShow, None
<1>11. /\ Cached' /\ list'[prefix] = l
       /\ \A q \in Prefixes \ {prefix} : list'[q] = list[q] /\ crossed'[q] = crossed[q]
  BY <1>1, <1>2, <1>4, <1>6, <1>7, <1>8, <1>9, <1>10, OneEntry
<1>12. /\ \A q \in Prefixes : list'[q].answer = "denied" =>
            list[q].answer = "denied" /\ crossed'[q] = crossed[q]
       /\ list'[prefix].fetch # None
  BY <1>4, <1>11 DEF None
<1>13. AccessInv'
  BY <1>8, <1>12, AccessKept DEF Grants, AccessInv
<1>14. grant = None
  BY <1>5 DEF Grants, o
<1> QED
  BY <1>8, <1>11, <1>13, <1>14 DEF Grants

\* S3's answer, or none, is on its way back: nothing settles yet.
LEMMA AnsweredKept ==
  ASSUME Cached, Grants, NEW p \in Prefixes, list[p].fetch = "sent",
         NEW l \in Listings, list' = [list EXCEPT ![p] = l], EntryInv(p, l, crossed[p], gone),
         l.st = list[p].st, l.fetch = "answered",
         l.answer = "denied" => key # "good" \/ ~perm,
         UNCHANGED <<key, perm, proved, excused, granting, grant, crossed, prefix, gone>>
  PROVE  Cached' /\ Grants'
<1>1. crossed' = [crossed EXCEPT ![p] = crossed[p]] /\ crossed[p] \in Marks
  BY DEF Cached, Entries
<1>2. MayShow(l)
  BY DEF MayShow, None
<1>3. /\ Cached' /\ list'[p] = l
      /\ \A q \in Prefixes \ {p} : list'[q] = list[q] /\ crossed'[q] = crossed[q]
  BY <1>1, <1>2, OneEntry
<1>4. key = "good" /\ Granted /\ ~excused =>
        /\ \A q \in Prefixes : list'[q].answer = "denied" => crossed'[q].fetch
        /\ list'[prefix'].fetch = None /\ list'[prefix'].st = "error" /\ list'[prefix'].denied
             => crossed'[prefix'].data
  <2> SUFFICES ASSUME key = "good", Granted, ~excused
               PROVE  /\ \A q \in Prefixes : list'[q].answer = "denied" => crossed'[q].fetch
                      /\ list'[prefix].fetch = None /\ list'[prefix].st = "error"
                         /\ list'[prefix].denied => crossed'[prefix].data
    OBVIOUS
  <2>1. l.answer # "denied"
    BY DEF Grants, AccessInv
  <2>2. \A q \in Prefixes : list'[q].answer = "denied" => crossed'[q].fetch
    BY <2>1, <1>3 DEF Grants, AccessInv
  <2>3. prefix \in Prefixes
    BY DEF Cached
  <2>4. CASE p = prefix
    BY <2>4, <2>2, <1>3 DEF None
  <2>5. CASE p # prefix
    BY <2>5, <2>2, <2>3, <1>3 DEF Grants, AccessInv
  <2> QED
    BY <2>4, <2>5
<1>5. AccessInv'
  BY <1>4, AccessKept DEF Grants
<1>6. list'[prefix].st = list[prefix].st
  BY <1>3 DEF Cached
<1> QED
  BY <1>3, <1>5, <1>6 DEF Grants

LEMMA FirstNIsPart == ASSUME NEW S, NEW n PROVE FirstN(S, n) \subseteq S
BY DEF FirstN

LEMMA ListsKept ==
  ASSUME Cached, Grants, gone \cap objs = {}, objs \subseteq Objects,
         NEW p \in Prefixes, S3Lists(p)
  PROVE  Cached' /\ Grants'
<1> DEFINE o    == list[p]
           all  == Listed[p] \cap objs
           rest == IF o.next THEN {k \in all : \A j \in o.data : k > j} ELSE all
           n    == IF o.next THEN PageSize ELSE o.pages * PageSize
           S    == FirstN(rest, n)
           a    == IF FirstN(rest, n) = rest THEN "end" ELSE "more"
<1>1. /\ o \in Listings /\ crossed[p] \in Marks /\ o.fetch = "sent"
      /\ EntryInv(p, o, crossed[p], gone)
  BY DEF Cached, Entries, S3Lists
<1>2. UNCHANGED <<key, perm, proved, excused, granting, grant, crossed, prefix, gone>>
  BY DEF S3Lists, svars, avars, gvars, pvars, hvars
<1>3. S \subseteq Listed[p] /\ S \cap gone = {} /\ S \in SUBSET Objects
  <2>1. rest \subseteq all
    OBVIOUS
  <2> QED
    BY <2>1, FirstNIsPart
<1>4. a \in {"end", "more"}
  OBVIOUS
<1>5. CASE Usable
  <2> DEFINE l == Served(o, a, S)
  <2>1. list' = [list EXCEPT ![p] = l]
    BY <1>5, Zenon DEF S3Lists, Served
  <2> HIDE DEF S, a, o
  <2>2. /\ l \in Listings /\ EntryInv(p, l, crossed[p], gone)
        /\ l.st = o.st /\ l.fetch = "answered" /\ l.answer = a
    BY <1>1, <1>3, <1>4, ServedInv
  <2> HIDE DEF l
  <2>3. l.answer # "denied" /\ l.st = list[p].st /\ list[p].fetch = "sent"
    BY <2>2, <1>4, <1>1 DEF o
  <2> QED
    BY <1>2, <2>1, <2>2, <2>3, AnsweredKept
<1>6. CASE ~Usable
  <2> DEFINE l == [o EXCEPT !.fetch = "answered", !.answer = "denied"]
  <2>1. list' = [list EXCEPT ![p] = l]
    BY <1>6, Zenon DEF S3Lists
  <2> HIDE DEF o
  <2>2. /\ l \in Listings /\ EntryInv(p, l, crossed[p], gone)
        /\ l.st = o.st /\ l.fetch = "answered"
    BY <1>1, RefusedInv
  <2> HIDE DEF l
  <2>3. l.st = list[p].st /\ list[p].fetch = "sent" /\ (key # "good" \/ ~perm)
    BY <2>2, <1>1, <1>6 DEF o, Usable
  <2> QED
    BY <1>2, <2>1, <2>2, <2>3, AnsweredKept
<1> QED
  BY <1>5, <1>6

LEMMA ListFailsKept ==
  ASSUME Cached, Grants, NEW p \in Prefixes, ListFails(p)
  PROVE  Cached' /\ Grants'
<1> DEFINE o == list[p]
           l == [o EXCEPT !.fetch = "answered", !.answer = "failed"]
<1>1. /\ o \in Listings /\ crossed[p] \in Marks /\ o.fetch = "sent"
      /\ EntryInv(p, o, crossed[p], gone)
  BY DEF Cached, Entries, ListFails
<1>2. UNCHANGED <<key, perm, proved, excused, granting, grant, crossed, prefix, gone>>
  BY DEF ListFails, svars, avars, gvars, pvars, hvars
<1>3. list' = [list EXCEPT ![p] = l]
  BY Zenon DEF ListFails
<1> HIDE DEF o
<1>4. /\ l \in Listings /\ EntryInv(p, l, crossed[p], gone)
      /\ l.st = o.st /\ l.fetch = "answered" /\ l.answer = "failed"
  BY <1>1, RefusedInv
<1> HIDE DEF l
<1>5. l.st = list[p].st /\ list[p].fetch = "sent" /\ l.answer # "denied"
  BY <1>1, <1>4 DEF o
<1> QED
  BY <1>2, <1>3, <1>4, <1>5, AnsweredKept

LEMMA LandsKept ==
  ASSUME Cached, Grants, NEW p \in Prefixes, ListLands(p)
  PROVE  Cached' /\ Grants'
<1> DEFINE o == list[p]
           c == [crossed[p] EXCEPT !.data = crossed[p].fetch]
           l == Landed(o)
<1>1. /\ o \in Listings /\ crossed[p] \in Marks /\ o.fetch = "answered"
      /\ EntryInv(p, o, crossed[p], gone) /\ prefix \in Prefixes
  BY DEF Cached, Entries, ListLands
<1>2. /\ UNCHANGED <<key, perm, excused, granting, prefix, gone>>
      /\ grant' = GrantAfter(list', prefix, grant)
      /\ proved' = (proved \/ (p = prefix /\ list'[p].st = "success"))
  BY DEF ListLands, svars, avars, gvars, pvars, hvars
<1>3. c \in Marks /\ c.data = crossed[p].fetch /\ c.fetch = crossed[p].fetch
  BY <1>1 DEF Marks
<1>4. list' = [list EXCEPT ![p] = l] /\ crossed' = [crossed EXCEPT ![p] = c]
  BY Zenon DEF ListLands
<1> HIDE DEF c
<1>5. /\ l \in Listings /\ EntryInv(p, l, c, gone)
      /\ l.fetch = None /\ l.answer = None /\ l.st \in {"success", "error"}
      /\ l.stale => l.st = "error"
      /\ l.st = "error" /\ l.denied => o.answer = "denied"
  BY <1>1, <1>3, LandedInv
<1> HIDE DEF l
<1>6. MayShow(l)
  BY <1>5 DEF MayShow
<1>7. /\ Cached' /\ list'[p] = l /\ crossed'[p] = c
      /\ \A q \in Prefixes \ {p} : list'[q] = list[q] /\ crossed'[q] = crossed[q]
  BY <1>2, <1>3, <1>4, <1>5, <1>6, OneEntry
<1>8. grant' \in {grant, None} /\ (list'[prefix].st = "success" => grant' = None)
  BY <1>2, GrantForgotten
<1>9. key = "good" /\ Granted /\ ~excused =>
        /\ \A q \in Prefixes : list'[q].answer = "denied" => crossed'[q].fetch
        /\ list'[prefix'].fetch = None /\ list'[prefix'].st = "error" /\ list'[prefix'].denied
             => crossed'[prefix'].data
  <2> SUFFICES ASSUME key = "good", Granted, ~excused
               PROVE  /\ \A q \in Prefixes : list'[q].answer = "denied" => crossed'[q].fetch
                      /\ list'[prefix].fetch = None /\ list'[prefix].st = "error"
                         /\ list'[prefix].denied => crossed'[prefix].data
    BY <1>2
  <2>1. \A q \in Prefixes : list[q].answer = "denied" => crossed[q].fetch
    BY DEF Grants, AccessInv
  <2>2. \A q \in Prefixes : list'[q].answer = "denied" => crossed'[q].fetch
    BY <2>1, <1>5, <1>7 DEF None
  <2>3. CASE p = prefix
    BY <2>1, <2>2, <2>3, <1>1, <1>3, <1>5, <1>7
  <2>4. CASE p # prefix
    <3>1. /\ list[prefix].fetch = None /\ list[prefix].st = "error" /\ list[prefix].denied
             => crossed[prefix].data
      BY DEF Grants, AccessInv
    <3> QED
      BY <2>4, <2>2, <3>1, <1>1, <1>7
  <2> QED
    BY <2>3, <2>4
<1>10. AccessInv'
  BY <1>2, <1>8, <1>9, AccessKept DEF Grants
<1>11. grant' # None => ~proved'
  BY <1>2, <1>8 DEF Grants
<1> QED
  BY <1>2, <1>7, <1>8, <1>10, <1>11 DEF Grants

(* The console's access *)

LEMMA QuietKept ==
  ASSUME Cached, Grants,
         UNCHANGED <<list, crossed, gone, prefix, key, perm, proved, excused, granting, grant>>
  PROVE  Cached' /\ Grants'
BY DEF Cached, Entries, MayShow, EntryInv, Grants, AccessInv, Granted

LEMMA GrantAnswersKept == Cached /\ Grants /\ GrantAnswers => Cached' /\ Grants'
<1> SUFFICES ASSUME Cached, Grants, GrantAnswers PROVE Cached' /\ Grants'
  OBVIOUS
<1> DEFINE L == [p \in Prefixes |-> [list[p] EXCEPT !.late = FALSE]]
<1>1. /\ list \in [Prefixes -> Listings] /\ crossed \in [Prefixes -> Marks]
      /\ \A p \in Prefixes : EntryInv(p, list[p], crossed[p], gone)
      /\ prefix \in Prefixes
  BY DEF Cached, Entries
<1>2. /\ UNCHANGED <<key, perm, excused, prefix, gone>>
      /\ list' = Invalidated(L) /\ crossed' = Crossing
      /\ grant' = GrantAfter(list', prefix, granting) /\ granting' = None
      /\ proved' = (list'[prefix].st = "success")
  BY DEF GrantAnswers, svars, pvars, hvars
<1>3. ASSUME NEW p \in Prefixes
      PROVE  /\ L[p] \in Listings /\ EntryInv(p, L[p], crossed[p], gone)
             /\ L[p].fetch = list[p].fetch /\ L[p].loaded = list[p].loaded
  <2> DEFINE o == list[p]  s == [o EXCEPT !.late = FALSE]
  <2>1. o \in Listings /\ EntryInv(p, o, crossed[p], gone)
    BY <1>1
  <2> HIDE DEF o
  <2>2. /\ s \in Listings
        /\ s.data = o.data /\ s.loaded = o.loaded /\ s.stale = o.stale /\ s.fetch = o.fetch
        /\ s.next = o.next /\ s.answer = o.answer /\ s.got = o.got /\ s.st = o.st
    BY <2>1 DEF Listings
  <2> HIDE DEF s
  <2>3. EntryInv(p, s, crossed[p], gone)
    BY <2>1, <2>2 DEF EntryInv
  <2>4. L[p] = s
    BY DEF s, o
  <2> QED
    BY <2>2, <2>3, <2>4 DEF o
<1>4. L \in [Prefixes -> Listings]
  BY <1>3
<1> HIDE DEF L
<1>5. Entries(L, crossed, gone)
  BY <1>1, <1>3, <1>4 DEF Entries
<1>6. /\ Entries(Invalidated(L), Crossing, gone)
      /\ Invalidated(L)[prefix].fetch # None
      /\ \A p \in Prefixes : Invalidated(L)[p].answer = "denied" => Crossing[p].fetch
  BY <1>1, <1>3, <1>5, RefreshStep
<1>7. Cached'
  BY <1>1, <1>2, <1>6 DEF Cached, MayShow
<1>8. grant' \in {granting, None} /\ (list'[prefix].st = "success" => grant' = None)
  BY <1>2, GrantForgotten
<1>9. grant' # None => ~proved'
  BY <1>2, <1>8
<1>10. AccessInv'
  <2>1. key' = "good" /\ Granted' => perm' \/ excused'
    BY <1>2, <1>8 DEF Granted, Grants, AccessInv, None
  <2>2. granting' \notin {"changed", "unchanged"}
    BY <1>2 DEF None
  <2>3. \A p \in Prefixes : list'[p].answer = "denied" => crossed'[p].fetch
    BY <1>2, <1>6
  <2>4. list'[prefix'].fetch # None
    BY <1>2, <1>6
  <2> QED
    BY <2>1, <2>2, <2>3, <2>4 DEF AccessInv
<1> QED
  BY <1>2, <1>7, <1>8, <1>9, <1>10 DEF Grants

\* Everything that concerns the grant before its answer, and its loss.
LEMMA PermissionKept ==
  ASSUME Cached, Grants, UNCHANGED <<list, crossed, gone, prefix, key, grant>>,
         \/ ConfirmGrant \/ GrantHappens \/ GrantFails \/ ChangePermission,
         perm \in BOOLEAN /\ proved \in BOOLEAN /\ excused \in BOOLEAN
  PROVE  Cached' /\ Grants'
<1>1. Cached'
  BY DEF Cached, Entries, MayShow, EntryInv
<1>2. /\ proved' => proved
      /\ list'[prefix'].st = list[prefix].st
  BY DEF ConfirmGrant, GrantHappens, GrantFails, ChangePermission, avars
<1>3. \/ perm' = perm /\ excused' = excused /\ proved' = proved
      \/ perm'
      \/ ~perm' /\ perm /\ granting' = granting /\ proved' = proved
         /\ (excused' <=> (excused \/ ~proved \/ granting # None))
      \/ key = "missing"
  BY DEF ConfirmGrant, GrantHappens, GrantFails, ChangePermission, avars, svars, Others
<1>4. \/ excused => excused'
      \/ granting' \in {"changed", "unchanged"}
  BY DEF ConfirmGrant, GrantHappens, GrantFails, ChangePermission, avars
<1>5. granting \in {"changed", "unchanged"} => granting' = granting
  BY DEF ConfirmGrant, GrantHappens, GrantFails, ChangePermission, Others, None
<1>6. granting' \in {"changed", "unchanged"} => granting' = granting \/ perm'
  BY DEF ConfirmGrant, GrantHappens, GrantFails, ChangePermission, Others, None
<1>7. Granted' => Granted
  BY <1>5 DEF Granted
<1>8. key = "good" /\ (Granted' \/ granting' \in {"changed", "unchanged"}) => perm' \/ excused'
  <2> SUFFICES ASSUME key = "good", Granted' \/ granting' \in {"changed", "unchanged"},
                      ~perm'
               PROVE  excused'
    OBVIOUS
  <2>1. Granted \/ granting \in {"changed", "unchanged"}
    BY <1>6, <1>7
  <2>2. perm \/ excused
    BY <2>1 DEF Grants, AccessInv
  <2>3. CASE perm' = perm /\ excused' = excused
    BY <2>2, <2>3
  <2>4. CASE perm /\ (excused' <=> (excused \/ ~proved \/ granting # None))
    <3>1. granting # None \/ grant # None
      BY <2>1 DEF Granted, None
    <3> QED
      BY <2>4, <3>1 DEF Grants
  <2> QED
    BY <1>3, <2>3, <2>4
<1>9. key = "good" /\ Granted' /\ ~excused' =>
         /\ \A p \in Prefixes : list[p].answer = "denied" => crossed[p].fetch
         /\ LET l == list[prefix] IN
            l.fetch = None /\ l.st = "error" /\ l.denied => crossed[prefix].data
  BY <1>4, <1>7 DEF Grants, AccessInv, Granted
<1>10. AccessInv'
  BY <1>8, <1>9 DEF AccessInv
<1> QED
  BY <1>1, <1>2, <1>10 DEF Grants

(* The page as a whole *)

\* BrowserTypes without the cache.
PageTypes ==
  /\ objs \subseteq Objects /\ perm \in BOOLEAN /\ key \in KeyStates
  /\ typed \in Prefixes \cup {None}
  /\ selected \subseteq Objects
  /\ open \subseteq Deletions \cup {"grant"}
  /\ single \subseteq Objects
  /\ folder \in [prefix : Prefixes \cup {None}, count : Nat]
  /\ summary \in Prefixes \cup {None} /\ zip \in BOOLEAN
  /\ lookup \in {None, "fine", "expired", "missing"}
  /\ granting \in Outcomes \cup {"sent"} /\ grant \in Outcomes
  /\ gone \subseteq Objects /\ stray \subseteq Objects
  /\ proved \in BOOLEAN /\ excused \in BOOLEAN

CallsOK == call \in [Deletions -> Calls] /\ CallInv

PageOK == PageTypes /\ CallsOK /\ StrayOnlyFailed /\ gone \cap objs = {}

\* BrowserTypes and BrowserInv, sorted by what steps change together.
BrowserOK == PageOK /\ Cached /\ Grants

LEMMA BrowserOKMeans == BrowserOK => BrowserTypes /\ BrowserInv
<1> SUFFICES ASSUME BrowserOK PROVE BrowserTypes /\ BrowserInv
  OBVIOUS
<1>1. /\ list \in [Prefixes -> Listings] /\ crossed \in [Prefixes -> Marks]
      /\ prefix \in Prefixes /\ MayShow(list[prefix])
      /\ \A p \in Prefixes : EntryInv(p, list[p], crossed[p], gone)
  BY DEF BrowserOK, Cached, Entries
<1>2. BrowserTypes
  BY <1>1 DEF BrowserOK, PageOK, PageTypes, CallsOK, BrowserTypes, Marks, MayShow
<1>3. ScreenInv
  BY <1>1 DEF BrowserOK, Grants, ScreenInv, MayShow
<1> QED
  BY <1>1, <1>2, <1>3 DEF BrowserOK, PageOK, CallsOK, Grants, BrowserInv

LEMMA NoCallFacts ==
  /\ NoCall \in Calls /\ NoCall.failed = {} /\ NoCall.keys = {} /\ NoCall.st = None
BY BrowserAssumption DEF NoCall, Calls, None

LEMMA BrowserOKInit == BrowserInit => BrowserOK
<1> SUFFICES ASSUME BrowserInit PROVE BrowserOK
  OBVIOUS
<1>1. Unvisited \in Listings
  BY DEF Unvisited, Listings, None
<1>2. /\ Unvisited.data = {} /\ Unvisited.got = {} /\ Unvisited.answer = None
      /\ Unvisited.fetch = None /\ Unvisited.st = "pending" /\ Unvisited.loaded = FALSE
      /\ Unvisited.next = FALSE
  BY DEF Unvisited
<1>3. /\ Started(Unvisited) \in Listings /\ Started(Unvisited).fetch = "sent"
      /\ Started(Unvisited).answer = None
      /\ Started(Unvisited).st = IF Unvisited.loaded THEN Unvisited.st ELSE "pending"
  BY <1>1, StartedFacts
<1>4. \A p \in Prefixes : crossed[p] \in Marks
  BY DEF BrowserInit, Marks
<1>5. \A p \in Prefixes : EntryInv(p, Unvisited, crossed[p], gone)
  BY <1>2 DEF EntryInv, None, BrowserInit
<1>6. \A p \in Prefixes : EntryInv(p, Started(Unvisited), crossed[p], gone)
  BY <1>1, <1>4, <1>5, StartedInv
<1>7. /\ list \in [Prefixes -> Listings] /\ crossed \in [Prefixes -> Marks]
      /\ \A p \in Prefixes : list[p] \in {Started(Unvisited), Unvisited}
      /\ prefix \in Prefixes /\ list[prefix] = Started(Unvisited)
  BY <1>1, <1>3, BrowserAssumption DEF BrowserInit, Marks
<1>8. Cached
  BY <1>3, <1>5, <1>6, <1>7 DEF Cached, Entries, MayShow, None
<1>9. Grants
  BY <1>2, <1>3, <1>7 DEF Grants, AccessInv, Granted, BrowserInit, None
<1>10. call \in [Deletions -> Calls] /\ call["bulk"] = NoCall /\ folder.count = 0
  BY NoCallFacts DEF BrowserInit, Deletions, NoFolder
<1>11. CallsOK
  BY <1>10, NoCallFacts DEF CallsOK, CallInv
<1>12. PageTypes
  BY BrowserAssumption DEF BrowserInit, PageTypes, NoFolder, None, Outcomes
<1>13. StrayOnlyFailed /\ gone \cap objs = {}
  BY DEF BrowserInit, StrayOnlyFailed
<1> QED
  BY <1>8, <1>9, <1>11, <1>12, <1>13 DEF BrowserOK, PageOK

(* Moving *)

LEMMA VisitPage ==
  ASSUME BrowserOK, NEW p \in Prefixes, NEW L, NEW C, Visit(p, L, C),
         typed' \in Prefixes \cup {None},
         UNCHANGED <<svars, dvars, rvars, lookup, granting, gone, avars>>
  PROVE  PageOK'
<1>1. grant' \in {grant, None}
  BY GrantForgotten DEF Visit
<1>2. /\ \/ p = prefix /\ selected' = selected /\ stray' = stray
         \/ selected' = {} /\ stray' = {}
      /\ prefix' = p
  BY DEF Visit, SelectionFollows
<1>3. PageTypes'
  BY <1>1, <1>2 DEF BrowserOK, PageOK, PageTypes, svars, dvars, rvars, avars, Outcomes, None
<1>4. CallsOK'
  BY DEF BrowserOK, PageOK, CallsOK, CallInv, dvars
<1>5. StrayOnlyFailed' /\ gone' \cap objs' = {}
  BY <1>2 DEF BrowserOK, PageOK, StrayOnlyFailed, svars
<1> QED
  BY <1>3, <1>4, <1>5 DEF PageOK

LEMMA NavigateStep == BrowserOK /\ Navigate => BrowserOK'
<1> SUFFICES ASSUME BrowserOK, Navigate PROVE BrowserOK'
  OBVIOUS
<1>1. ASSUME NEW p \in Prefixes, Type(p) PROVE BrowserOK'
  <2>1. Cached' /\ Grants'
    BY <1>1, QuietKept DEF BrowserOK, Type, lvars, hvars, svars, avars, gvars
  <2>2. PageTypes'
    BY <1>1 DEF BrowserOK, PageOK, PageTypes, Type, svars, dvars, rvars, gvars, hvars, avars
  <2>3. CallsOK' /\ StrayOnlyFailed' /\ gone' \cap objs' = {}
    BY <1>1 DEF BrowserOK, PageOK, CallsOK, CallInv, StrayOnlyFailed, Type, svars, dvars, hvars
  <2> QED
    BY <2>1, <2>2, <2>3 DEF BrowserOK, PageOK
<1>2. ASSUME NEW p \in Prefixes, Visit(p, list, crossed), typed' \in Prefixes \cup {None},
             UNCHANGED <<svars, dvars, rvars, lookup, granting, gone, avars>>
      PROVE  BrowserOK'
  <2>1. Cached' /\ Grants'
    BY <1>2, VisitKept DEF BrowserOK, svars, avars
  <2>2. PageOK'
    BY <1>2, VisitPage
  <2> QED
    BY <2>1, <2>2 DEF BrowserOK
<1>3. ASSUME NEW p \in Prefixes, Click(p) PROVE BrowserOK'
  BY <1>2, <1>3 DEF Click, GoToPrefix
<1>4. ASSUME NEW p \in Prefixes, BackOrForward(p) PROVE BrowserOK'
  BY <1>2, <1>4 DEF BackOrForward, BrowserOK, PageOK, PageTypes
<1>5. CASE DebounceFires
  <2>1. typed \in Prefixes
    BY <1>5 DEF DebounceFires, BrowserOK, PageOK, PageTypes
  <2> QED
    BY <1>2, <1>5, <2>1 DEF DebounceFires
<1> QED
  BY <1>1, <1>3, <1>4, <1>5 DEF Navigate

(* Listing and choosing *)

LEMMA PageSame ==
  ASSUME PageOK, UNCHANGED <<svars, pvars, dvars, rvars, lookup, granting, hvars, excused>>,
         grant' \in {grant, None}, proved' \in BOOLEAN
  PROVE  PageOK'
<1>1. PageTypes'
  BY DEF PageOK, PageTypes, svars, pvars, dvars, rvars, hvars, Outcomes, None
<1>2. CallsOK' /\ StrayOnlyFailed' /\ gone' \cap objs' = {}
  BY DEF PageOK, CallsOK, CallInv, StrayOnlyFailed, svars, pvars, dvars, hvars
<1> QED
  BY <1>1, <1>2 DEF PageOK

LEMMA ListingStep == BrowserOK /\ Listing => BrowserOK'
<1> SUFFICES ASSUME BrowserOK, Listing PROVE BrowserOK'
  OBVIOUS
<1>1. PageOK /\ Cached /\ Grants /\ proved \in BOOLEAN
  BY DEF BrowserOK, PageOK, PageTypes
<1>2. ASSUME Refocus \/ FetchNextPage PROVE BrowserOK'
  <2>1. PageOK'
    BY <1>1, <1>2, PageSame DEF Refocus, FetchNextPage, gvars, avars
  <2>2. Cached' /\ Grants'
    BY <1>1, <1>2, RefocusKept, NextPageKept
  <2> QED
    BY <2>1, <2>2 DEF BrowserOK
<1>3. ASSUME NEW p \in Prefixes, S3Lists(p) \/ ListFails(p) PROVE BrowserOK'
  <2>1. PageOK'
    BY <1>1, <1>3, PageSame DEF S3Lists, ListFails, gvars, avars
  <2>2. gone \cap objs = {} /\ objs \subseteq Objects
    BY <1>1 DEF PageOK, PageTypes
  <2>3. Cached' /\ Grants'
    BY <1>1, <1>3, <2>2, ListsKept, ListFailsKept
  <2> QED
    BY <2>1, <2>3 DEF BrowserOK
<1>4. ASSUME NEW p \in Prefixes, ListLands(p) PROVE BrowserOK'
  <2>1. grant' \in {grant, None} /\ proved' \in BOOLEAN
    BY <1>1, <1>4, GrantForgotten DEF ListLands
  <2>2. UNCHANGED <<svars, pvars, dvars, rvars, lookup, granting, hvars, excused>>
    BY <1>4 DEF ListLands
  <2>3. PageOK'
    BY <1>1, <2>1, <2>2, PageSame
  <2>4. Cached' /\ Grants'
    BY <1>1, <1>4, LandsKept
  <2> QED
    BY <2>3, <2>4 DEF BrowserOK
<1> QED
  BY <1>2, <1>3, <1>4 DEF Listing

\* Steps that leave the listings, the prefix, the bucket's access and the calls.
LEMMA PageStep ==
  ASSUME BrowserOK, PageTypes',
         UNCHANGED <<svars, prefix, lvars, call, gvars, hvars, avars>>,
         selected' \ Listed[prefix] \subseteq stray,
         folder'.count > 0 => folder'.prefix \in Prefixes
  PROVE  BrowserOK'
<1>1. Cached' /\ Grants'
  BY QuietKept DEF BrowserOK, svars, lvars, gvars, hvars, avars
<1>2. CallsOK'
  BY DEF BrowserOK, PageOK, CallsOK, CallInv
<1>3. StrayOnlyFailed' /\ gone' \cap objs' = {}
  BY DEF BrowserOK, PageOK, StrayOnlyFailed, svars, hvars
<1> QED
  BY <1>1, <1>2, <1>3 DEF BrowserOK, PageOK

LEMMA RowsAreListed ==
  ASSUME BrowserOK
  PROVE  ShownRows \subseteq Listed[prefix] /\ ShownRows \subseteq Objects
<1>1. list[prefix].data \subseteq Listed[prefix] /\ prefix \in Prefixes
  BY DEF BrowserOK, Cached, Entries, EntryInv
<1>2. Listed[prefix] \subseteq Objects
  BY <1>1, BrowserAssumption
<1> QED
  BY <1>1, <1>2 DEF ShownRows

LEMMA SelectStep ==
  ASSUME BrowserOK, NEW S, Select(S), S \subseteq selected \cup ShownRows
  PROVE  BrowserOK'
<1>1. S \ Listed[prefix] \subseteq stray /\ S \subseteq Objects
  BY RowsAreListed DEF BrowserOK, PageOK, PageTypes, StrayOnlyFailed
<1>2. PageTypes'
  BY <1>1 DEF BrowserOK, PageOK, PageTypes, Select, svars, dvars, rvars, gvars, hvars, avars
<1> QED
  BY <1>1, <1>2, PageStep DEF Select, dvars, BrowserOK, PageOK, CallsOK, CallInv

LEMMA ChooseStep == BrowserOK /\ Choose => BrowserOK'
<1> SUFFICES ASSUME BrowserOK, Choose PROVE BrowserOK'
  OBVIOUS
<1>1. ASSUME NEW k \in Objects, Toggle(k) PROVE BrowserOK'
  BY <1>1, SelectStep DEF Toggle
<1>2. CASE ToggleAll
  BY <1>2, SelectStep DEF ToggleAll
<1>3. CASE Unselect
  BY <1>3, SelectStep DEF Unselect
<1>4. CASE ZipStart
  <2>1. PageTypes'
    BY <1>4 DEF BrowserOK, PageOK, PageTypes, ZipStart, svars, pvars, dvars, gvars, hvars, avars
  <2> QED
    BY <1>4, <2>1, PageStep
       DEF ZipStart, pvars, dvars, BrowserOK, PageOK, CallsOK, CallInv, StrayOnlyFailed
<1>5. ASSUME NEW ok \in BOOLEAN, ZipAnswers(ok) PROVE BrowserOK'
  <2>1. PageTypes'
    BY <1>5 DEF BrowserOK, PageOK, PageTypes, ZipAnswers, svars, dvars, gvars, hvars, avars
  <2>2. selected' \subseteq selected /\ prefix' = prefix
    BY <1>5 DEF ZipAnswers
  <2> QED
    BY <1>5, <2>1, <2>2, PageStep
       DEF ZipAnswers, dvars, BrowserOK, PageOK, CallsOK, CallInv, StrayOnlyFailed
<1> QED
  BY <1>1, <1>2, <1>3, <1>4, <1>5 DEF Choose

(* Deletions *)

BulkOK(c) == c.failed \subseteq c.keys /\ c.keys \ Listed[c.from] \subseteq c.stray

\* Steps of a confirmed deletion before its answer.
LEMMA CallStep ==
  ASSUME BrowserOK, NEW d \in Deletions, NEW c \in Calls, call' = [call EXCEPT ![d] = c],
         d = "bulk" => BulkOK(c),
         objs' \subseteq objs,
         UNCHANGED <<perm, key, pvars, lvars, open, single, folder, rvars, gvars, hvars, avars>>
  PROVE  BrowserOK'
<1>1. Cached' /\ Grants'
  BY QuietKept DEF BrowserOK, pvars, lvars, gvars, hvars, avars
<1>2. PageTypes'
  BY DEF BrowserOK, PageOK, PageTypes, pvars, rvars, gvars, hvars, avars
<1>3. call' \in [Deletions -> Calls] /\ (call'["bulk"] = call["bulk"] \/ (d = "bulk" /\ call'["bulk"] = c))
  BY DEF BrowserOK, PageOK, CallsOK, Deletions
<1>4. CallsOK'
  BY <1>3 DEF BrowserOK, PageOK, CallsOK, CallInv, BulkOK
<1>5. StrayOnlyFailed' /\ gone' \cap objs' = {}
  BY DEF BrowserOK, PageOK, StrayOnlyFailed, pvars, hvars
<1> QED
  BY <1>1, <1>2, <1>4, <1>5 DEF BrowserOK, PageOK

LEMMA ConfirmStep == ASSUME BrowserOK, NEW d \in Deletions, Confirm(d) PROVE BrowserOK'
<1> DEFINE from == IF d = "prefix" THEN folder.prefix ELSE prefix
           c == [NoCall EXCEPT !.st = "sent", !.keys = Target(d), !.from = from, !.stray = stray]
<1>1. PageTypes /\ CallInv /\ StrayOnlyFailed /\ prefix \in Prefixes
  BY DEF BrowserOK, PageOK, CallsOK, Cached
<1>2. from \in Prefixes
  BY <1>1 DEF Confirm, CallInv
<1>3. Target(d) \in SUBSET Objects
  <2>1. d = "prefix" => Target(d) = Below[folder.prefix] /\ folder.prefix \in Prefixes
    BY <1>1 DEF Confirm, CallInv, Target
  <2>2. d # "prefix" => Target(d) \in {single, selected}
    BY DEF Target, Deletions
  <2> QED
    <3>1. single \in SUBSET Objects /\ selected \in SUBSET Objects
      BY <1>1 DEF PageTypes
    <3>2. \A p \in Prefixes : Below[p] \in SUBSET Objects
      BY BrowserAssumption
    <3> QED
      BY <2>1, <2>2, <3>1, <3>2
<1>4. d = "bulk" => Target(d) = selected /\ from = prefix
  BY DEF Target
<1>5. call' = [call EXCEPT ![d] = c]
  BY DEF Confirm
<1> HIDE DEF from
<1>6. c \in Calls /\ c.failed = {} /\ c.keys = Target(d) /\ c.from = from /\ c.stray = stray
  BY <1>1, <1>2, <1>3 DEF NoCall, Calls, PageTypes
<1> HIDE DEF c
<1>7. d = "bulk" => BulkOK(c)
  BY <1>1, <1>4, <1>6 DEF BulkOK, StrayOnlyFailed
<1>8. objs' \subseteq objs
      /\ UNCHANGED <<perm, key, pvars, lvars, open, single, folder, rvars, gvars, hvars, avars>>
  BY DEF Confirm, svars
<1> QED
  BY <1>5, <1>6, <1>7, <1>8, CallStep

LEMMA DeleteHappensStep ==
  ASSUME BrowserOK, NEW d \in Deletions, NEW D \in SUBSET Objects, NEW F \in SUBSET Objects,
         NEW whole \in BOOLEAN, DeleteHappens(d, D, F, whole)
  PROVE  BrowserOK'
<1> DEFINE o == call[d]
           E == D \cup (IF whole THEN o.keys ELSE {})
           c == [o EXCEPT !.st = "ok", !.failed = F, !.whole = whole, !.deleted = E]
<1>1. o \in Calls /\ (d = "bulk" => BulkOK(o))
  BY DEF BrowserOK, PageOK, CallsOK, CallInv, BulkOK
<1>2. E \in SUBSET Objects /\ F \subseteq o.keys
  BY <1>1 DEF DeleteHappens, Calls
<1>3. call' = [call EXCEPT ![d] = c]
  BY Zenon DEF DeleteHappens
<1> HIDE DEF o, E
<1>4. c \in Calls /\ c.failed = F /\ c.keys = o.keys /\ c.from = o.from /\ c.stray = o.stray
  BY <1>1, <1>2 DEF Calls
<1> HIDE DEF c
<1>5. d = "bulk" => BulkOK(c)
  BY <1>1, <1>2, <1>4 DEF BulkOK
<1>6. objs' \subseteq objs
      /\ UNCHANGED <<perm, key, pvars, lvars, open, single, folder, rvars, gvars, hvars, avars>>
  BY DEF DeleteHappens
<1> QED
  BY <1>3, <1>4, <1>5, <1>6, CallStep

LEMMA DeleteFailsStep ==
  ASSUME BrowserOK, NEW d \in Deletions, NEW D \in SUBSET Objects, DeleteFails(d, D)
  PROVE  BrowserOK'
<1> DEFINE o == call[d]
           c == [o EXCEPT !.st = "error"]
<1>1. o \in Calls /\ (d = "bulk" => BulkOK(o))
  BY DEF BrowserOK, PageOK, CallsOK, CallInv, BulkOK
<1>2. call' = [call EXCEPT ![d] = c]
  BY DEF DeleteFails
<1> HIDE DEF o
<1>3. c \in Calls /\ c.failed = o.failed /\ c.keys = o.keys /\ c.from = o.from /\ c.stray = o.stray
  BY <1>1 DEF Calls
<1> HIDE DEF c
<1>4. d = "bulk" => BulkOK(c)
  BY <1>1, <1>3 DEF BulkOK
<1>5. objs' \subseteq objs
      /\ UNCHANGED <<perm, key, pvars, lvars, open, single, folder, rvars, gvars, hvars, avars>>
  BY DEF DeleteFails
<1> QED
  BY <1>2, <1>3, <1>4, <1>5, CallStep

LEMMA ErrorAnswersStep == ASSUME BrowserOK, NEW d \in Deletions, ErrorAnswers(d) PROVE BrowserOK'
<1>1. call' = [call EXCEPT ![d] = NoCall] /\ NoCall \in Calls /\ BulkOK(NoCall)
  BY NoCallFacts DEF ErrorAnswers, BulkOK
<1>2. objs' \subseteq objs
      /\ UNCHANGED <<perm, key, pvars, lvars, open, single, folder, rvars, gvars, hvars, avars>>
  BY DEF ErrorAnswers, svars
<1> QED
  BY <1>1, <1>2, CallStep

\* An answer that says what was deleted.
LEMMA SucceedsStep ==
  ASSUME BrowserOK, NEW d \in Deletions, Succeeds(d), Cached', Grants',
         typed' \in Prefixes \cup {None}, grant' \in {grant, None},
         selected' \subseteq Objects, stray' \subseteq Objects, StrayOnlyFailed'
  PROVE  BrowserOK'
<1>1. call[d] \in Calls
  BY DEF BrowserOK, PageOK, CallsOK
<1>2. gone' \subseteq Objects /\ gone' \cap objs' = {}
  BY <1>1 DEF Succeeds, svars, BrowserOK, PageOK, PageTypes, Calls
<1>3. /\ open' \subseteq Deletions \cup {"grant"} /\ single' \subseteq Objects
      /\ folder' \in [prefix : Prefixes \cup {None}, count : Nat]
      /\ folder'.count > 0 => folder'.prefix \in Prefixes
  BY DEF Succeeds, Closed, NoFolder, BrowserOK, PageOK, PageTypes, CallsOK, CallInv
<1>4. PageTypes'
  BY <1>2, <1>3 DEF Succeeds, svars, rvars, avars, BrowserOK, PageOK, PageTypes, Outcomes, None
<1>5. call' = [call EXCEPT ![d] = NoCall]
  BY DEF Succeeds
<1>6. call' \in [Deletions -> Calls] /\ call'["bulk"] \in {call["bulk"], NoCall}
  BY <1>5, NoCallFacts DEF BrowserOK, PageOK, CallsOK, Deletions
<1>7. CallsOK'
  BY <1>3, <1>6, NoCallFacts DEF BrowserOK, PageOK, CallsOK, CallInv
<1> QED
  BY <1>2, <1>4, <1>7 DEF BrowserOK, PageOK

LEMMA AnswerStep ==
  ASSUME BrowserOK, SingleAnswers \/ BulkAnswers \/ PrefixAnswers
  PROVE  BrowserOK'
<1>1. PageTypes /\ StrayOnlyFailed /\ Cached /\ Grants /\ CallInv /\ call \in [Deletions -> Calls]
      /\ prefix \in Prefixes
  BY DEF BrowserOK, PageOK, CallsOK, Cached
<1>2. CASE SingleAnswers
  <2>1. Succeeds("single") /\ "single" \in Deletions
    BY <1>2 DEF SingleAnswers, Deletions
  <2>2. /\ list' = Invalidated(list) /\ crossed' = Crossing /\ prefix' = prefix
        /\ grant' = GrantAfter(list', prefix, grant) /\ typed' = typed
        /\ selected' \subseteq selected /\ stray' = stray
    BY <1>2 DEF SingleAnswers
  <2>3. UNCHANGED <<key, perm, proved, excused, granting>>
    BY <2>1 DEF Succeeds, svars, avars
  <2>4. Cached' /\ Grants'
    BY <1>1, <2>2, <2>3, RefreshKept
  <2>5. grant' \in {grant, None}
    BY <2>2, GrantForgotten
  <2>6. /\ typed' \in Prefixes \cup {None} /\ StrayOnlyFailed'
        /\ selected' \subseteq Objects /\ stray' \subseteq Objects
    BY <1>1, <2>2 DEF PageTypes, StrayOnlyFailed
  <2> QED
    BY <2>1, <2>4, <2>5, <2>6, SucceedsStep
<1>3. CASE BulkAnswers
  <2> DEFINE c == call["bulk"]
  <2>1. Succeeds("bulk") /\ "bulk" \in Deletions
    BY <1>3 DEF BulkAnswers, Deletions
  <2>2. /\ list' = Invalidated(list) /\ crossed' = Crossing /\ prefix' = prefix
        /\ grant' = GrantAfter(list', prefix, grant) /\ typed' = typed
        /\ selected' = c.failed
        /\ stray' = stray \cup (IF c.from = prefix THEN c.failed \cap c.stray ELSE c.failed)
    BY <1>3 DEF BulkAnswers
  <2>3. UNCHANGED <<key, perm, proved, excused, granting>>
    BY <2>1 DEF Succeeds, svars, avars
  <2>4. Cached' /\ Grants'
    BY <1>1, <2>2, <2>3, RefreshKept
  <2>5. grant' \in {grant, None}
    BY <2>2, GrantForgotten
  <2>6. c.failed \subseteq Objects
    BY <1>1, <2>1 DEF Calls
  <2>7. StrayOnlyFailed'
    BY <1>1, <2>2 DEF StrayOnlyFailed, CallInv
  <2>8. /\ typed' \in Prefixes \cup {None}
        /\ selected' \subseteq Objects /\ stray' \subseteq Objects
    BY <1>1, <2>2, <2>6 DEF PageTypes
  <2> QED
    BY <2>1, <2>4, <2>5, <2>7, <2>8, SucceedsStep
<1>4. CASE PrefixAnswers
  <2>1. Succeeds("prefix") /\ "prefix" \in Deletions
    BY <1>4 DEF PrefixAnswers, Deletions
  <2>2. UNCHANGED <<key, perm, proved, excused, granting>>
    BY <2>1 DEF Succeeds, svars, avars
  <2>3. CASE call["prefix"].whole /\ call["prefix"].from = prefix
    <3> DEFINE p == Parent[prefix]
    <3>1. Visit(p, Invalidated(list), Crossing) /\ typed' = None
      BY <1>4, <2>3 DEF PrefixAnswers, GoToPrefix
    <3>2. p \in Prefixes
      BY <1>1, BrowserAssumption
    <3> HIDE DEF p
    <3>3. Cached' /\ Grants'
      BY <1>1, <2>2, <3>1, <3>2, RefreshedVisitKept
    <3>4. grant' \in {grant, None}
      BY <3>1, GrantForgotten DEF Visit
    <3>5. /\ \/ p = prefix /\ selected' = selected /\ stray' = stray
             \/ selected' = {} /\ stray' = {}
          /\ prefix' = p
      BY <3>1 DEF Visit, SelectionFollows
    <3>6. /\ typed' \in Prefixes \cup {None} /\ StrayOnlyFailed'
          /\ selected' \subseteq Objects /\ stray' \subseteq Objects
      BY <1>1, <3>1, <3>5 DEF PageTypes, StrayOnlyFailed
    <3> QED
      BY <2>1, <3>3, <3>4, <3>6, SucceedsStep
  <2>4. CASE ~(call["prefix"].whole /\ call["prefix"].from = prefix)
    <3>1. /\ list' = Invalidated(list) /\ crossed' = Crossing /\ UNCHANGED <<pvars, stray>>
          /\ grant' = GrantAfter(list', prefix, grant)
      BY <1>4, <2>4 DEF PrefixAnswers
    <3>2. Cached' /\ Grants'
      BY <1>1, <2>2, <3>1, RefreshKept DEF pvars
    <3>3. grant' \in {grant, None}
      BY <3>1, GrantForgotten
    <3>4. /\ typed' \in Prefixes \cup {None} /\ StrayOnlyFailed'
          /\ selected' \subseteq Objects /\ stray' \subseteq Objects
      BY <1>1, <3>1 DEF PageTypes, StrayOnlyFailed, pvars
    <3> QED
      BY <2>1, <3>2, <3>3, <3>4, SucceedsStep
  <2> QED
    BY <2>3, <2>4
<1> QED
  BY <1>2, <1>3, <1>4

LEMMA AskStep ==
  ASSUME BrowserOK,
         \/ \E k \in Objects : AskSingle(k)
         \/ AskBulk \/ AskSummary
         \/ \E ok \in BOOLEAN : SummaryAnswers(ok)
         \/ \E d \in Deletions \cup {"grant"} : Cancel(d)
  PROVE  BrowserOK'
<1>1. PageTypes /\ StrayOnlyFailed /\ CallInv /\ prefix \in Prefixes
  BY DEF BrowserOK, PageOK, CallsOK, Cached
<1>2. UNCHANGED <<svars, pvars, lvars, call, gvars, hvars, avars>>
  BY DEF AskSingle, AskBulk, AskSummary, SummaryAnswers, Cancel, dvars
<1>3. selected' \ Listed[prefix] \subseteq stray
  BY <1>1, <1>2 DEF StrayOnlyFailed, pvars
<1>4. /\ open' \subseteq Deletions \cup {"grant"} /\ single' \subseteq Objects
      /\ folder' \in [prefix : Prefixes \cup {None}, count : Nat]
      /\ folder'.count > 0 => folder'.prefix \in Prefixes
      /\ summary' \in Prefixes \cup {None} /\ zip' = zip
  <2>1. ASSUME NEW k \in Objects, AskSingle(k) PROVE <1>4!:
    BY <1>1, <2>1 DEF AskSingle, PageTypes, CallInv, Deletions, rvars
  <2>2. CASE AskBulk \/ AskSummary
    BY <1>1, <2>2 DEF AskBulk, AskSummary, PageTypes, CallInv, Deletions, rvars, dvars
  <2>3. ASSUME NEW ok \in BOOLEAN, SummaryAnswers(ok) PROVE <1>4!:
    <3>1. CASE ok
      <4>1. summary \in Prefixes
        BY <1>1, <2>3 DEF SummaryAnswers, PageTypes
      <4>2. IsFiniteSet(Below[summary] \cap objs)
        BY <4>1, <1>1, BrowserAssumption, FS_Subset DEF PageTypes
      <4>3. Cardinality(Below[summary] \cap objs) \in Nat
        BY <4>2, FS_CardinalityType
      <4> QED
        <5> DEFINE n == Cardinality(Below[summary] \cap objs)
        <5>1. /\ folder' = [prefix |-> summary, count |-> n] /\ open' = open \cup {"prefix"}
              /\ summary' = None /\ UNCHANGED <<single, zip>>
          BY <3>1, <2>3 DEF SummaryAnswers
        <5>2. n \in Nat
          BY <4>3
        <5> HIDE DEF n
        <5> QED
          BY <5>1, <5>2, <4>1, <1>1 DEF PageTypes, Deletions
    <3>2. CASE ~ok
      BY <3>2, <1>1, <2>3 DEF SummaryAnswers, PageTypes, CallInv
    <3> QED
      BY <3>1, <3>2
  <2>4. ASSUME NEW d \in Deletions \cup {"grant"}, Cancel(d) PROVE <1>4!:
    BY <1>1, <2>4 DEF Cancel, Closed, NoFolder, PageTypes, CallInv, Deletions, rvars
  <2> QED
    BY <2>1, <2>2, <2>3, <2>4
<1>5. PageTypes'
  BY <1>1, <1>2, <1>4 DEF PageTypes, svars, pvars, gvars, hvars, avars
<1> QED
  BY <1>2, <1>3, <1>4, <1>5, PageStep DEF pvars

LEMMA DeleteStep == BrowserOK /\ Delete => BrowserOK'
<1> SUFFICES ASSUME BrowserOK, Delete PROVE BrowserOK'
  OBVIOUS
<1>1. ASSUME NEW d \in Deletions, Confirm(d) \/ ErrorAnswers(d) PROVE BrowserOK'
  BY <1>1, ConfirmStep, ErrorAnswersStep
<1>2. ASSUME NEW d \in Deletions, NEW D \in SUBSET Objects, DeleteFails(d, D) PROVE BrowserOK'
  BY <1>2, DeleteFailsStep
<1>3. ASSUME NEW d \in Deletions, NEW D \in SUBSET Objects, NEW F \in SUBSET Objects,
             NEW whole \in BOOLEAN, DeleteHappens(d, D, F, whole)
      PROVE  BrowserOK'
  BY <1>3, DeleteHappensStep
<1> QED
  BY <1>1, <1>2, <1>3, AskStep, AnswerStep DEF Delete

(* Access and others *)

LEMMA AccessStep == BrowserOK /\ Access => BrowserOK'
<1> SUFFICES ASSUME BrowserOK, Access PROVE BrowserOK'
  OBVIOUS
<1>1. PageTypes /\ StrayOnlyFailed /\ CallsOK /\ gone \cap objs = {} /\ Cached /\ Grants
  BY DEF BrowserOK, PageOK
<1>2. CASE LookupAnswers
  <2>1. Cached' /\ Grants'
    BY <1>1, <1>2, QuietKept DEF LookupAnswers, svars, pvars, lvars, hvars, avars
  <2>2. PageTypes'
    BY <1>1, <1>2 DEF LookupAnswers, PageTypes, svars, pvars, dvars, rvars, hvars, avars
  <2>3. CallsOK' /\ StrayOnlyFailed' /\ gone' \cap objs' = {}
    BY <1>1, <1>2
       DEF LookupAnswers, CallsOK, CallInv, StrayOnlyFailed, svars, pvars, dvars, hvars
  <2> QED
    BY <2>1, <2>2, <2>3 DEF BrowserOK, PageOK
<1>3. CASE AskGrant
  <2>1. PageTypes'
    BY <1>1, <1>3 DEF AskGrant, PageTypes, svars, pvars, rvars, gvars, hvars, avars
  <2>2. selected' \ Listed[prefix] \subseteq stray
    BY <1>1, <1>3 DEF AskGrant, pvars, StrayOnlyFailed
  <2> QED
    BY <1>1, <1>3, <2>1, <2>2, PageStep DEF AskGrant, pvars, CallsOK, CallInv
<1>4. CASE ConfirmGrant \/ GrantHappens \/ GrantFails
  <2>1. UNCHANGED <<objs, key, pvars, lvars, dvars, rvars, lookup, grant, hvars>>
    BY <1>4 DEF ConfirmGrant, GrantHappens, GrantFails, svars
  <2>2. perm \in BOOLEAN /\ proved \in BOOLEAN /\ excused \in BOOLEAN
    BY <1>1 DEF PageTypes
  <2>3. Cached' /\ Grants'
    BY <1>1, <1>4, <2>1, <2>2, PermissionKept DEF pvars, lvars, hvars
  <2>4. perm' \in BOOLEAN /\ proved' \in BOOLEAN /\ excused' \in BOOLEAN
    BY <1>4, <2>2 DEF ConfirmGrant, GrantHappens, GrantFails, svars, avars
  <2>5. granting' \in Outcomes \cup {"sent"}
    BY <1>4 DEF ConfirmGrant, GrantHappens, GrantFails, Outcomes
  <2>6. PageTypes'
    BY <1>1, <2>1, <2>4, <2>5 DEF PageTypes, pvars, dvars, rvars, hvars
  <2>7. CallsOK' /\ StrayOnlyFailed' /\ gone' \cap objs' = {}
    BY <1>1, <2>1 DEF CallsOK, CallInv, StrayOnlyFailed, pvars, dvars, hvars
  <2> QED
    BY <2>3, <2>6, <2>7 DEF BrowserOK, PageOK
<1>5. CASE GrantAnswers
  <2>1. Cached' /\ Grants'
    BY <1>1, <1>5, GrantAnswersKept
  <2>2. /\ UNCHANGED <<svars, pvars, single, folder, call, rvars, lookup, hvars, excused>>
        /\ granting' = None /\ granting \in Outcomes
        /\ open' \subseteq open /\ proved' \in BOOLEAN
        /\ grant' = GrantAfter(list', prefix, granting)
    BY <1>1, <1>5 DEF GrantAnswers, PageTypes
  <2>3. grant' \in Outcomes
    BY <2>2, GrantForgotten DEF Outcomes
  <2>4. PageTypes'
    BY <1>1, <2>2, <2>3 DEF PageTypes, svars, pvars, rvars, hvars, Outcomes
  <2>5. CallsOK' /\ StrayOnlyFailed' /\ gone' \cap objs' = {}
    BY <1>1, <2>2 DEF CallsOK, CallInv, StrayOnlyFailed, svars, pvars, hvars
  <2> QED
    BY <2>1, <2>4, <2>5 DEF BrowserOK, PageOK
<1> QED
  BY <1>2, <1>3, <1>4, <1>5 DEF Access

LEMMA OutsideStep == BrowserOK /\ Outside => BrowserOK'
<1> SUFFICES ASSUME BrowserOK, Outside PROVE BrowserOK'
  OBVIOUS
<1>1. PageTypes /\ StrayOnlyFailed /\ CallsOK /\ gone \cap objs = {} /\ Cached /\ Grants
  BY DEF BrowserOK, PageOK
<1>2. CASE ChangePermission
  <2>1. /\ UNCHANGED <<objs, key, pvars, lvars, dvars, rvars, lookup, granting, grant, hvars>>
        /\ perm' \in BOOLEAN /\ excused' \in BOOLEAN /\ proved' = proved
    BY <1>1, <1>2 DEF ChangePermission, Others, hvars, PageTypes
  <2>2. Cached' /\ Grants'
    BY <1>1, <1>2, <2>1, PermissionKept DEF PageTypes, pvars, lvars, hvars
  <2>3. PageTypes'
    BY <1>1, <2>1 DEF PageTypes, pvars, dvars, rvars, hvars
  <2>4. CallsOK' /\ StrayOnlyFailed' /\ gone' \cap objs' = {}
    BY <1>1, <2>1 DEF CallsOK, CallInv, StrayOnlyFailed, pvars, dvars, hvars
  <2> QED
    BY <2>2, <2>3, <2>4 DEF BrowserOK, PageOK
<1>3. ASSUME NEW k \in Objects, OtherPuts(k) \/ OtherRemoves(k) \/ UploadsDrain(k)
      PROVE  BrowserOK'
  <2>1. /\ UNCHANGED <<perm, key, pvars, dvars, rvars, lookup, granting, stray, avars>>
        /\ gone' \subseteq gone /\ gone' \cap objs' = {} /\ objs' \subseteq Objects
    BY <1>1, <1>3 DEF OtherPuts, OtherRemoves, UploadsDrain, Others, PageTypes
  <2>2. grant' \in {grant, None}
    BY <1>3, GrantForgotten DEF OtherPuts, OtherRemoves, UploadsDrain
  <2>3. PageTypes'
    BY <1>1, <2>1, <2>2 DEF PageTypes, pvars, dvars, rvars, avars, Outcomes, None
  <2>4. CallsOK' /\ StrayOnlyFailed'
    BY <1>1, <2>1 DEF CallsOK, CallInv, StrayOnlyFailed, pvars, dvars
  <2>5. CASE UploadsDrain(k)
    <3>1. Cached' /\ Grants'
      BY <1>1, <2>1, <2>5, RefreshKept DEF UploadsDrain, pvars, avars
    <3> QED
      BY <2>1, <2>3, <2>4, <3>1 DEF BrowserOK, PageOK
  <2>6. CASE OtherPuts(k) \/ OtherRemoves(k)
    <3>1. UNCHANGED <<lvars, grant>>
      BY <2>6 DEF OtherPuts, OtherRemoves
    <3>2. Grants'
      BY <1>1, <2>1, <3>1 DEF Grants, AccessInv, Granted, pvars, avars, lvars
    <3>3. Cached'
      BY <1>1, <2>1, <3>1 DEF Cached, Entries, EntryInv, MayShow, pvars, lvars
    <3> QED
      BY <2>1, <2>3, <2>4, <3>2, <3>3 DEF BrowserOK, PageOK
  <2> QED
    BY <1>3, <2>5, <2>6
<1> QED
  BY <1>2, <1>3 DEF Outside

LEMMA BrowserOKNext == BrowserOK /\ [BrowserNext]_bvars => BrowserOK'
<1> SUFFICES ASSUME BrowserOK, [BrowserNext]_bvars PROVE BrowserOK'
  OBVIOUS
<1>1. CASE UNCHANGED bvars
  <2>1. Cached' /\ Grants'
    BY <1>1, QuietKept DEF BrowserOK, bvars, svars, pvars, lvars, gvars, hvars, avars
  <2>2. PageOK'
    BY <1>1, PageSame DEF BrowserOK, PageOK, PageTypes, bvars, gvars, avars
  <2> QED
    BY <2>1, <2>2 DEF BrowserOK
<1> QED
  BY <1>1, NavigateStep, ListingStep, ChooseStep, DeleteStep, AccessStep, OutsideStep
     DEF BrowserNext

LEMMA BrowserAgreement == BrowserSpec => []BrowserOK
BY BrowserOKInit, BrowserOKNext, PTL DEF BrowserSpec

\* Every variable of the object browser has its type, and the listing on screen
\* is always being fetched or settled by an answer.
THEOREM BrowserTyped == BrowserSpec => []BrowserTypes
<1>1. BrowserOK => BrowserTypes
  BY BrowserOKMeans
<1> QED
  BY <1>1, BrowserAgreement, PTL

\* The panel over a refused listing blames the console's key only when the key
\* is at fault or lost its permission again.
THEOREM BlamesTheKeyRightly == BrowserSpec => []BlameIsEvidenced
<1>1. BrowserOK => BlameIsEvidenced
  <2> SUFFICES ASSUME BrowserOK, list[prefix].fetch = None, ~crossed[prefix].data,
                      granting = None, View(list[prefix]) = "key-invalid", key = "good"
               PROVE  excused
    BY DEF BlameIsEvidenced
  <2>1. list[prefix].st = "error" /\ list[prefix].denied
    BY DEF View
  <2>2. grant \in {"changed", "unchanged"}
    BY DEF View
  <2>3. Granted
    BY <2>2 DEF Granted, None
  <2> QED
    BY <2>1, <2>3 DEF BrowserOK, Grants, AccessInv
<1> QED
  BY <1>1, BrowserAgreement, PTL

\* A deletion leaves neither the objects that it deleted on screen nor a
\* selection of what is not listed, but for the cases the property names.
THEOREM DeletionsLeaveTheScreen == BrowserSpec => []DeletionsSettle
<1>1. BrowserOK => DeletionsSettle
  <2> SUFFICES ASSUME BrowserOK PROVE DeletionsSettle
    OBVIOUS
  <2>1. EntryInv(prefix, list[prefix], crossed[prefix], gone) /\ MayShow(list[prefix])
    BY DEF BrowserOK, Cached, Entries
  <2>2. OwnDeletesLeave
    BY <2>1 DEF OwnDeletesLeave, ShownRows, EntryInv, MayShow
  <2> QED
    BY <2>2 DEF DeletionsSettle, BrowserOK, PageOK
<1> QED
  BY <1>1, BrowserAgreement, PTL
=============================================================================
