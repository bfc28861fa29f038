------------------------ MODULE BucketKeyPermsProofs ------------------------
(***************************************************************************)
(* Proofs about BucketKeyPerms, for any set of concurrent requests.        *)
(***************************************************************************)
EXTENDS BucketKeyPerms, TLAPS

\* The flags a change turns on and off lead from the current set to the wanted
\* one, through their union when the allow step comes first.
LEMMA Differences ==
  ASSUME NEW w \in SUBSET Perms, NEW c \in SUBSET Perms
  PROVE  /\ AllowFlags(w, c) \in SUBSET Perms
         /\ DenyFlags(w, c) \in SUBSET Perms
         /\ c \cup AllowFlags(w, c) = c \cup w
         /\ (c \cup w) \ DenyFlags(w, c) = w
         /\ AllowFlags(w, c) = {} => c \cup w = c
         /\ DenyFlags(w, c) = {} => c \cup w = w
         /\ AllowFlags(w, c) = {} /\ DenyFlags(w, c) = {} => w = c
  BY DEF AllowFlags, DenyFlags

\* The wanted set is a permission set, and console access asks for no other
\* owner flag than the current one.
LEMMA WantType ==
  ASSUME NEW k, NEW d \in SUBSET Perms, NEW c \in SUBSET Perms
  PROVE  /\ Want(k, d, c) \in SUBSET Perms
         /\ k = "console" => ("owner" \in Want(k, d, c) <=> "owner" \in c)
         /\ k = "console" => Want(k, d, c) # {}
         /\ k = "set" => Want(k, d, c) = d
  BY DEF Want, Perms

\* A call that Garage performed is still a call.
LEMMA AppliedType ==
  ASSUME NEW c \in Call, NEW g \in SUBSET Perms
  PROVE  [c EXCEPT !.st = "applied", !.after = g] \in Call
  BY DEF Call

\* A step of one request keeps the variables typed.
LEMMA TypesStep ==
  ASSUME Types, NEW r \in Requests, Step(r)
  PROVE  Types'
<1> USE DEF Planned, Waiting, Setters
<1>0. \A w, c \in SUBSET Perms : /\ AllowFlags(w, c) \in SUBSET Perms
                                 /\ DenyFlags(w, c) \in SUBSET Perms
  BY Differences
<1>1. ASSUME NEW op \in {"allow", "deny"}, NEW p \in SUBSET Perms, Send(r, op, p)
      PROVE  /\ pc' \in [Requests -> {"idle", "info", "rejected", "unread"} \cup Planned]
             /\ call' \in [Requests -> Call]
  BY <1>1 DEF Send, Types, Call
<1>2. WantOf(r) \in SUBSET Perms /\ Want(kind[r], desired[r], garage) \in SUBSET Perms
  BY WantType DEF WantOf, Types
<1>3. ASSUME NEW d \in SUBSET Perms, PutPermissions(r, d) PROVE Types'
  BY <1>3 DEF PutPermissions, Arrive, Types
<1>4. ASSUME NEW d \in SUBSET Perms, GrantBucketKey(r, d) PROVE Types'
  BY <1>1, <1>4 DEF GrantBucketKey, Arrive, Types
<1>5. CASE GrantConsoleAccess(r)
  BY <1>5 DEF GrantConsoleAccess, Arrive, Types
<1>6. CASE RevokeBucketKey(r)
  BY <1>1, <1>6 DEF RevokeBucketKey, Arrive, Types
<1>7. CASE ReadBucketInfo(r)
  <2>1. /\ pc' \in [Requests -> {"idle", "info", "rejected", "unread"} \cup Planned]
        /\ call' \in [Requests -> Call]
    BY <1>0, <1>1, <1>2, <1>7 DEF ReadBucketInfo, Types
  <2> QED
    BY <2>1, <1>7 DEF ReadBucketInfo, Types
<1>8. CASE ReadBucketInfoFails(r)
  BY <1>8 DEF ReadBucketInfoFails, Types
<1>9. CASE GarageApplies(r)
  <2>1. garage' \in SUBSET Perms
    BY <1>9 DEF GarageApplies, Types, Call
  <2>3. \E c \in Call : call' = [call EXCEPT ![r] = c]
    <3>1. call' = [call EXCEPT ![r] = [call[r] EXCEPT !.st = "applied", !.after = garage']]
      BY <1>9, Zenon DEF GarageApplies
    <3>2. call[r] \in Call
      BY Zenon DEF Types
    <3> QED
      BY <2>1, <3>1, <3>2, AppliedType, Zenon
  <2>4. call' \in [Requests -> Call]
    BY <2>3 DEF Types
  <2>2. dirty' \in BOOLEAN /\ foreign' \in [Requests -> BOOLEAN]
    BY <1>9, Zenon DEF GarageApplies
  <2> QED
    BY <2>1, <2>2, <2>4, <1>9 DEF GarageApplies, Types
<1>10. CASE GarageRefuses(r)
  BY <1>10 DEF GarageRefuses, Types, Call
<1>11. CASE CallSucceeds(r)
  <2>1. /\ pc' \in [Requests -> {"idle", "info", "rejected", "unread"} \cup Planned]
        /\ call' \in [Requests -> Call]
    <3>1. CASE pc' = [pc EXCEPT ![r] = "ok"] /\ UNCHANGED call
      BY <3>1 DEF Types
    <3>2. CASE Send(r, "deny", DenyFlags(WantOf(r), current[r]))
      BY <3>2, <1>0, <1>1, <1>2 DEF Types
    <3> QED
      BY <3>1, <3>2, <1>11 DEF CallSucceeds
  <2>2. call[r].after \in SUBSET Perms
    BY DEF Types, Call
  <2>3. dirty' \in BOOLEAN
    BY <1>11 DEF CallSucceeds, Types
  <2> QED
    BY <2>1, <2>2, <2>3, <1>11 DEF CallSucceeds, Types
<1>12. CASE CallFails(r)
  BY <1>12 DEF CallFails, Types
<1> QED
  BY <1>3, <1>4, <1>5, <1>6, <1>7, <1>8, <1>9, <1>10, <1>11, <1>12 DEF Step

\* What a step of another request leaves alone of request s.
Unmoved(s) ==
  /\ kind'[s] = kind[s] /\ desired'[s] = desired[s] /\ pc'[s] = pc[s]
  /\ current'[s] = current[s] /\ changed'[s] = changed[s]
  /\ result'[s] = result[s] /\ call'[s] = call[s]
  /\ foreign[s] => foreign'[s]
  /\ garage' # garage => foreign'[s]

\* A step of one request changes nothing of another request except that it
\* marks it disturbed when it changed Garage.
LEMMA Frame ==
  ASSUME Types, NEW r \in Requests, Step(r), NEW s \in Requests, s # r
  PROVE  Unmoved(s)
<1> USE DEF Types, Unmoved
<1>1. ASSUME NEW d \in SUBSET Perms, PutPermissions(r, d) PROVE Unmoved(s)
  BY <1>1 DEF PutPermissions, Arrive
<1>2. ASSUME NEW d \in SUBSET Perms, GrantBucketKey(r, d) PROVE Unmoved(s)
  BY <1>2 DEF GrantBucketKey, Arrive, Send
<1>3. CASE GrantConsoleAccess(r) \/ RevokeBucketKey(r)
  BY <1>3 DEF GrantConsoleAccess, RevokeBucketKey, Arrive, Send
<1>4. CASE ReadBucketInfo(r) \/ ReadBucketInfoFails(r)
  BY <1>4 DEF ReadBucketInfo, ReadBucketInfoFails, Send
<1>5. CASE GarageApplies(r) \/ GarageRefuses(r)
  <2>1. ASSUME GarageApplies(r) PROVE foreign'[s] = (foreign[s] \/ garage' # garage)
    <3>1. foreign' = [t \in Requests |-> foreign[t] \/ (t # r /\ garage' # garage)]
      BY <2>1, Zenon DEF GarageApplies
    <3>2. foreign'[s] = (foreign[s] \/ (s # r /\ garage' # garage))
      BY <3>1, Zenon
    <3> QED
      BY <3>2, Zenon
  <2> QED
    BY <2>1, <1>5 DEF GarageApplies, GarageRefuses
<1>6. CASE CallSucceeds(r) \/ CallFails(r)
  BY <1>6 DEF CallSucceeds, CallFails, Send
<1> QED
  BY <1>1, <1>2, <1>3, <1>4, <1>5, <1>6 DEF Step

\* The plan and the progress of a request survive a step of another request.
LEMMA OthersKept ==
  ASSUME Types, NEW s \in Requests, Unmoved(s), foreign'[s] \in BOOLEAN,
         PlanAt(s), ReachedAt(s)
  PROVE  PlanAt(s)' /\ ReachedAt(s)'
<1>1. WantOf(s)' = WantOf(s)
  BY DEF Unmoved, WantOf
<1>2. PlanAt(s)'
  BY <1>1 DEF Unmoved, PlanAt
<1>3. ReachedAt(s)'
  BY <1>1 DEF Unmoved, ReachedAt, Undisturbed, Types
<1> QED
  BY <1>2, <1>3

\* A step of a request keeps its own plan.
LEMMA PlanStep ==
  ASSUME Types, NEW r \in Requests, Step(r), PlanAt(r)
  PROVE  PlanAt(r)'
<1> USE DEF Planned, Waiting, Setters
<1>0. \A w, c \in SUBSET Perms :
        AllowFlags(w, c) = {} /\ DenyFlags(w, c) = {} => w = c
  BY Differences
<1>1. /\ kind[r] \in {"none", "set", "console", "grant", "revoke"}
      /\ pc[r] \in {"idle", "info", "rejected", "unread"} \cup Planned
      /\ garage \in SUBSET Perms
      /\ Want(kind[r], desired[r], garage) \in SUBSET Perms
      /\ call[r] \in Call
  BY WantType DEF Types
<1>2. ASSUME NEW d \in SUBSET Perms, PutPermissions(r, d) PROVE PlanAt(r)'
  BY <1>2 DEF PutPermissions, Arrive, PlanAt, Types
<1>3. ASSUME NEW d \in SUBSET Perms, GrantBucketKey(r, d) PROVE PlanAt(r)'
  BY <1>3 DEF GrantBucketKey, Arrive, Send, PlanAt, Types
<1>4. CASE GrantConsoleAccess(r)
  BY <1>4 DEF GrantConsoleAccess, Arrive, PlanAt, Types
<1>5. CASE RevokeBucketKey(r)
  BY <1>5 DEF RevokeBucketKey, Arrive, Send, PlanAt, Types
<1>6. CASE ReadBucketInfo(r)
  <2> DEFINE w == Want(kind[r], desired[r], garage)
  <2>1. /\ WantOf(r)' = w /\ current'[r] = garage /\ result'[r] = garage
        /\ kind'[r] = kind[r] /\ desired'[r] = desired[r]
    BY <1>6 DEF ReadBucketInfo, WantOf, Types
  <2>2. kind[r] \in Setters /\ (kind[r] = "set" => desired[r] # {}) /\ call[r] = NoCall
    BY <1>6 DEF ReadBucketInfo, PlanAt
  <2>3. CASE AllowFlags(w, garage) # {}
    BY <2>1, <2>2, <2>3, <1>6 DEF ReadBucketInfo, Send, PlanAt, Types
  <2>4. CASE AllowFlags(w, garage) = {} /\ DenyFlags(w, garage) # {}
    BY <2>1, <2>2, <2>4, <1>6 DEF ReadBucketInfo, Send, PlanAt, Types
  <2>5. CASE AllowFlags(w, garage) = {} /\ DenyFlags(w, garage) = {}
    <3>1. w = garage
      BY <2>5, <1>0, <1>1
    <3>2. pc'[r] = "ok" /\ call'[r] = NoCall
      BY <2>2, <2>5, <1>6 DEF ReadBucketInfo, Types
    <3> QED
      BY <3>1, <3>2, <2>1, <2>2 DEF PlanAt, NoCall
  <2> QED
    BY <2>3, <2>4, <2>5
<1>7. CASE ReadBucketInfoFails(r)
  BY <1>7 DEF ReadBucketInfoFails, PlanAt, Types
<1>8. CASE GarageApplies(r) \/ GarageRefuses(r)
  <2>1. /\ WantOf(r)' = WantOf(r) /\ current'[r] = current[r] /\ result'[r] = result[r]
        /\ kind'[r] = kind[r] /\ desired'[r] = desired[r] /\ pc'[r] = pc[r]
    BY <1>8 DEF GarageApplies, GarageRefuses, WantOf
  <2>2. /\ call[r].st = "sent" /\ call'[r].op = call[r].op
        /\ call'[r].perms = call[r].perms /\ call'[r].st \in {"applied", "refused"}
        /\ call[r].op # "none"
    BY <1>1, <1>8 DEF GarageApplies, GarageRefuses, Types, Call, PlanAt, NoCall
  <2>3. pc[r] \in Waiting \cup {"failed"} \/ (pc[r] = "ok" /\ kind[r] \notin Setters)
    BY <2>2, <1>1 DEF PlanAt, NoCall, Call
  <2> QED
    BY <1>1, <2>1, <2>2, <2>3 DEF PlanAt
<1>9. CASE CallSucceeds(r)
  <2>1. /\ WantOf(r)' = WantOf(r) /\ current'[r] = current[r]
        /\ result'[r] = call[r].after
        /\ kind'[r] = kind[r] /\ desired'[r] = desired[r]
        /\ pc[r] \in Waiting /\ call[r].st = "applied" /\ call[r].op = pc[r]
    BY <1>9 DEF CallSucceeds, WantOf, Types, PlanAt
  <2>2. CASE /\ pc[r] = "allow" /\ kind[r] \in Setters
             /\ DenyFlags(WantOf(r), current[r]) # {}
    BY <2>1, <2>2, <1>9 DEF CallSucceeds, Send, PlanAt, Types
  <2>3. CASE ~ (/\ pc[r] = "allow" /\ kind[r] \in Setters
                /\ DenyFlags(WantOf(r), current[r]) # {})
    <3>1. pc'[r] = "ok" /\ call'[r] = call[r]
      BY <2>3, <1>9 DEF CallSucceeds, Types
    <3> QED
      BY <3>1, <2>1, <2>3 DEF PlanAt
  <2> QED
    BY <2>2, <2>3
<1>10. CASE CallFails(r)
  <2>1. /\ WantOf(r)' = WantOf(r) /\ current'[r] = current[r] /\ call'[r] = call[r]
        /\ kind'[r] = kind[r] /\ desired'[r] = desired[r] /\ pc'[r] = "failed"
        /\ pc[r] \in Waiting
    BY <1>10 DEF CallFails, WantOf, Types
  <2> QED
    BY <2>1 DEF PlanAt
<1> QED
  BY <1>2, <1>3, <1>4, <1>5, <1>6, <1>7, <1>8, <1>9, <1>10 DEF Step

\* A step of a request nobody interfered with moves Garage along its plan.
LEMMA ReachedStep ==
  ASSUME Types, NEW r \in Requests, Step(r), PlanAt(r), ReachedAt(r)
  PROVE  ReachedAt(r)'
<1> USE DEF Planned, Waiting, Setters
<1>0. /\ garage \in SUBSET Perms /\ current[r] \in SUBSET Perms
      /\ Want(kind[r], desired[r], garage) \in SUBSET Perms
      /\ WantOf(r) \in SUBSET Perms /\ call[r] \in Call
      /\ pc[r] \in {"idle", "info", "rejected", "unread"} \cup Planned
      /\ foreign[r] \in BOOLEAN
  BY WantType DEF Types, WantOf
<1>1. ASSUME NEW d \in SUBSET Perms, PutPermissions(r, d) PROVE ReachedAt(r)'
  BY <1>1 DEF PutPermissions, Arrive, ReachedAt, Undisturbed, Types
<1>2. ASSUME NEW d \in SUBSET Perms, GrantBucketKey(r, d) PROVE ReachedAt(r)'
  BY <1>2 DEF GrantBucketKey, Arrive, ReachedAt, Undisturbed, Types
<1>3. CASE GrantConsoleAccess(r) \/ RevokeBucketKey(r)
  BY <1>3 DEF GrantConsoleAccess, RevokeBucketKey, Arrive, ReachedAt, Undisturbed, Types
<1>4. CASE ReadBucketInfo(r)
  <2> DEFINE w == Want(kind[r], desired[r], garage)
  <2>1. WantOf(r)' = w /\ current'[r] = garage /\ garage' = garage
    BY <1>4 DEF ReadBucketInfo, WantOf, Types
  <2>2. call[r] = NoCall
    BY <1>4 DEF ReadBucketInfo, PlanAt
  <2>3. CASE AllowFlags(w, garage) # {}
    <3>1. call'[r].op = "allow" /\ call'[r].st = "sent"
      BY <2>3, <1>4 DEF ReadBucketInfo, Send, Types
    <3> QED
      BY <3>1, <2>1 DEF ReachedAt
  <2>4. CASE AllowFlags(w, garage) = {} /\ DenyFlags(w, garage) # {}
    <3>1. call'[r].op = "deny" /\ call'[r].st = "sent"
      BY <2>4, <1>4 DEF ReadBucketInfo, Send, Types
    <3>2. garage \cup w = garage
      BY <2>4, <1>0, Differences
    <3> QED
      BY <3>1, <3>2, <2>1 DEF ReachedAt
  <2>5. CASE AllowFlags(w, garage) = {} /\ DenyFlags(w, garage) = {}
    <3>1. call'[r] = NoCall
      BY <2>2, <2>5, <1>4 DEF ReadBucketInfo
    <3> QED
      BY <3>1, <2>1 DEF ReachedAt, NoCall
  <2> QED
    BY <2>3, <2>4, <2>5
<1>5. CASE ReadBucketInfoFails(r)
  BY <1>5 DEF ReadBucketInfoFails, ReachedAt, Undisturbed, Types
<1>6. CASE GarageApplies(r)
  <2> SUFFICES ASSUME Undisturbed(r)' PROVE ReachedAt(r)'
    BY DEF ReachedAt
  <2>1. /\ WantOf(r)' = WantOf(r) /\ current'[r] = current[r]
        /\ kind'[r] = kind[r] /\ pc'[r] = pc[r] /\ foreign'[r] = foreign[r]
    BY <1>0, <1>6 DEF GarageApplies, WantOf
  <2>2. Undisturbed(r)
    BY <2>1 DEF Undisturbed
  <2>3. /\ call[r].st = "sent" /\ call'[r].op = call[r].op
        /\ call'[r].st = "applied" /\ call'[r].after = garage'
    BY <1>0, <1>6 DEF GarageApplies, Types, Call
  <2>4. CASE call[r].op = "allow"
    <3>1. garage' = current[r] \cup AllowFlags(WantOf(r), current[r])
      BY <1>6, <2>2, <2>3, <2>4 DEF GarageApplies, ReachedAt, PlanAt, Undisturbed
    <3>2. garage' = current[r] \cup WantOf(r)
      BY <3>1, <1>0, Differences
    <3> QED
      BY <3>2, <2>1, <2>3, <2>4 DEF ReachedAt
  <2>5. CASE call[r].op = "deny"
    <3>1. garage' = (current[r] \cup WantOf(r)) \ DenyFlags(WantOf(r), current[r])
      BY <1>6, <2>2, <2>3, <2>5 DEF GarageApplies, ReachedAt, PlanAt, Undisturbed
    <3>2. garage' = WantOf(r)
      BY <3>1, <1>0, Differences
    <3> QED
      BY <3>2, <2>1, <2>3, <2>5 DEF ReachedAt
  <2>6. call[r].op \in {"allow", "deny"}
    BY <1>0, <2>3 DEF PlanAt, NoCall, Call
  <2> QED
    BY <2>4, <2>5, <2>6
<1>7. CASE GarageRefuses(r)
  <2>1. /\ WantOf(r)' = WantOf(r) /\ current'[r] = current[r]
        /\ kind'[r] = kind[r] /\ pc'[r] = pc[r] /\ foreign'[r] = foreign[r]
        /\ garage' = garage
    BY <1>7 DEF GarageRefuses, WantOf
  <2>2. call[r].st = "sent" /\ call'[r].op = call[r].op /\ call'[r].st = "refused"
    BY <1>0, <1>7 DEF GarageRefuses, Types, Call
  <2> QED
    BY <2>1, <2>2 DEF ReachedAt, Undisturbed
<1>8. CASE CallSucceeds(r)
  <2>1. /\ WantOf(r)' = WantOf(r) /\ current'[r] = current[r] /\ garage' = garage
        /\ kind'[r] = kind[r] /\ foreign'[r] = foreign[r]
        /\ pc[r] \in Waiting /\ call[r].st = "applied" /\ call[r].op = pc[r]
    BY <1>8 DEF CallSucceeds, WantOf, PlanAt
  <2>2. CASE /\ pc[r] = "allow" /\ kind[r] \in Setters
             /\ DenyFlags(WantOf(r), current[r]) # {}
    <3>1. call'[r].op = "deny" /\ call'[r].st = "sent"
      BY <2>2, <1>8 DEF CallSucceeds, Send, Types
    <3> QED
      BY <3>1, <2>1, <2>2 DEF ReachedAt, Undisturbed
  <2>3. CASE ~ (/\ pc[r] = "allow" /\ kind[r] \in Setters
                /\ DenyFlags(WantOf(r), current[r]) # {})
    <3>1. call'[r] = call[r]
      BY <2>3, <1>8 DEF CallSucceeds
    <3> QED
      BY <3>1, <2>1 DEF ReachedAt, Undisturbed
  <2> QED
    BY <2>2, <2>3
<1>9. CASE CallFails(r)
  <2>1. /\ WantOf(r)' = WantOf(r) /\ current'[r] = current[r] /\ garage' = garage
        /\ kind'[r] = kind[r] /\ foreign'[r] = foreign[r] /\ call'[r] = call[r]
        /\ pc[r] \in Waiting
    BY <1>9 DEF CallFails, WantOf
  <2> QED
    BY <2>1 DEF ReachedAt, Undisturbed
<1> QED
  BY <1>1, <1>2, <1>3, <1>4, <1>5, <1>6, <1>7, <1>8, <1>9 DEF Step

\* Inv is an inductive invariant.
LEMMA Invariance == Spec => []Inv
<1>1. Init => Inv
  <2> SUFFICES ASSUME Init PROVE Inv
    OBVIOUS
  <2>1. {} \in SUBSET Perms /\ NoCall \in Call
    BY DEF NoCall, Call
  <2>2. Types
    BY <2>1 DEF Init, Types
  <2>3. ASSUME NEW r \in Requests PROVE PlanAt(r) /\ ReachedAt(r)
    BY <2>3 DEF Init, PlanAt, ReachedAt, Undisturbed, Planned, Waiting, Setters
  <2> QED
    BY <2>2, <2>3 DEF Inv
<1>2. Inv /\ [Next]_vars => Inv'
  <2> SUFFICES ASSUME Inv, [Next]_vars PROVE Inv'
    OBVIOUS
  <2>1. CASE UNCHANGED vars
    BY <2>1 DEF vars, Inv, Types, PlanAt, ReachedAt, Undisturbed, WantOf
  <2>2. ASSUME NEW r \in Requests, Step(r) PROVE Inv'
    <3>1. Types'
      BY <2>2, TypesStep DEF Inv
    <3>2. PlanAt(r)' /\ ReachedAt(r)'
      BY <2>2, PlanStep, ReachedStep DEF Inv
    <3>3. ASSUME NEW s \in Requests, s # r PROVE PlanAt(s)' /\ ReachedAt(s)'
      <4>1. Unmoved(s) /\ foreign'[s] \in BOOLEAN
        BY <2>2, <3>1, <3>3, Frame DEF Inv, Types
      <4> QED
        BY <4>1, OthersKept DEF Inv
    <3> QED
      BY <3>1, <3>2, <3>3 DEF Inv
  <2> QED
    BY <2>1, <2>2 DEF Next
<1> QED
  BY <1>1, <1>2, PTL DEF Spec

\* Every reachable state is typed and no permission change sends an empty call.
THEOREM TypeCorrect == Spec => []TypeOK
<1>1. Inv => TypeOK
  <2> SUFFICES ASSUME Inv, NEW r \in Requests, kind[r] \in Setters, call[r].op # "none"
               PROVE  call[r].perms # {}
    BY DEF Inv, TypeOK
  <2>1. pc[r] \in Planned
    BY DEF Inv, PlanAt, NoCall
  <2>2. call[r].op \in {"allow", "deny"}
    BY DEF Inv, Types, Call
  <2> QED
    BY <2>1, <2>2 DEF Inv, PlanAt
<1> QED
  BY <1>1, Invariance, PTL

\* Whatever fails and however late a call is applied, a permission change that
\* nobody else interferes with never leaves a key with less than it had before it
\* has all that was asked for, and never takes a key's last permission away.
THEOREM NoLockout == Spec => []NeverLockedOut
<1>1. Inv => NeverLockedOut
  <2> SUFFICES ASSUME Inv, NEW r \in Requests, Undisturbed(r)
               PROVE  /\ current[r] \subseteq garage \/ WantOf(r) \subseteq garage
                      /\ current[r] # {} => garage # {}
    BY DEF NeverLockedOut
  <2>1. WantOf(r) # {}
    <3>1. CASE kind[r] = "console"
      BY <3>1, WantType DEF Inv, Types, WantOf
    <3>2. CASE kind[r] = "set"
      <4>1. desired[r] # {}
        BY <3>2 DEF Inv, PlanAt, Undisturbed
      <4> QED
        BY <4>1, <3>2, WantType DEF Inv, Types, WantOf
    <3> QED
      BY <3>1, <3>2 DEF Undisturbed, Setters
  <2>2. call[r].op \in {"none", "allow", "deny"}
    BY DEF Inv, Types, Call
  <2>3. current[r] \subseteq garage \/ WantOf(r) \subseteq garage
    BY <2>2 DEF Inv, ReachedAt
  <2> QED
    BY <2>1, <2>3
<1> QED
  BY <1>1, Invariance, PTL

\* A 200 answer nobody interfered with reports exactly what Garage holds, the
\* wanted set.
THEOREM AnswerCorrect == Spec => []AnswerIsWanted
<1>1. Inv => AnswerIsWanted
  <2> SUFFICES ASSUME Inv, NEW r \in Requests, Undisturbed(r), pc[r] = "ok"
               PROVE  garage = WantOf(r) /\ result[r] = WantOf(r)
    BY DEF AnswerIsWanted
  <2>1. /\ current[r] \in SUBSET Perms /\ WantOf(r) \in SUBSET Perms
        /\ call[r].op \in {"none", "allow", "deny"}
    BY WantType DEF Inv, Types, Call, WantOf
  <2>2. PlanAt(r) /\ ReachedAt(r) /\ kind[r] \in Setters /\ pc[r] \in Planned
    BY DEF Inv, Undisturbed
  <2>3. CASE call[r].op = "none"
    BY <2>2, <2>3 DEF PlanAt, ReachedAt
  <2>4. CASE call[r].op = "allow"
    <3>1. DenyFlags(WantOf(r), current[r]) = {}
      BY <2>2, <2>4 DEF PlanAt
    <3>2. current[r] \cup WantOf(r) = WantOf(r)
      BY <3>1, <2>1, Differences
    <3> QED
      BY <3>2, <2>2, <2>4 DEF PlanAt, ReachedAt
  <2>5. CASE call[r].op = "deny"
    BY <2>2, <2>5 DEF PlanAt, ReachedAt
  <2> QED
    BY <2>1, <2>3, <2>4, <2>5
<1> QED
  BY <1>1, Invariance, PTL

\* No interleaving makes a console-access request change the owner flag.
THEOREM ConsoleOwner == Spec => ConsoleKeepsOwner
<1> DEFINE A == \A r \in Requests :
                  kind[r] = "console" /\ call[r].st = "sent" /\ call'[r].st = "applied"
                    => ("owner" \in garage' <=> "owner" \in garage)
<1>1. Inv /\ [Next]_vars => [A]_vars
  <2> SUFFICES ASSUME Inv, NEW q \in Requests, Step(q), NEW r \in Requests,
                      kind[r] = "console", call[r].st = "sent", call'[r].st = "applied"
               PROVE  "owner" \in garage' <=> "owner" \in garage
    BY DEF Next
  <2>1. Types /\ PlanAt(r) /\ call[r] \in Call
    BY DEF Inv, Types
  <2>2. q = r
    BY <2>1, Frame DEF Unmoved
  <2>3. CASE GarageApplies(r)
    <3>1. call[r].op \in {"allow", "deny"} /\ pc[r] \in Planned
      BY <2>1 DEF PlanAt, NoCall, Call
    <3>2. "owner" \in WantOf(r) <=> "owner" \in current[r]
      BY <2>1, WantType DEF Types, WantOf
    <3>3. "owner" \notin call[r].perms
      BY <2>1, <3>1, <3>2 DEF PlanAt, Setters, AllowFlags, DenyFlags
    <3> QED
      BY <2>3, <3>3 DEF GarageApplies
  <2>4. CASE ~GarageApplies(r)
    BY <2>1, <2>2, <2>4 DEF Step, PutPermissions, GrantBucketKey, GrantConsoleAccess,
         RevokeBucketKey, Arrive, Send, ReadBucketInfo, ReadBucketInfoFails,
         GarageRefuses, CallSucceeds, CallFails, Types
  <2> QED
    BY <2>3, <2>4
<1> QED
  BY <1>1, Invariance, PTL DEF Spec, ConsoleKeepsOwner

\* What explains that the caches are not cleared.
Explains(r) ==
  \/ call[r].st = "applied" /\ pc[r] \in Waiting \cup {"failed"}
  \/ changed[r] /\ pc[r] = "deny"

\* The caches are cleared after every change Garage accepted: one not yet
\* followed by a clear belongs to a call whose success no handler has seen, or
\* to a handler between its two calls.
THEOREM DirtyExplained == Spec => []DirtyIsExplained
<1> DEFINE D == DirtyIsExplained /\ NoOpenCallAfterOk
<1>1. Init => D
  BY DEF Init, DirtyIsExplained, NoOpenCallAfterOk, NoCall
<1>2. Inv /\ D /\ [Next]_vars => D'
  <2> SUFFICES ASSUME Inv, D, [Next]_vars PROVE D'
    OBVIOUS
  <2>1. CASE UNCHANGED vars
    BY <2>1 DEF vars, DirtyIsExplained, NoOpenCallAfterOk
  <2>2. ASSUME NEW r \in Requests, Step(r) PROVE D'
    <3>1. /\ Types /\ PlanAt(r) /\ call[r] \in Call
          /\ pc[r] \in {"idle", "info", "rejected", "unread"} \cup Planned
          /\ dirty \in BOOLEAN /\ changed[r] \in BOOLEAN
      BY DEF Inv, Types
    <3>2. ASSUME NEW s \in Requests, s # r
          PROVE  /\ Explains(s) => Explains(s)'
                 /\ pc'[s] = "ok" => call'[s].st # "sent"
      <4>1. pc'[s] = pc[s] /\ changed'[s] = changed[s] /\ call'[s] = call[s]
        BY <2>2, <3>1, <3>2, Frame DEF Unmoved
      <4> QED
        BY <4>1 DEF Explains, NoOpenCallAfterOk
    <3> DEFINE Own == /\ pc'[r] = "ok" => call'[r].st # "sent"
                      /\ dirty' => dirty \/ Explains(r)'
                      /\ dirty' /\ Explains(r) => Explains(r)'
    <3>3. Own
      <4> USE DEF Planned, Waiting
      <4>1. ASSUME NEW d \in SUBSET Perms, PutPermissions(r, d) \/ GrantBucketKey(r, d)
            PROVE  Own
        BY <3>1, <4>1 DEF PutPermissions, GrantBucketKey, Arrive, Send, Explains, PlanAt, NoCall, Types
      <4>2. CASE GrantConsoleAccess(r) \/ RevokeBucketKey(r)
        BY <3>1, <4>2 DEF GrantConsoleAccess, RevokeBucketKey, Arrive, Send, Explains, PlanAt,
             NoCall, Types
      <4>3. CASE ReadBucketInfo(r) \/ ReadBucketInfoFails(r)
        BY <3>1, <4>3 DEF ReadBucketInfo, ReadBucketInfoFails, Send, Explains, PlanAt, NoCall, Types
      <4>4. CASE GarageApplies(r)
        <5>1. pc'[r] = pc[r] /\ call[r].st = "sent" /\ call'[r].st = "applied"
          BY <3>1, <4>4 DEF GarageApplies, Types, Call
        <5>2. pc[r] \in Waiting \cup {"failed"}
          BY <3>1, <5>1 DEF PlanAt, NoCall, NoOpenCallAfterOk
        <5> QED
          BY <5>1, <5>2 DEF Explains
      <4>5. CASE GarageRefuses(r)
        <5>1. /\ pc'[r] = pc[r] /\ changed' = changed /\ dirty' = dirty
              /\ call[r].st = "sent" /\ call'[r].st = "refused"
          BY <3>1, <4>5 DEF GarageRefuses, Types, Call
        <5> QED
          BY <5>1 DEF Explains
      <4>6. CASE CallSucceeds(r)
        BY <3>1, <4>6 DEF CallSucceeds, Send, Explains, Types
      <4>7. CASE CallFails(r)
        BY <3>1, <4>7 DEF CallFails, Explains, Types
      <4> QED
        BY <2>2, <4>1, <4>2, <4>3, <4>4, <4>5, <4>6, <4>7 DEF Step
    <3>4. dirty => \E s \in Requests : Explains(s)
      BY DEF DirtyIsExplained, Explains
    <3>5. dirty' => \E s \in Requests : Explains(s)'
      BY <3>2, <3>3, <3>4
    <3> QED
      BY <3>2, <3>3, <3>5 DEF DirtyIsExplained, NoOpenCallAfterOk, Explains
  <2> QED
    BY <2>1, <2>2 DEF Next
<1> QED
  BY <1>1, <1>2, Invariance, PTL DEF Spec
=============================================================================
