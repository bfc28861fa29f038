--------------------------- MODULE BucketKeyPerms ---------------------------
(***************************************************************************)
(* The handlers that change what one access key may do on one bucket       *)
(* (backend/handler_bucket_key_perms.go, handler_console_access.go and the *)
(* grant / revoke handlers of handler_buckets.go), running concurrently.   *)
(*                                                                         *)
(* Garage has no "set permissions" call, only AllowBucketKey (turn flags   *)
(* on) and DenyBucketKey (turn flags off).  setBucketKeyPermissions reads  *)
(* the current flags, computes the two differences and sends up to two     *)
(* calls.  Every handler is a process; the calls are messages, and Garage  *)
(* may act on one after the handler stopped waiting for it (the Admin API  *)
(* client gives up after 10 s).                                            *)
(***************************************************************************)
CONSTANT Requests    \* the HTTP requests of one behaviour, one handler each

VARIABLES
  garage,    \* the key's permissions on the bucket, in Garage
  kind,      \* what each request asks for
  desired,   \* the permission set a request's body names
  pc,        \* where the request's handler is
  current,   \* the permissions its GetBucketInfo read
  changed,   \* the handler's local "changed"
  result,    \* the permissions the 200 answer reports
  call,      \* the Allow / Deny call of the handler, and what became of it
  dirty,     \* a change took effect since invalidateListCaches last ran
  foreign    \* history: another request changed garage since current was read

vars == <<garage, kind, desired, pc, current, changed, result, call, dirty, foreign>>

Perms   == {"read", "write", "owner"}
Setters == {"set", "console"}          \* handlers built on setBucketKeyPermissions
Waiting == {"allow", "deny"}           \* waiting for that call's answer
Planned == Waiting \cup {"ok", "failed"}
NoCall  == [op |-> "none", perms |-> {}, st |-> "none", after |-> {}]

-----------------------------------------------------------------------------
(* The differences.  A mutated form stands before the definition it mutates. *)

WantAddsOwner(k, d, c) == IF k = "console" THEN Perms ELSE d

\* desired(current): the body's set, or for console access read + write with
\* owner left as it is.
Want(k, d, c) ==
  IF k = "console" THEN {"read", "write"} \cup (c \cap {"owner"}) ELSE d

AllowFlags(w, c) == w \ c

DenyUnlessAllowing(w, c) == IF AllowFlags(w, c) # {} THEN {} ELSE c \ w

DenyFlags(w, c) == c \ w

WantOf(r) == Want(kind[r], desired[r], current[r])

-----------------------------------------------------------------------------
Init ==
  /\ garage \in SUBSET Perms
  /\ kind    = [r \in Requests |-> "none"]
  /\ desired = [r \in Requests |-> {}]
  /\ pc      = [r \in Requests |-> "idle"]
  /\ current = [r \in Requests |-> {}]
  /\ changed = [r \in Requests |-> FALSE]
  /\ result  = [r \in Requests |-> {}]
  /\ call    = [r \in Requests |-> NoCall]
  /\ dirty   = FALSE
  /\ foreign = [r \in Requests |-> FALSE]

Send(r, op, perms) ==
  /\ pc'   = [pc EXCEPT ![r] = op]
  /\ call' = [call EXCEPT ![r] = [op |-> op, perms |-> perms, st |-> "sent", after |-> {}]]

Arrive(r, k, d) ==
  /\ pc[r] = "idle"
  /\ kind'    = [kind EXCEPT ![r] = k]
  /\ desired' = [desired EXCEPT ![r] = d]
  /\ UNCHANGED <<garage, current, changed, result, dirty, foreign>>

\* PUT /api/buckets/{id}/keys/{kid}: an empty set is a 400.
PutPermissions(r, d) ==
  /\ Arrive(r, "set", d)
  /\ pc' = [pc EXCEPT ![r] = IF d = {} THEN "rejected" ELSE "info"]
  /\ UNCHANGED call

\* POST /api/buckets/{id}/console-access.
GrantConsoleAccess(r) ==
  /\ Arrive(r, "console", {})
  /\ pc' = [pc EXCEPT ![r] = "info"]
  /\ UNCHANGED call

\* POST /api/buckets/{id}/keys: one AllowBucketKey with the body's flags.
GrantBucketKey(r, d) == Arrive(r, "grant", d) /\ Send(r, "allow", d)

\* DELETE /api/buckets/{id}/keys/{kid}: one DenyBucketKey with every flag.
RevokeBucketKey(r) == Arrive(r, "revoke", {}) /\ Send(r, "deny", Perms)

DenyFirst(r) ==
  LET w == Want(kind[r], desired[r], garage) IN
  /\ pc[r] = "info"
  /\ current' = [current EXCEPT ![r] = garage]
  /\ foreign' = [foreign EXCEPT ![r] = FALSE]
  /\ result'  = [result EXCEPT ![r] = garage]
  /\ IF DenyFlags(w, garage) # {} THEN Send(r, "deny", DenyFlags(w, garage))
     ELSE IF AllowFlags(w, garage) # {} THEN Send(r, "allow", AllowFlags(w, garage))
     ELSE pc' = [pc EXCEPT ![r] = "ok"] /\ UNCHANGED call
  /\ UNCHANGED <<garage, kind, desired, changed, dirty>>

\* GetBucketInfo answers; the first non-empty difference is sent, allow before
\* deny, and nothing at all when the permissions are already in place.
ReadBucketInfo(r) ==
  LET w == Want(kind[r], desired[r], garage) IN
  /\ pc[r] = "info"
  /\ current' = [current EXCEPT ![r] = garage]
  /\ foreign' = [foreign EXCEPT ![r] = FALSE]
  /\ result'  = [result EXCEPT ![r] = garage]
  /\ IF AllowFlags(w, garage) # {} THEN Send(r, "allow", AllowFlags(w, garage))
     ELSE IF DenyFlags(w, garage) # {} THEN Send(r, "deny", DenyFlags(w, garage))
     ELSE pc' = [pc EXCEPT ![r] = "ok"] /\ UNCHANGED call
  /\ UNCHANGED <<garage, kind, desired, changed, dirty>>

\* GetBucketInfo fails: nothing was sent.
ReadBucketInfoFails(r) ==
  /\ pc[r] = "info"
  /\ pc' = [pc EXCEPT ![r] = "unread"]
  /\ UNCHANGED <<garage, kind, desired, current, changed, result, call, dirty, foreign>>

\* Garage performs a call, whether or not its handler is still waiting.
GarageApplies(r) ==
  LET c     == call[r]
      after == IF c.op = "allow" THEN garage \cup c.perms ELSE garage \ c.perms
  IN
  /\ c.st = "sent"
  /\ garage' = after
  /\ call'   = [call EXCEPT ![r].st = "applied", ![r].after = after]
  /\ dirty'  = (dirty \/ after # garage)
  /\ foreign' = [s \in Requests |-> foreign[s] \/ (s # r /\ after # garage)]
  /\ UNCHANGED <<kind, desired, pc, current, changed, result>>

\* Garage answers a call with an error status and changes nothing.
GarageRefuses(r) ==
  /\ call[r].st = "sent"
  /\ call' = [call EXCEPT ![r].st = "refused"]
  /\ UNCHANGED <<garage, kind, desired, pc, current, changed, result, dirty, foreign>>

\* The answer of an accepted call arrives: the deny step follows the allow step
\* when it is not empty, otherwise the caches are cleared and 200 is sent.
CallSucceeds(r) ==
  /\ pc[r] \in Waiting /\ call[r].st = "applied"
  /\ changed' = [changed EXCEPT ![r] = TRUE]
  /\ result'  = [result EXCEPT ![r] = call[r].after]
  /\ IF /\ pc[r] = "allow" /\ kind[r] \in Setters
        /\ DenyFlags(WantOf(r), current[r]) # {}
     THEN Send(r, "deny", DenyFlags(WantOf(r), current[r])) /\ UNCHANGED dirty
     ELSE /\ pc' = [pc EXCEPT ![r] = "ok"]
          /\ dirty' = FALSE
          /\ UNCHANGED call
  /\ UNCHANGED <<garage, kind, desired, current, foreign>>

FailWithoutInvalidate(r) ==
  /\ pc[r] \in Waiting
  /\ pc'    = [pc EXCEPT ![r] = "failed"]
  /\ UNCHANGED <<garage, kind, desired, current, changed, result, call, dirty, foreign>>

\* An error status, an unreadable answer, a broken connection or the client's
\* timeout: an error is sent; a change accepted earlier clears the caches.
CallFails(r) ==
  /\ pc[r] \in Waiting
  /\ pc'    = [pc EXCEPT ![r] = "failed"]
  /\ dirty' = (dirty /\ ~changed[r])
  /\ UNCHANGED <<garage, kind, desired, current, changed, result, call, foreign>>

Step(r) ==
  \/ \E d \in SUBSET Perms : PutPermissions(r, d) \/ GrantBucketKey(r, d)
  \/ GrantConsoleAccess(r)
  \/ RevokeBucketKey(r)
  \/ ReadBucketInfo(r)
  \/ ReadBucketInfoFails(r)
  \/ GarageApplies(r)
  \/ GarageRefuses(r)
  \/ CallSucceeds(r)
  \/ CallFails(r)

Next == \E r \in Requests : Step(r)

Spec == Init /\ [][Next]_vars

-----------------------------------------------------------------------------
(* Properties *)

Call == [op : {"none", "allow", "deny"}, perms : SUBSET Perms,
         st : {"none", "sent", "applied", "refused"}, after : SUBSET Perms]

Types ==
  /\ garage  \in SUBSET Perms
  /\ kind    \in [Requests -> {"none", "set", "console", "grant", "revoke"}]
  /\ desired \in [Requests -> SUBSET Perms]
  /\ pc      \in [Requests -> {"idle", "info", "rejected", "unread"} \cup Planned]
  /\ current \in [Requests -> SUBSET Perms]
  /\ changed \in [Requests -> BOOLEAN]
  /\ result  \in [Requests -> SUBSET Perms]
  /\ call    \in [Requests -> Call]
  /\ dirty   \in BOOLEAN
  /\ foreign \in [Requests -> BOOLEAN]

\* Every variable has its type, and setBucketKeyPermissions never sends a call
\* with no flag in it ("skipping a call that would be a no-op").
TypeOK ==
  /\ Types
  /\ \A r \in Requests :
       kind[r] \in Setters /\ call[r].op # "none" => call[r].perms # {}

Undisturbed(r) == kind[r] \in Setters /\ pc[r] \in Planned /\ ~foreign[r]

\* At no moment of a permission change nobody else interferes with, including
\* after any of its calls failed, timed out or was applied late, does the key have
\* less than it had without having all that was asked for, and none does it have
\* only if it had none ("Allow goes first: a failure midway then leaves the key
\* with more of the requested access instead of locking it out").
NeverLockedOut ==
  \A r \in Requests : Undisturbed(r) =>
    /\ current[r] \subseteq garage \/ WantOf(r) \subseteq garage
    /\ current[r] # {} => garage # {}

\* A 200 answer nobody interfered with tells the truth: Garage holds exactly
\* the wanted set, and that set is what the answer reports.
AnswerIsWanted ==
  \A r \in Requests :
    Undisturbed(r) /\ pc[r] = "ok" => garage = WantOf(r) /\ result[r] = WantOf(r)

\* The list caches are cleared whenever Garage accepted a change, including
\* when a later step failed: an effective change not yet followed by a clear
\* always belongs to a call whose answer the handler has not seen (or never
\* saw), or to a handler that is between its two calls.
DirtyIsExplained ==
  dirty => \E r \in Requests :
             \/ call[r].st = "applied" /\ pc[r] \in Waiting \cup {"failed"}
             \/ changed[r] /\ pc[r] = "deny"

\* What DirtyIsExplained needs to be inductive: no call of a handler that
\* answered 200 can still take effect.
NoOpenCallAfterOk == \A r \in Requests : pc[r] = "ok" => call[r].st # "sent"

\* Console access never turns the owner flag on or off, whatever else runs at
\* the same time ("Owner is left as it is (never added)").
ConsoleKeepsOwner ==
  [][\A r \in Requests :
       kind[r] = "console" /\ call[r].st = "sent" /\ call'[r].st = "applied"
         => ("owner" \in garage' <=> "owner" \in garage)]_vars

\* The plan a request follows: which call may be out in which control state,
\* with which flags.
PlanAt(r) ==
  /\ pc[r] = "idle" => kind[r] = "none"
  /\ pc[r] \notin Planned \/ call[r].op = "none" => call[r] = NoCall
  /\ pc[r] \in Waiting => call[r].op = pc[r] /\ call[r].st # "none"
  /\ pc[r] = "info" => kind[r] \in Setters
  /\ kind[r] = "set" /\ pc[r] \in Planned \cup {"info"} => desired[r] # {}
  /\ kind[r] \in Setters /\ pc[r] \in Planned =>
       /\ call[r].op = "none"  => pc[r] = "ok" /\ WantOf(r) = current[r]
       /\ call[r].op = "allow" => /\ call[r].perms = AllowFlags(WantOf(r), current[r])
                                  /\ call[r].perms # {}
       /\ call[r].op = "deny"  => /\ call[r].perms = DenyFlags(WantOf(r), current[r])
                                  /\ call[r].perms # {}
       /\ pc[r] = "ok" /\ call[r].op = "allow" => DenyFlags(WantOf(r), current[r]) = {}
       /\ pc[r] = "ok" =>
            IF call[r].op = "none" THEN result[r] = current[r]
            ELSE call[r].st = "applied" /\ result[r] = call[r].after

\* What Garage holds at each point of a change nobody interfered with.
ReachedAt(r) ==
  Undisturbed(r) =>
    /\ call[r].op = "none" => garage = current[r]
    /\ call[r].op = "allow" =>
         garage = IF call[r].st = "applied" THEN current[r] \cup WantOf(r) ELSE current[r]
    /\ call[r].op = "deny" =>
         garage = IF call[r].st = "applied" THEN WantOf(r) ELSE current[r] \cup WantOf(r)
    /\ call[r].st = "applied" => call[r].after = garage

\* The inductive invariant behind TypeOK, NeverLockedOut and AnswerIsWanted.
Inv == Types /\ \A r \in Requests : PlanAt(r) /\ ReachedAt(r)

\* What the comment on handleSetBucketKeyPermissions promises of PUT: at least
\* one flag must be true, so only DELETE revokes everything.  Two PUTs at once
\* do it too.
OnlyDeleteRevokesAll ==
  (\E r \in Requests : kind[r] \in Setters /\ pc[r] \in Planned /\ current[r] # {})
  /\ (\A r \in Requests : kind[r] # "revoke")
    => garage # {}
=============================================================================
