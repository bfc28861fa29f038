----------------------------- MODULE TokenForms -----------------------------
(***************************************************************************)
(* What the forms of an admin token make of it: the scope editor           *)
(* (components/admin-scope-editor.tsx, lib/admin-scopes.ts), the           *)
(* expiration (lib/expiration.ts) and the body that is sent                *)
(* (routes/admin-tokens.$id.tsx).                                          *)
(*                                                                         *)
(* A scope is the set of the names Garage stores; an expiration is {} for  *)
(* none or holds a minute and its seconds, of which a form shows the       *)
(* minute.                                                                 *)
(***************************************************************************)
EXTENDS Naturals

CONSTANTS
  Categories,   \* the endpoints the editor lists, by category
  Minting,      \* CreateAdminToken and UpdateAdminToken
  Exempt,       \* what Garage lets every token call
  Called,       \* what the backend of this console calls
  Newer,        \* names of Garage that this console does not list
  MaxEdits      \* bound: clicks in one editing

Known == UNION Categories

ASSUME TokenAssumption ==
  /\ Minting \cup Exempt \subseteq Known /\ ~(Minting \subseteq Exempt)
  /\ Called \subseteq Known \cup Newer
  /\ Newer \cap Known = {} /\ "*" \notin Known \cup Newer
  /\ MaxEdits \in Nat

Full == "*"

IsFull(scope) == Full \in scope

UnknownEntries(scope) == scope \ (Known \cup {Full})

Escalates(scope) == IsFull(scope) \/ scope \cap Minting # {}

-----------------------------------------------------------------------------
(* The scope editor *)

EscalatingPreset(called) == called \ ({Full} \cup Exempt)

Preset(called) == called \ ({Full} \cup Minting \cup Exempt)

\* "Covers the console" when nothing is missing.
Missing(scope) == IF IsFull(scope) THEN {} ELSE Preset(Called) \ scope

KnownOnly(value, endpoints, on) ==
  IF on THEN (value \cap Known) \cup endpoints ELSE (value \cap Known) \ endpoints

SetEndpoints(value, endpoints, on) ==
  LET next == value \ {Full} IN
  IF on THEN next \cup endpoints ELSE next \ endpoints

\* One endpoint, or a category; they are off while everything is allowed.
Ticks(value) ==
  IF IsFull(value) THEN {}
  ELSE {SetEndpoints(value, {e}, e \notin value) : e \in Known}
         \cup {SetEndpoints(value, c, ~(c \subseteq value)) : c \in Categories}

\* "All", which when taken away leaves nothing.
ToggleAll(value) == IF IsFull(value) THEN {} ELSE {Full}

\* The button is off while the preset is applied.
ApplyPreset(value) == {Preset(Called)} \ {value}

\* A click; `replaced` once one of the two buttons that replace the whole scope was
\* used.
Clicked(r) ==
  [scope : Ticks(r.scope), replaced : {r.replaced}]
    \cup [scope : {ToggleAll(r.scope)} \cup ApplyPreset(r.scope), replaced : {TRUE}]

\* What an editing of this scope can have come to.
Edited(saved) ==
  LET upTo[n \in 0..MaxEdits] ==
        IF n = 0 THEN {[scope |-> saved, replaced |-> FALSE]}
        ELSE upTo[n - 1] \cup UNION {Clicked(r) : r \in upTo[n - 1]}
  IN upTo[MaxEdits]

\* Creating a token starts from everything.
Created == {r.scope : r \in Edited({Full})}

\* Whether saving asks first; a new token has nothing saved.
EscalationMessage(scope, saved) == scope # saved /\ ~Escalates(saved) /\ Escalates(scope)

-----------------------------------------------------------------------------
(* The expiration *)

Minutes == {"soon", "late"}
Unset   == "unset"

Isos == {{}} \cup {{<<minute, second>>} : minute \in Minutes, second \in {0, 30}}

\* Switching "never" off offers a date 30 days from now.
FromIso(iso) ==
  [neverExpires |-> iso = {},
   date |-> IF iso = {} THEN "late" ELSE CHOOSE m \in Minutes : \E at \in iso : at[1] = m]

Inputs == [neverExpires : BOOLEAN, date : Minutes \cup {Unset}]

ExpirationValid(v) == v.neverExpires \/ v.date # Unset

SameExpiration(a, b) ==
  IF a.neverExpires \/ b.neverExpires THEN a.neverExpires = b.neverExpires
  ELSE a.date = b.date

\* neverExpires: true for {}.
ExpirationBody(v) ==
  IF v.neverExpires \/ v.date = Unset THEN {} ELSE {<<v.date, 0>>}

-----------------------------------------------------------------------------
(* What the form of a token sends *)

CanSave(scope, expiration) == scope # {} /\ ExpirationValid(expiration)

\* The fields sent, as the token that Garage then has.
Saved(token, scope, expiration) ==
  [scope      |-> scope,
   expiration |-> IF SameExpiration(expiration, FromIso(token.expiration))
                  THEN token.expiration ELSE ExpirationBody(expiration)]

-----------------------------------------------------------------------------
(* Properties *)

Scopes == SUBSET (Known \cup Newer \cup {Full})

\* What a holder of the token can come to call: every token may call what is
\* exempt, and whoever can mint or widen tokens may call everything.
Powers(scope) ==
  IF Escalates(scope) THEN Known \cup Newer ELSE scope \cup Exempt

\* "Kept untouched so saving never silently drops them": names the console does
\* not list are still in the scope unless the whole of it was replaced.
UnknownKept ==
  \A saved \in Scopes : \A r \in Edited(saved) :
    r.replaced \/ UnknownEntries(r.scope) = UnknownEntries(saved)

\* An expiration that was put back to what the form showed keeps its seconds, and
\* a token gets no end, or loses its own, only when that was asked for.
ExpirationAsEntered ==
  \A iso \in Isos, v \in Inputs :
    CanSave({Full}, v) =>
      LET after == Saved([scope |-> {Full}, expiration |-> iso], {Full}, v).expiration IN
      /\ after = {} <=> v.neverExpires
      /\ v = FromIso(iso) => after = iso
      /\ \A at \in after : at[1] = v.date

\* What both say of the forms of a token.
TokenSentAsEntered == UnknownKept /\ ExpirationAsEntered

\* A token saved without being asked once more lets its holder call nothing but
\* what was ticked: it cannot come to more than its own scope unless it already
\* could.  The preset never can, and it covers what the console calls.
PowersAsTicked ==
  /\ \A saved \in Scopes : \A r \in Edited(saved) :
       EscalationMessage(r.scope, saved) \/ Powers(r.scope) \subseteq r.scope \cup Exempt
         \/ Powers(saved) = Known \cup Newer
  /\ \A scope \in Created :
       EscalationMessage(scope, {}) \/ Powers(scope) \subseteq scope \cup Exempt
  /\ Powers(Preset(Called)) # Known \cup Newer
  /\ \A scope \in Scopes :
       Missing(scope) = {} => Called \ Minting \subseteq Powers(scope)
=============================================================================
