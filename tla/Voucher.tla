------------------------------ MODULE Voucher -------------------------------
(***************************************************************************)
(* What a download link promises, without clocks, buckets or a store: a    *)
(* code is offered once for some goods, is good until it is taken or       *)
(* lapses, and whoever takes it gets its goods, all of them, and nobody    *)
(* else ever does.  BatchDownload implements this.                         *)
(***************************************************************************)
CONSTANTS Codes, Holders, Goods

VARIABLES
  state,   \* state[c]: "unused", "good" or "spent"
  worth,   \* worth[c]: the goods c was offered for, none or one
  got      \* got[h]: the code h took and what it got for it, none or one

vars == <<state, worth, got>>

Good == {c \in Codes : state[c] = "good"}

Init ==
  /\ state = [c \in Codes |-> "unused"]
  /\ worth = [c \in Codes |-> {}]
  /\ got   = [h \in Holders |-> {}]

\* Codes may lapse at any time.
Lapse(S) ==
  /\ S \subseteq Good
  /\ state' = [c \in Codes |-> IF c \in S THEN "spent" ELSE state[c]]
  /\ UNCHANGED <<worth, got>>

\* A new code is offered, while others lapse.
Offer(c, x, S) ==
  /\ state[c] = "unused" /\ S \subseteq Good
  /\ state' = [d \in Codes |-> IF d = c THEN "good" ELSE IF d \in S THEN "spent" ELSE state[d]]
  /\ worth' = [worth EXCEPT ![c] = {x}]
  /\ UNCHANGED got

Take(h, c) ==
  /\ state[c] = "good" /\ got[h] = {}
  /\ state' = [state EXCEPT ![c] = "spent"]
  /\ got'   = [got EXCEPT ![h] = {c} \X worth[c]]
  /\ UNCHANGED worth

Next ==
  \/ \E S \in SUBSET Codes :
       \/ Lapse(S)
       \/ \E c \in Codes, x \in Goods : Offer(c, x, S)
  \/ \E h \in Holders, c \in Codes : Take(h, c)

Spec == Init /\ [][Next]_vars
=============================================================================
