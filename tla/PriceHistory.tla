---------------------------- MODULE PriceHistory ----------------------------
(***************************************************************************)
(* What the price provider promises its callers, however many ask at once: *)
(* the prices they get of a type are read, one after the other, off one    *)
(* history, which may skip a price list and never returns to an older one. *)
(* A call may fail, or find no price; it does not change the history then. *)
(***************************************************************************)
EXTENDS Integers

CONSTANTS Callers, Types, NoType, Pending, Error, Unpriced

VARIABLES
  latest,  \* the number of the latest price list
  price,   \* the list that a type was last priced from
  asks,    \* the type a caller asks for
  result

vars == <<latest, price, asks, result>>

Init ==
  /\ latest = 1
  /\ price = [t \in Types |-> Unpriced]
  /\ asks = [c \in Callers |-> NoType]
  /\ result = [c \in Callers |-> Pending]

Publish == latest' = latest + 1 /\ UNCHANGED <<price, asks, result>>

Ask(c, t) ==
  /\ asks[c] = NoType
  /\ asks' = [asks EXCEPT ![c] = t] /\ result' = [result EXCEPT ![c] = Pending]
  /\ UNCHANGED <<latest, price>>

\* A node without a type is refused at once.
Refuse(c) ==
  /\ asks[c] = NoType
  /\ result' = [result EXCEPT ![c] = Error]
  /\ UNCHANGED <<latest, price, asks>>

Settle(c, t, r) ==
  /\ asks[c] = t
  /\ asks' = [asks EXCEPT ![c] = NoType] /\ result' = [result EXCEPT ![c] = r]
  /\ UNCHANGED latest

\* The price is that of the history, or the history moves on.
Quote(c, t) ==
  \E r \in price[t] .. latest :
    /\ r # Unpriced
    /\ Settle(c, t, r) /\ price' = [price EXCEPT ![t] = r]

Fail(c, t) == \E r \in {Error, Unpriced} : Settle(c, t, r) /\ UNCHANGED price

Next ==
  \/ Publish
  \/ \E c \in Callers :
       Refuse(c) \/ \E t \in Types : Ask(c, t) \/ Quote(c, t) \/ Fail(c, t)

Spec == Init /\ [][Next]_vars

=============================================================================
