---------------------------- MODULE SettlementGate ----------------------------
(***************************************************************************)
(* What the officer review of one case promises the bank, without saying   *)
(* how: under each idempotency key at most one decision is ever booked, a  *)
(* booked decision is never altered, and the decision in force changes     *)
(* only because an officer booked one.  Nothing else moves the gate, so    *)
(* the case is ready for settlement exactly while the decision in force is *)
(* an approval.                                                            *)
(*                                                                         *)
(* The detailed module HumanReview implements this one.                    *)
(***************************************************************************)

CONSTANTS
  Keys,        \* idempotency keys
  Rows,        \* decisions an officer may book
  NoRow,       \* "no decision"
  Newer(_, _)  \* whether the first row was taken later than the second

VARIABLES
  book,        \* book[k]: the decision booked under key k, or NoRow
  inForce      \* the decision the gate obeys, or NoRow

vars == <<book, inForce>>

Init ==
  /\ book = [k \in Keys |-> NoRow]
  /\ inForce = NoRow

\* The first decision is in force at once; a later one is, unless it was
\* taken before the decision in force.
Book(k) ==
  /\ book[k] = NoRow
  /\ book'[k] \in Rows
  /\ book' = [book EXCEPT ![k] = book'[k]]
  /\ inForce' = IF inForce = NoRow \/ Newer(book'[k], inForce)
                THEN book'[k] ELSE inForce

Next == \E k \in Keys : Book(k)

Spec == Init /\ [][Next]_vars
===============================================================================
