----------------------------- MODULE ExpertStage -----------------------------
(***************************************************************************)
(* What a rank's expert pipeline promises combine, pass by pass: to every  *)
(* row the share of each of its local experts is added exactly once, and   *)
(* the row is released, once, after the last of them.                      *)
(***************************************************************************)
EXTENDS Naturals, Bags

VARIABLES
  owed,                   \* owed[r]: the shares row r must receive in this pass
  added,                  \* added[r]: the bag of the shares it has received
  released                \* the rows handed to combine

vars == <<owed, added, released>>

Rows == DOMAIN owed

Init ==
  /\ added = [r \in Rows |-> EmptyBag]
  /\ released = {}

(* A compute kernel adds shares to several rows at once. *)
Add ==
  /\ DOMAIN added' = Rows
  /\ \A r \in Rows : /\ added[r] \sqsubseteq added'[r]
                     /\ added'[r] \sqsubseteq SetToBag(owed[r])
  /\ UNCHANGED <<owed, released>>

Release(r) ==
  /\ r \notin released
  /\ added[r] = SetToBag(owed[r])
  /\ released' = released \cup {r}
  /\ UNCHANGED <<owed, added>>

NextPass ==
  /\ released = Rows
  /\ DOMAIN owed' = Rows
  /\ added' = [r \in Rows |-> EmptyBag]
  /\ released' = {}

Next == Add \/ NextPass \/ \E r \in Rows : Release(r)

Spec == Init /\ [][Next]_vars
=============================================================================
