----------------------------- MODULE MCAccounts -----------------------------
(***************************************************************************)
(* Instances of Accounts for TLC.                                          *)
(***************************************************************************)
EXTENDS Accounts

CONSTANTS root, olga, ivan, first, second, c1, c2

(* The accounts of an administrator and of an operator.                    *)
TwoAccounts ==
  [n \in {root, olga} |->
     [ password |-> first,
       role     |-> IF n = root THEN "admin" ELSE "operator",
       active   |-> TRUE ]]

AnOperator == {[password |-> second, role |-> "operator", active |-> TRUE]}
=============================================================================
