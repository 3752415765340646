------------------------------ MODULE MCAccounts ------------------------------
(* Accounts for TLC: two admins, and room for two accounts more. *)
EXTENDS Accounts, TLC

CONSTANTS h1, h2, root, ann, new1, new2

MCRow(n, role) == [name |-> n, role |-> role, active |-> TRUE, enabled |-> FALSE, secret |-> NoSecret]
MCSeed == [a \in Account |->
  IF a = root THEN MCRow("admin", "admin")
  ELSE IF a = ann THEN MCRow("teacher", "admin")
  ELSE NoRow]
MCSymmetry == Permutations({h1, h2}) \cup Permutations({new1, new2})
===============================================================================
