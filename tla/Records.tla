------------------------------ MODULE Records ------------------------------
(***************************************************************************)
(* The `data` objects of Prisma: partial records.  A service builds the    *)
(* `data` of an update from a few fragments, each spread in under a        *)
(* condition, and the database lays the result over the row.               *)
(***************************************************************************)

\* q laid over r: the fields of q win, the others keep the value r gives them.
q ++ r == [f \in DOMAIN q \cup DOMAIN r |-> IF f \in DOMAIN q THEN q[f] ELSE r[f]]

\* No field at all: `{}`.
NoField == [f \in {} |-> {}]

\* `...(cond ? data : {})`: the fragment if the condition holds, nothing otherwise.
When(cond, data) == IF cond THEN data ELSE NoField
=============================================================================
