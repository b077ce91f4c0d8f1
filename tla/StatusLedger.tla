---------------------------- MODULE StatusLedger ----------------------------
(***************************************************************************)
(* What the shop is promised about statuses, in one variable: products     *)
(* enter the ledger with some status, then move along the flow one         *)
(* complete request at a time, several together when they are sold         *)
(* together, and finally leave it.                                         *)
(***************************************************************************)
EXTENDS StatusFlow

CONSTANTS Products,
          Absent  \* where a product is before it enters and after it leaves; not a status

VARIABLE stage

Init == stage = [p \in Products |-> Absent]

Enter(S) ==
  /\ \A p \in S : stage[p] = Absent
  /\ \E statusOf \in [S -> Statuses] :
       stage' = [p \in Products |-> IF p \in S THEN statusOf[p] ELSE stage[p]]

Move(S, t) ==
  /\ \A p \in S : stage[p] # Absent /\ MayFollow(stage[p], t)
  /\ stage' = [p \in Products |-> IF p \in S THEN t ELSE stage[p]]

Leave(p) ==
  /\ stage[p] # Absent
  /\ stage' = [stage EXCEPT ![p] = Absent]

Next ==
  \/ \E S \in SUBSET Products : Enter(S) \/ \E t \in Statuses : Move(S, t)
  \/ \E p \in Products : Leave(p)

Spec == Init /\ [][Next]_stage
=============================================================================
