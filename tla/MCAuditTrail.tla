---------------------------- MODULE MCAuditTrail ----------------------------
(* Constants for model checking AuditTrail.                                  *)
EXTENDS AuditTrail

CONSTANTS w1, w2, AEA, IAA, c1, c2

(* Two sound observations of one card, one with one flaw, one with three     *)
(* flaws, and one of another card.                                           *)
Sample ==
  {[card |-> c1, author |-> AEA, evidence |-> 1, flaws |-> {}],
   [card |-> c1, author |-> AEA, evidence |-> 2, flaws |-> {}],
   [card |-> c1, author |-> AEA, evidence |-> 3, flaws |-> {"Security"}],
   [card |-> c2, author |-> AEA, evidence |-> 4,
    flaws |-> {"Evidence", "Governance", "PolicyCompliance"}],
   [card |-> c2, author |-> IAA, evidence |-> 5, flaws |-> {}]}

WorkerSymmetry == Permutations(Workers)

=============================================================================
