--------------------------- MODULE MCAutoTransfer ---------------------------
(* Constants for model checking AutoTransfer.                                *)
EXTENDS AutoTransfer

CONSTANT c1

GainsAndLosses == {-2, 1, 3}

=============================================================================
