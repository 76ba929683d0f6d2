--------------------------- MODULE MCCriticalPath ---------------------------
(* Packets for model checking the fixed-point pipeline, and what the comment *)
(* over its table says of every reserve.                                     *)
EXTENDS CriticalPath

Pkt(c, d, p) == [change |-> c, density |-> d, profit |-> p]

(* Changes on either side of the table's entries and of its end; densities   *)
(* at the powers of two.                                                     *)
SamplePackets ==
  {Pkt(c, 1, 0) : c \in {0, 1, 3, 4, 5, 8, 9, 12, 15, 16, 20, 24, 27, 28, 31, 32, 40}}
  \union {Pkt(4, d, p) : d \in {0, 1, 2, 15, 16, 127, 128, 255}, p \in {-1, 0, 1}}

(* StepArray::build says of its entries: X_opt = sqrt(R0(R0 + dR)) - R0,      *)
(* "Computed exactly here" (main.rs:48-50), whatever the reserve: a loan the *)
(* pipeline sizes is the optimal one.                                        *)
InputIsExact == packet # NoPacket => Optimal

=============================================================================
