---------------------------- MODULE CriticalPath ----------------------------
(***************************************************************************)
(* The fixed-point pipeline of upgrade4_sim: tables baked in advance, then *)
(* one packet after the other through shifts, masks and look-ups, without  *)
(* a division or a square root.  Integers have Bits bits and wrap as in a  *)
(* release build.  Latencies are left out.                                 *)
(***************************************************************************)
EXTENDS Integers, Sequences, SequencesExt

CONSTANTS
  Bits,           \* width of an unsigned word: 64 in the program
  Granularity,    \* bits of a reserve's change an entry of the step array covers
  Entries,        \* entries of the step array: 65 536
  Elasticity,     \* S_ELASTICITY
  Payload,        \* the size of a payload: 512
  Baselines,      \* reserves a step array is built from
  Fees,           \* base fees
  Packets,        \* what arrives: change of the reserve, pending transactions, profit
  Untouched       \* a gas field nothing has been written to

ASSUME CriticalPathAssumption ==
  /\ Bits \in Nat /\ Bits % 2 = 0 /\ Bits > 0
  /\ Granularity \in Nat /\ Entries \in Nat \ {0} /\ Payload \in Nat
  /\ Elasticity \in 0..(Bits - 1)
  /\ Baselines \subseteq 0..(2 ^ Bits - 1) /\ Fees \subseteq 0..(2 ^ Bits - 1)
  /\ \A p \in Packets : /\ p.change \in 0..(2 ^ Bits - 1)
                        /\ p.density \in 0..(2 ^ Bits - 1)
                        /\ p.profit \in Int

VARIABLES
  baseline,  \* the reserve the step array was built from
  baseFee,   \* current_base_fee
  template,  \* the gas fields of the transaction, and whether it was built
  packet     \* the last packet, with what each stage made of it

pathVars == <<baseline, baseFee, template, packet>>

Wrap(n) == n % (2 ^ Bits)
ShiftRight(n, by) == n \div (2 ^ by)

(* Mutant: perfect squares are missed. *)
RootStepStrict(state, bit) ==
  LET candidate == state.root + bit
  IN IF candidate < state.x
     THEN [x |-> state.x - candidate, root |-> ShiftRight(state.root, 1) + bit]
     ELSE [state EXCEPT !.root = ShiftRight(state.root, 1)]

(* integer_sqrt: digit by digit, from the highest power of four.  The root   *)
(* and the bit tried have no bit in common, so that | is +.                  *)
RootStep(state, bit) ==
  LET candidate == state.root + bit
  IN IF candidate <= state.x
     THEN [x |-> state.x - candidate, root |-> ShiftRight(state.root, 1) + bit]
     ELSE [state EXCEPT !.root = ShiftRight(state.root, 1)]

IntegerSqrt(n) ==
  LET bits == [k \in 1..(Bits \div 2) |-> 2 ^ (Bits - 2 * k)]
  IN FoldLeft(RootStep, [x |-> n, root |-> 0], bits).root

(* build: entry i is sqrt(R0 * (R0 + change)) - R0 *)
Product(r0, change) == Wrap(r0 * Wrap(r0 + change))
StepEntry(r0, i) == Wrap(IntegerSqrt(Product(r0, i * 2 ^ Granularity)) - r0)

(* lookup: changes beyond the table are sized like its last entry *)
EntryOf(change) ==
  LET i == ShiftRight(change, Granularity) IN IF i < Entries THEN i ELSE Entries - 1

(* from_net_profit and apply_execution_mask: the sign bit, spread over the   *)
(* word and inverted, keeps the payload or clears it.                        *)
SignSpread(profit) == IF profit < 0 THEN 2 ^ Bits - 1 ELSE 0
Masked(size, profit) == IF (2 ^ Bits - 1) - SignSpread(profit) = 0 THEN 0 ELSE size

LeadingZeros(n) == Bits - (CHOOSE k \in 0..Bits : n < 2 ^ k /\ (k = 0 \/ n >= 2 ^ (k - 1)))

(* estimate_next_base_fee *)
NextBaseFee(base, density) ==
  LET shift == Elasticity + LeadingZeros(density)
  IN IF density = 0 THEN base
     ELSE Wrap(base + ShiftRight(base, IF shift < Bits THEN shift ELSE Bits - 1))

(* BidMatrix::lookup: one tier per power of two.  The matrix has four        *)
(* entries per bit of the word; 63 - 64 wraps, and is cut to the last one.   *)
LastTier == 4 * Bits - 1
Tier(density) ==
  LET i == Wrap((Bits - 1) - LeadingZeros(density))
  IN IF i <= LastTier THEN i ELSE LastTier

-----------------------------------------------------------------------------
NoPacket == [change |-> 0, density |-> 0, profit |-> 0,
             input |-> 0, size |-> 0, fee |-> 0, tier |-> 0]

Densities == {p.density : p \in Packets}

(* PipelineContext::new, with the live gas price in it.  The template is     *)
(* built from a skeleton by nobody; build is left open.                      *)
PathInit ==
  /\ baseline \in {IF b = 0 THEN 1 ELSE b : b \in Baselines}
  /\ baseFee \in Fees
  /\ template = [initialized |-> FALSE, maxFee |-> Untouched, priority |-> Untouched]
  /\ packet = NoPacket

BuildTemplate ==
  /\ template' = [initialized |-> TRUE, maxFee |-> Untouched, priority |-> Untouched]
  /\ UNCHANGED <<baseline, baseFee, packet>>

(* execute_critical_path; patch_gas_fields_scalar writes to a template that  *)
(* was built only.                                                           *)
ExecuteCriticalPath(p) ==
  LET fee == NextBaseFee(baseFee, p.density)
      tier == Tier(p.density)
  IN /\ packet' = [change |-> p.change, density |-> p.density, profit |-> p.profit,
                   input |-> StepEntry(baseline, EntryOf(p.change)),
                   size |-> Masked(Payload, p.profit), fee |-> fee, tier |-> tier]
     /\ template' = IF template.initialized
                    THEN [template EXCEPT !.maxFee = fee, !.priority = tier]
                    ELSE template
     /\ UNCHANGED <<baseline, baseFee>>

PathNext ==
  \/ BuildTemplate
  \/ \E p \in Packets : ExecuteCriticalPath(p)

PathSpec == PathInit /\ [][PathNext]_pathVars

-----------------------------------------------------------------------------
PathTypeOK ==
  /\ baseline \in 1..(2 ^ Bits - 1)
  /\ baseFee \in Fees
  /\ template.initialized \in BOOLEAN
  /\ packet.input \in 0..(2 ^ Bits - 1) /\ packet.tier \in 0..LastTier

Square(n) == n * n

(* The change the table's entry stands for. *)
Covered == EntryOf(packet.change) * 2 ^ Granularity

(* Whatever the reserve, the input added to it is the root, rounded down, of *)
(* the product as the word holds it: integer_sqrt loses nothing, and what is *)
(* lost was lost by the wrapping arithmetic before it or after it.           *)
InputIsRoot ==
  packet # NoPacket =>
    LET root == Wrap(baseline + packet.input)
    IN Square(root) <= Product(baseline, Covered) /\ Product(baseline, Covered) < Square(root + 1)

(* A loan sized as the formula says is the positive root X of                *)
(* (R0 + X)^2 = R0 * (R0 + D), rounded down, for the change D the entry      *)
(* stands for: never above the optimum of the change that was seen, nor more *)
(* than one entry below it.                                                  *)
Optimal ==
  /\ Square(baseline + packet.input) <= baseline * (baseline + packet.change)
  /\ Square(baseline + packet.input + 1) > baseline * (baseline + Covered)

(* So it is when the product fits a word, which the program's only reserve,  *)
(* 10^18 in 64 bits, does not: see InputIsExact in MCCriticalPath.           *)
InputIsOptimal == baseline * (baseline + Covered) < 2 ^ Bits => Optimal

(* The fee estimate stays between the current fee and an eighth above it     *)
(* (2^-Elasticity), and the fuller the mempool the less it is damped, as     *)
(* long as an eighth more fits a word.                                       *)
FeeIsBounded ==
  packet # NoPacket /\ baseFee + ShiftRight(baseFee, Elasticity) < 2 ^ Bits =>
    /\ baseFee <= packet.fee
    /\ packet.fee <= baseFee + ShiftRight(baseFee, Elasticity)
    /\ \A fuller \in Densities :
         fuller >= packet.density => packet.fee <= NextBaseFee(baseFee, fuller)

(* The tier is the logarithm of a density that is not zero. *)
TierIsLogarithm ==
  packet.density > 0 => /\ 2 ^ packet.tier <= packet.density
                        /\ packet.density < 2 ^ (packet.tier + 1)

(* A payload leaves the pipeline only when it does not lose, and the fields  *)
(* written into a transaction are those of one packet.                       *)
OnlyProfitable ==
  /\ packet.size > 0 => packet.profit >= 0
  /\ template.maxFee # Untouched =>
       template.maxFee = packet.fee /\ template.priority = packet.tier

(* Sizes, fees, tiers and masks are what the stages of                       *)
(* execute_critical_path promise, under the conditions each of them names.   *)
CriticalPathSound ==
  /\ PathTypeOK /\ InputIsRoot /\ InputIsOptimal
  /\ FeeIsBounded /\ TierIsLogarithm /\ OnlyProfitable

=============================================================================
