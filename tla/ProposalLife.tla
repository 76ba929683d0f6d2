---------------------------- MODULE ProposalLife ----------------------------
(***************************************************************************)
(* What a governance component promises its voters, whatever its clocks,   *)
(* queues and statuses: votes only add to the tally of an open proposal, a *)
(* proposal is executed at most once and only on a tally that carries it,  *)
(* and the tally of a closed or executed proposal never changes.           *)
(* GovernanceExecutor (off chain) and Governor (on chain) implement it.    *)
(***************************************************************************)
EXTENDS Integers, Sequences

CONSTANT Carries(_)  \* does a tally carry its proposal?

VARIABLE life        \* the proposals, in the order of their creation

LifeInit == life = <<>>

(* A new proposal has no votes; its tally may count some power as present. *)
Propose ==
  /\ Len(life') = Len(life) + 1
  /\ LET new == life'[Len(life')]
     IN /\ life' = Append(life, new)
        /\ new.phase = "open" /\ new.tally.for = 0 /\ new.tally.against = 0

Grows(s, t) == s.for <= t.for /\ s.against <= t.against /\ s.other <= t.other

(* A vote adds to one tally, and may bring the end of voting with it.  A     *)
(* dropped proposal may still be voted on, to no effect.                     *)
Cast(i) ==
  /\ life[i].phase \in {"open", "dropped"}
  /\ life' = [life EXCEPT ![i] = life'[i]]
  /\ life'[i].phase \in {life[i].phase, "closed"}
  /\ life'[i].phase = "closed" => life[i].phase = "open"
  /\ Grows(life[i].tally, life'[i].tally)

(* Time and cancellations move any number of proposals, forward only. *)
Successor(phase) ==
  CASE phase = "open"   -> {"open", "closed", "dropped"}
    [] phase = "closed" -> {"closed", "dropped"}
    [] OTHER            -> {phase}

Wind ==
  /\ DOMAIN life' = DOMAIN life
  /\ \A i \in DOMAIN life : /\ life'[i].tally = life[i].tally
                            /\ life'[i].phase \in Successor(life[i].phase)

Execute(i) ==
  /\ life[i].phase = "closed"
  /\ Carries(life[i].tally)
  /\ life' = [life EXCEPT ![i].phase = "executed"]

LifeNext ==
  \/ Propose
  \/ Wind
  \/ \E i \in DOMAIN life : Cast(i) \/ Execute(i)

LifeSpec == LifeInit /\ [][LifeNext]_life
=============================================================================
