------------------------------ MODULE Slashing ------------------------------
(***************************************************************************)
(* Slashing, jail and appeals (backend/m303_slashing_conditions.rs).       *)
(*                                                                         *)
(* The engine's maps are shared by its clones, each map under a lock of    *)
(* its own.  record_offense reads the repeat count, then writes records,   *)
(* jail, total and counts one lock at a time; is_jailed lets go of its     *)
(* read lock before it removes what it saw.  With auto_slash, the default; *)
(* whitelisted offenders change nothing.  Penalties are the escalation's   *)
(* step and a stake of one, time is the block number, and the appeal       *)
(* deadline is a number of blocks.                                         *)
(***************************************************************************)
EXTENDS Naturals, FiniteSets, Functions

CONSTANTS
  Clones,       \* concurrent users of the engine
  Offenders,
  Terms,        \* jail terms of the offences, in blocks
  AppealPeriod, \* appeal_period_blocks
  MaxBlock,     \* bound: the chain's height
  MaxOffences   \* bound: offences recorded

ASSUME SlashingAssumption ==
  /\ IsFiniteSet(Clones) /\ IsFiniteSet(Offenders)
  /\ Terms \subseteq Nat /\ AppealPeriod \in Nat
  /\ MaxBlock \in Nat /\ MaxOffences \in Nat

VARIABLES
  height,    \* current_block
  records,   \* slashing_records: <<offender, block>> -> [amount, appealed]
  jailed,    \* jailed_addresses: offender -> unjail block, 0 when absent
  total,     \* total_slashed
  counts,    \* offense_counts, summed over the kinds
  queue,     \* appeal_queue: record ids
  user,      \* what each clone is doing
  offences,  \* calls of record_offense so far
  due,       \* history: the latest unjail block of each offender's terms
             \* since a clear_jail
  excused,   \* history: offenders with overlapping terms, or released while
             \* another call was jailing them
  rewritten, \* history: amounts of records replaced by a later one of the
             \* same block
  filed,     \* history: record ids appealed, and those appealed again
  reopened   \* history: appealed records that were replaced

slashVars ==
  <<height, records, jailed, total, counts, queue, user, offences, due, excused, rewritten, filed, reopened>>

Free == [at |-> "free"]

Ids == Offenders \X (0..MaxBlock)

NoRecord == [amount |-> 0, appealed |-> FALSE]

SlashingInit ==
  /\ height = 0
  /\ records = [id \in Ids |-> NoRecord]
  /\ jailed = [o \in Offenders |-> 0]
  /\ total = 0
  /\ counts = [o \in Offenders |-> 0]
  /\ queue = {}
  /\ user = [c \in Clones |-> Free]
  /\ offences = 0
  /\ due = [o \in Offenders |-> 0]
  /\ excused = {} /\ rewritten = 0 /\ filed = [once |-> {}, again |-> {}] /\ reopened = {}

(* get_repeat_offense_multiplier, doubled: 1, 1, 1.5, 2, 3, 5. *)
Penalty(n) ==
  CASE n <= 1 -> 2 [] n = 2 -> 3 [] n = 3 -> 4 [] n = 4 -> 6 [] n >= 5 -> 10

NextBlock ==
  /\ height < MaxBlock
  /\ height' = height + 1
  /\ UNCHANGED <<records, jailed, total, counts, queue, user, offences, due, excused, rewritten, filed, reopened>>

-----------------------------------------------------------------------------
(* record_offense *)

Assess(c, o, term) ==
  /\ user[c] = Free
  /\ offences < MaxOffences
  /\ offences' = offences + 1
  /\ user' = [user EXCEPT ![c] =
       [at |-> "record", id |-> <<o, height>>, until |-> height + term, amount |-> Penalty(counts[o])]]
  /\ UNCHANGED <<height, records, jailed, total, counts, queue, due, excused, rewritten, filed, reopened>>

InsertRecord(c) ==
  LET id == user[c].id
  IN /\ user[c].at = "record"
     /\ records' = [records EXCEPT ![id] = [amount |-> user[c].amount, appealed |-> FALSE]]
     /\ rewritten' = rewritten + records[id].amount
     /\ reopened' = IF records[id].appealed THEN reopened \union {id} ELSE reopened
     /\ user' = [user EXCEPT ![c].at = "jail"]
     /\ UNCHANGED <<height, jailed, total, counts, queue, offences, due, excused, filed>>

Later(a, b) == IF a < b THEN b ELSE a

InsertJail(c) ==
  LET o == user[c].id[1]
  IN /\ user[c].at = "jail"
     /\ jailed' = [jailed EXCEPT ![o] = user[c].until]
     /\ due' = [due EXCEPT ![o] = Later(@, user[c].until)]
     /\ excused' = IF user[c].until < due[o] THEN excused \union {o} ELSE excused
     /\ user' = [user EXCEPT ![c].at = "sum"]
     /\ UNCHANGED <<height, records, total, counts, queue, offences, rewritten, filed, reopened>>

AddTotal(c) ==
  /\ user[c].at = "sum"
  /\ total' = total + user[c].amount
  /\ user' = [user EXCEPT ![c].at = "count"]
  /\ UNCHANGED <<height, records, jailed, counts, queue, offences, due, excused, rewritten, filed, reopened>>

CountOffence(c) ==
  /\ user[c].at = "count"
  /\ counts' = [counts EXCEPT ![user[c].id[1]] = @ + 1]
  /\ user' = [user EXCEPT ![c] = Free]
  /\ UNCHANGED <<height, records, jailed, total, queue, offences, due, excused, rewritten, filed, reopened>>

-----------------------------------------------------------------------------
(* is_jailed: the check that finds the term served, then, blocks later       *)
(* perhaps, the removal.                                                     *)
SeeServed(c, o) ==
  /\ user[c] = Free
  /\ jailed[o] # 0 /\ height >= jailed[o]
  /\ user' = [user EXCEPT ![c] = [at |-> "release", id |-> <<o, height>>, amount |-> 0]]
  /\ UNCHANGED <<height, records, jailed, total, counts, queue, offences, due, excused, rewritten, filed, reopened>>

Release(c) ==
  LET o == user[c].id[1]
  IN /\ user[c].at = "release"
     /\ jailed' = [jailed EXCEPT ![o] = 0]
     /\ excused' = IF height < due[o] /\ jailed[o] # 0 THEN excused \union {o} ELSE excused
     /\ user' = [user EXCEPT ![c] = Free]
     /\ UNCHANGED <<height, records, total, counts, queue, offences, due, rewritten, filed, reopened>>

(* clear_jail ends every term so far. *)
ClearJail(o) ==
  /\ jailed' = [jailed EXCEPT ![o] = 0]
  /\ due' = [due EXCEPT ![o] = 0]
  /\ UNCHANGED <<height, records, total, counts, queue, user, offences, excused, rewritten, filed, reopened>>

(* Without a period there is no deadline. *)
InTime(id) == AppealPeriod = 0 \/ height <= id[2] + AppealPeriod

(* Mutant: a decided appeal may be filed again. *)
AppealAgain(id) ==
  /\ records[id] # NoRecord
  /\ InTime(id)
  /\ id \notin queue
  /\ records' = [records EXCEPT ![id].appealed = TRUE]
  /\ queue' = queue \union {id}
  /\ filed' = IF id \in filed.once THEN [filed EXCEPT !.again = @ \union {id}]
                                  ELSE [filed EXCEPT !.once = @ \union {id}]
  /\ UNCHANGED <<height, jailed, total, counts, user, offences, due, excused, rewritten, reopened>>

(* appeal_slashing keeps the records locked while it queues the appeal. *)
AppealSlashing(id) ==
  /\ records[id] # NoRecord
  /\ ~records[id].appealed
  /\ InTime(id)
  /\ records' = [records EXCEPT ![id].appealed = TRUE]
  /\ queue' = queue \union {id}
  /\ filed' = IF id \in filed.once THEN [filed EXCEPT !.again = @ \union {id}]
                                  ELSE [filed EXCEPT !.once = @ \union {id}]
  /\ UNCHANGED <<height, jailed, total, counts, user, offences, due, excused, rewritten, reopened>>

(* process_appeals decides each appeal, changes no record and empties the queue. *)
ProcessAppeals ==
  /\ queue # {}
  /\ queue' = {}
  /\ UNCHANGED <<height, records, jailed, total, counts, user, offences, due, excused, rewritten, filed, reopened>>

SlashingNext ==
  \/ NextBlock
  \/ \E c \in Clones :
       \/ \E o \in Offenders, term \in Terms : Assess(c, o, term)
       \/ InsertRecord(c) \/ InsertJail(c) \/ AddTotal(c) \/ CountOffence(c)
       \/ \E o \in Offenders : SeeServed(c, o)
       \/ Release(c)
  \/ \E o \in Offenders : ClearJail(o)
  \/ \E id \in Ids : AppealSlashing(id)
  \/ ProcessAppeals

SlashingSpec == SlashingInit /\ [][SlashingNext]_slashVars

-----------------------------------------------------------------------------
SlashingTypeOK ==
  /\ records \in [Ids -> [amount : Nat, appealed : BOOLEAN]]
  /\ jailed \in [Offenders -> Nat] /\ counts \in [Offenders -> Nat]
  /\ queue \subseteq Ids
  /\ \A c \in Clones : user[c].at \in {"free", "record", "jail", "sum", "count", "release"}

(* An offender stays in jail to the end of the longest term, unless a term   *)
(* that ends sooner was written over it or a check that had found an earlier *)
(* term served removed it.                                                   *)
TermsAreServed ==
  \A o \in Offenders \ excused : height < due[o] => jailed[o] = due[o]

AmountsToAdd == [c \in Clones |-> IF user[c].at \in {"jail", "sum"} THEN user[c].amount ELSE 0]

AmountsOnRecord == [id \in Ids |-> records[id].amount]

(* The total is what the records say, replaced records and records not yet   *)
(* added included.                                                           *)
TotalIsRecorded ==
  total + SumFunctionOnSet(AmountsToAdd, Clones) = rewritten + SumFunctionOnSet(AmountsOnRecord, Ids)

(* An appeal is filed once, whatever appeals are decided in between; only a  *)
(* second offence in the same block, which replaces the record, allows more. *)
OneAppeal ==
  /\ \A id \in queue \ reopened : records[id].appealed
  /\ filed.again \subseteq reopened

SlashingSound == SlashingTypeOK /\ TermsAreServed /\ TotalIsRecorded /\ OneAppeal
=============================================================================
