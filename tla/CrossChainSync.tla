--------------------------- MODULE CrossChainSync ---------------------------
(***************************************************************************)
(* The governance state kept of one chain, as relayed messages bring it up *)
(* to date (backend/m302_cross_chain_sync.rs).                             *)
(*                                                                         *)
(* process_message is one task with three critical sections: the duplicate *)
(* check, the application to the chain's state and the mark.  Relays may   *)
(* deliver a message late, out of order, twice, or at the same time.  Time *)
(* is counted in blocks.  Voting powers are overwritten as the timelock    *)
(* delay is and are left out, as are the statistics and message_queue,     *)
(* which nothing takes from.                                               *)
(***************************************************************************)
EXTENDS Integers, FiniteSets, Sequences

CONSTANTS
  Relays,           \* concurrent callers of process_message
  SyncedProposals,  \* proposals of the source chain
  Delays,           \* timelock delays
  MaxDrift,         \* max_clock_drift_ms
  MaxNow,           \* bound: the clock
  MaxSent,          \* bound: messages created
  MaxApplied        \* bound: messages applied

ASSUME CrossChainAssumption ==
  /\ Delays \subseteq Nat /\ MaxDrift \in Nat
  /\ MaxNow \in Nat /\ MaxSent \in Nat /\ MaxApplied \in Nat

VARIABLES
  now,        \* the clock of both chains
  sent,       \* messages created so far, oldest first
  chain,      \* ChainGovernanceState of the target
  processed,  \* processed_messages, by message id
  relay,      \* the message each relay is processing, and how far it is
  applied,    \* history: messages in the order they were applied
  accepted,   \* history: messages process_message returned Ok for
  racedIds    \* history: ids two relays had in hand at once

syncVars == <<now, sent, chain, processed, relay, applied, accepted, racedIds>>

NoMessage == [at |-> "idle"]

CrossChainInit ==
  /\ now = 0
  /\ sent = <<>>
  /\ chain = [active |-> [p \in SyncedProposals |-> 0], pending |-> [p \in SyncedProposals |-> 0],
              paused |-> FALSE, delay |-> 0, block |-> 0, stamp |-> 0]
  /\ processed = {}
  /\ relay = [r \in Relays |-> NoMessage]
  /\ applied = <<>>
  /\ accepted = {}
  /\ racedIds = {}

Sent(kind, arg) == \E i \in 1..Len(sent) : sent[i].kind = kind /\ sent[i].arg = arg

(* The id has the type and the block, not the payload. *)
Id(m) == <<m.kind, m.block>>

-----------------------------------------------------------------------------
AdvanceClock ==
  /\ now < MaxNow
  /\ now' = now + 1
  /\ UNCHANGED <<sent, chain, processed, relay, applied, accepted, racedIds>>

(* create_sync_message; a proposal is created before it is executed. *)
CreateSyncMessage(kind, arg) ==
  /\ Len(sent) < MaxSent
  /\ kind \in {"Created", "Executed"} => ~Sent(kind, arg)
  /\ kind = "Executed" => Sent("Created", arg)
  /\ sent' = Append(sent, [kind |-> kind, arg |-> arg, block |-> now, seq |-> Len(sent)])
  /\ UNCHANGED <<now, chain, processed, relay, applied, accepted, racedIds>>

(* A delivery: the check for duplicates, and then for age. *)
Deliver(r, m) ==
  /\ relay[r] = NoMessage
  /\ IF Id(m) \in processed
     THEN accepted' = accepted \union {m} /\ UNCHANGED <<relay, racedIds>>
     ELSE /\ now <= m.block + MaxDrift
          /\ relay' = [relay EXCEPT ![r] = [at |-> "apply", m |-> m]]
          /\ racedIds' = IF \E q \in Relays \ {r} : relay[q].at # "idle" /\ Id(relay[q].m) = Id(m)
                         THEN racedIds \union {Id(m)} ELSE racedIds
          /\ UNCHANGED accepted
  /\ UNCHANGED <<now, sent, chain, processed, applied>>

(* Mutant: an executed proposal stays in the active list. *)
ExecutedKept(m) ==
  LET c == [chain EXCEPT !.block = m.block, !.stamp = m.block]
  IN CASE m.kind = "Created"  -> [c EXCEPT !.active[m.arg] = @ + 1]
       [] m.kind = "Executed" -> [c EXCEPT !.pending[m.arg] = @ + 1]
       [] m.kind = "Paused"   -> [c EXCEPT !.paused = TRUE]
       [] m.kind = "Resumed"  -> [c EXCEPT !.paused = FALSE]
       [] m.kind = "Timelock" -> [c EXCEPT !.delay = m.arg]

ChainAfter(m) ==
  LET c == [chain EXCEPT !.block = m.block, !.stamp = m.block]
  IN CASE m.kind = "Created"  -> [c EXCEPT !.active[m.arg] = @ + 1]
       [] m.kind = "Executed" -> [c EXCEPT !.active[m.arg] = 0, !.pending[m.arg] = @ + 1]
       [] m.kind = "Paused"   -> [c EXCEPT !.paused = TRUE]
       [] m.kind = "Resumed"  -> [c EXCEPT !.paused = FALSE]
       [] m.kind = "Timelock" -> [c EXCEPT !.delay = m.arg]

ApplySyncMessage(r) ==
  /\ relay[r].at = "apply"
  /\ Len(applied) < MaxApplied
  /\ chain' = ChainAfter(relay[r].m)
  /\ applied' = Append(applied, relay[r].m)
  /\ relay' = [relay EXCEPT ![r].at = "mark"]
  /\ UNCHANGED <<now, sent, processed, accepted, racedIds>>

MarkProcessed(r) ==
  /\ relay[r].at = "mark"
  /\ processed' = processed \union {Id(relay[r].m)}
  /\ accepted' = accepted \union {relay[r].m}
  /\ relay' = [relay EXCEPT ![r] = NoMessage]
  /\ UNCHANGED <<now, sent, chain, applied, racedIds>>

(* force_sync_chain brings nothing but the time up to date. *)
ForceSyncChain ==
  /\ chain' = [chain EXCEPT !.stamp = now]
  /\ UNCHANGED <<now, sent, processed, relay, applied, accepted, racedIds>>

CrossChainNext ==
  \/ AdvanceClock
  \/ ForceSyncChain
  \/ \E p \in SyncedProposals : CreateSyncMessage("Created", p) \/ CreateSyncMessage("Executed", p)
  \/ CreateSyncMessage("Paused", 0) \/ CreateSyncMessage("Resumed", 0)
  \/ \E d \in Delays : CreateSyncMessage("Timelock", d)
  \/ \E r \in Relays :
       \/ \E i \in 1..Len(sent) : Deliver(r, sent[i])
       \/ ApplySyncMessage(r)
       \/ MarkProcessed(r)

CrossChainSpec == CrossChainInit /\ [][CrossChainNext]_syncVars

-----------------------------------------------------------------------------
CrossChainTypeOK ==
  /\ chain.active \in [SyncedProposals -> Nat] /\ chain.pending \in [SyncedProposals -> Nat]
  /\ chain.paused \in BOOLEAN /\ chain.delay \in Delays \union {0}
  /\ chain.block \in 0..now /\ chain.stamp \in 0..now
  /\ \A r \in Relays : relay[r].at \in {"idle", "apply", "mark"}

Indices == 1..Len(applied)

(* A message takes effect once, however often it is delivered, unless two    *)
(* relays had it in hand at the same time.                                   *)
AppliedOnce ==
  \A i, j \in Indices : Id(applied[i]) = Id(applied[j]) /\ Id(applied[i]) \notin racedIds => i = j

(* What process_message accepted has taken effect, or a message of the same  *)
(* type and block has in its stead.                                          *)
AcceptedIsApplied ==
  \A m \in accepted : \E i \in Indices : Id(applied[i]) = Id(m)

InOrder == \A i, j \in Indices : i < j => applied[i].seq <= applied[j].seq

(* Delivered in the order they were sent, messages never leave a proposal    *)
(* both voted on and executed, nor a pause or a delay that a later message   *)
(* had replaced -- even when relays race.                                    *)
OrderedIsCurrent ==
  InOrder =>
    /\ \A p \in SyncedProposals : chain.active[p] = 0 \/ chain.pending[p] = 0
    /\ \A i \in Indices :
         /\ applied[i].kind = "Timelock" /\ (\A j \in Indices : j > i => applied[j].kind # "Timelock")
              => chain.delay = applied[i].arg
         /\ applied[i].kind = "Paused" /\ ~chain.paused
              => \E j \in Indices : j > i /\ applied[j].kind = "Resumed" /\ applied[j].seq > applied[i].seq

CrossChainSound ==
  CrossChainTypeOK /\ AppliedOnce /\ AcceptedIsApplied /\ OrderedIsCurrent
=============================================================================
