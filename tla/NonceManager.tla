---------------------------- MODULE NonceManager ----------------------------
(***************************************************************************)
(* The transaction nonces of one address on one chain                      *)
(* (backend/nonce_manager.rs): a counter cached in memory and persisted in *)
(* SQLite.  Every method is a sequence of separately awaited steps: read   *)
(* the cache, write the row, write the cache.  Nothing is held between     *)
(* them, a write may fail, and the process may restart at any point.       *)
(***************************************************************************)
EXTENDS Integers, Sequences

CONSTANTS
  Tasks,       \* tasks that share the manager
  ChainNonces, \* values sync_with_chain may be given
  MaxNonce,    \* bound: the nonce
  MaxIssued,   \* bound: nonces issued
  Serial       \* does a task call only when no other call is under way?

ASSUME NonceAssumption ==
  /\ ChainNonces \subseteq Nat
  /\ MaxNonce \in Nat
  /\ MaxIssued \in Nat
  /\ Serial \in BOOLEAN

VARIABLES
  db,      \* nonce_counter.nonce; 0 while there is no row
  cache,   \* cache; 0 while it is None
  task,    \* the call each task is in, and the nonce it is setting
  issued   \* history: the nonces next_nonce has returned since a reset

vars == <<db, cache, task, issued>>

Idle == [pc |-> "idle", op |-> "next", value |-> 0]

Init ==
  /\ db = 0
  /\ cache = 0
  /\ task = [t \in Tasks |-> Idle]
  /\ issued = <<>>

Quiet == \A t \in Tasks : task[t].pc = "idle"

Begin(t, op, value) ==
  /\ task[t].pc = "idle"
  /\ Serial => Quiet
  /\ value <= MaxNonce
  /\ task' = [task EXCEPT ![t] = [pc |-> "persist", op |-> op, value |-> value]]
  /\ UNCHANGED <<db, cache, issued>>

(* next_nonce: get_nonce, then set_nonce(nonce + 1) *)
NextNonce(t) ==
  /\ Len(issued) < MaxIssued
  /\ Begin(t, "next", cache + 1)

(* Mutant: the chain's nonce is taken even when it is behind. *)
SyncAlways(t, chainNonce) == Begin(t, "sync", chainNonce)

(* sync_with_chain: get_nonce, then set_nonce when the chain is ahead *)
SyncWithChain(t, chainNonce) ==
  /\ chainNonce > cache
  /\ Begin(t, "sync", chainNonce)

EmergencyReset(t) == Begin(t, "reset", 0)

-----------------------------------------------------------------------------
(* A reset deliberately starts the numbers again: so does the history.       *)
SinceReset(t) == IF task[t].op = "reset" THEN <<>> ELSE issued

(* set_nonce: the row is written first *)
Persist(t) ==
  /\ task[t].pc = "persist"
  /\ db' = task[t].value
  /\ issued' = SinceReset(t)
  /\ task' = [task EXCEPT ![t].pc = "publish"]
  /\ UNCHANGED cache

(* ... or the statement fails and the call returns the error *)
PersistFails(t) ==
  /\ task[t].pc = "persist"
  /\ task' = [task EXCEPT ![t].pc = "idle"]
  /\ UNCHANGED <<db, cache, issued>>

(* ... then the cache, and the call returns. *)
Publish(t) ==
  /\ task[t].pc = "publish"
  /\ cache' = task[t].value
  /\ issued' = IF task[t].op = "next" THEN Append(issued, task[t].value) ELSE issued
  /\ task' = [task EXCEPT ![t].pc = "idle"]
  /\ UNCHANGED db

(* The process restarts: every call is lost and load_from_db fills the cache. *)
Restart ==
  /\ cache' = db
  /\ task' = [t \in Tasks |-> Idle]
  /\ UNCHANGED <<db, issued>>

Next ==
  \/ \E t \in Tasks : \/ NextNonce(t) \/ EmergencyReset(t)
                      \/ Persist(t) \/ PersistFails(t) \/ Publish(t)
  \/ \E t \in Tasks, n \in ChainNonces : SyncWithChain(t, n)
  \/ Restart

Spec == Init /\ [][Next]_vars

-----------------------------------------------------------------------------
TypeOK ==
  /\ db \in Nat
  /\ cache \in Nat
  /\ task \in [Tasks -> [pc : {"idle", "persist", "publish"},
                         op : {"next", "sync", "reset"}, value : Nat]]
  /\ issued \in Seq(Nat)

(* "Get next nonce and increment atomically": between two resets no nonce is *)
(* issued twice, and later calls get higher ones, through failed writes,     *)
(* restarts and synchronisation with a chain that is behind.                 *)
IssuedOnce ==
  \A i, j \in DOMAIN issued : i < j => issued[i] < issued[j]

(* "persisted to SQLite": with no call under way a restart would load the    *)
(* nonce that the cache holds.                                               *)
CachePersisted == Quiet => cache = db

(* All three, over failed writes, resets, restarts and a chain that is behind. *)
NonceSound == TypeOK /\ IssuedOnce /\ CachePersisted

=============================================================================
