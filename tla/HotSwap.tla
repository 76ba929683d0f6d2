------------------------------- MODULE HotSwap -------------------------------
(***************************************************************************)
(* The runtime module registry (backend/hot_swap_module.rs): registration, *)
(* loading, swapping a module for a newer version, rollback.               *)
(*                                                                         *)
(* Two asynchronous locks guard the maps.  A write guard of `modules` is   *)
(* never kept across an await, so a section under it is one action.  Two   *)
(* guards are: hot_swap reads `modules` while it waits for the previous    *)
(* versions, and rollback keeps the previous versions while it waits to    *)
(* write `modules`.  A loader at "peeked" holds the first, one at          *)
(* "restoring" the second.  Patch numbers, dependencies and load times do  *)
(* not matter here.                                                        *)
(***************************************************************************)
EXTENDS Naturals, FiniteSets

CONSTANTS
  Names,        \* modules
  Versions,     \* versions a module may come in, [major, minor]
  Loaders,      \* concurrent callers
  MaxPrevious,  \* max_rollback_storage
  MaxSwaps,     \* bound: calls of hot_swap, load_module and rollback
  NoModule      \* absence of a descriptor

ASSUME HotSwapAssumption ==
  /\ Versions \subseteq [major : Nat, minor : Nat]
  /\ IsFiniteSet(Names)
  /\ MaxPrevious \in Nat /\ MaxSwaps \in Nat
  /\ NoModule \notin [version : Versions, status : {"Active", "RollingBack"}]

VARIABLES
  modules,   \* name -> descriptor
  previous,  \* previous_versions
  loader,    \* where each caller is, and with which module
  swaps,     \* calls so far
  vetted,    \* history: the versions that were registered or passed validate
  unsaved    \* history: modules a swap found absent, or whose saved version
             \* was evicted or taken by a rollback

registryVars == <<modules, previous, loader, swaps, vetted, unsaved>>

Descriptor == [version : Versions, status : {"Active", "RollingBack"}]

Active(v) == [version |-> v, status |-> "Active"]

Resting == [pc |-> "idle"]

(* register_core_modules (main.rs) fills the registry before anything runs. *)
HotSwapInit ==
  /\ modules \in [Names -> {Active(v) : v \in Versions} \union {NoModule}]
  /\ previous = [n \in Names |-> NoModule]
  /\ loader = [t \in Loaders |-> Resting]
  /\ swaps = 0
  /\ vetted = {<<n, modules[n].version>> : n \in {m \in Names : modules[m] # NoModule}}
  /\ unsaved = {}

Loaded(n) == modules[n] # NoModule

Compatible(v, w) == v.major = w.major /\ v.minor >= w.minor

ModulesWritable == \A t \in Loaders : loader[t].pc # "peeked"
PreviousFree    == \A t \in Loaders : loader[t].pc # "restoring"

GoTo(t, pc) == loader' = [loader EXCEPT ![t].pc = pc]

Return(t) == loader' = [loader EXCEPT ![t] = Resting]

-----------------------------------------------------------------------------
(* Calls *)

Call(t, pc, n, v) ==
  /\ loader[t] = Resting
  /\ swaps < MaxSwaps
  /\ swaps' = swaps + 1
  /\ loader' = [loader EXCEPT ![t] = [pc |-> pc, name |-> n, version |-> v, swap |-> pc = "swap"]]
  /\ UNCHANGED <<modules, previous, vetted, unsaved>>

(* hot_swap *)
SwapPeek(t) ==
  /\ loader[t].pc = "swap"
  /\ IF Loaded(loader[t].name)
     THEN GoTo(t, "peeked") /\ UNCHANGED unsaved
     ELSE GoTo(t, "marking") /\ unsaved' = unsaved \union {loader[t].name}
  /\ UNCHANGED <<modules, previous, swaps, vetted>>

(* The saved versions are cut to the limit in the map's order, which is any  *)
(* order: the version just saved may be the one that goes.                   *)
SwapSave(t) ==
  LET n == loader[t].name
      saved == [previous EXCEPT ![n] = modules[n]]
      kept  == {m \in Names : saved[m] # NoModule}
  IN /\ loader[t].pc = "peeked"
     /\ PreviousFree
     /\ \E evicted \in SUBSET kept :
          /\ Cardinality(kept \ evicted) <= MaxPrevious
          /\ evicted # {} => Cardinality(kept \ evicted) = MaxPrevious
          /\ previous' = [m \in Names |-> IF m \in evicted THEN NoModule ELSE saved[m]]
          /\ unsaved' = (unsaved \ {n}) \union evicted
     /\ GoTo(t, "marking")
     /\ UNCHANGED <<modules, swaps, vetted>>

SwapMark(t) ==
  LET n == loader[t].name
  IN /\ loader[t].pc = "marking"
     /\ ModulesWritable
     /\ modules' = IF Loaded(n) THEN [modules EXCEPT ![n].status = "RollingBack"] ELSE modules
     /\ GoTo(t, "load")
     /\ UNCHANGED <<previous, swaps, vetted, unsaved>>

(* Mutant: a failed swap returns without its rollback. *)
FailQuietly(t) == Return(t)

(* A failed step ends a load, and sends a swap to its rollback. *)
Fail(t) == IF loader[t].swap THEN GoTo(t, "rollback") ELSE Return(t)

(* load_module: init and validate. *)
Validate(t) ==
  /\ loader[t].pc = "load"
  /\ \/ /\ GoTo(t, "registering")
        /\ vetted' = vetted \union {<<loader[t].name, loader[t].version>>}
     \/ /\ Fail(t)
        /\ UNCHANGED vetted
  /\ UNCHANGED <<modules, previous, swaps, unsaved>>

Register(t) ==
  LET n == loader[t].name
  IN /\ loader[t].pc = "registering"
     /\ ModulesWritable
     /\ IF Loaded(n) /\ ~Compatible(loader[t].version, modules[n].version)
        THEN Fail(t) /\ UNCHANGED modules
        ELSE /\ modules' = [modules EXCEPT ![n] = Active(loader[t].version)]
             /\ IF loader[t].swap THEN GoTo(t, "settling") ELSE Return(t)
     /\ UNCHANGED <<previous, swaps, vetted, unsaved>>

SwapSettle(t) ==
  LET n == loader[t].name
  IN /\ loader[t].pc = "settling"
     /\ ModulesWritable
     /\ modules' = IF Loaded(n) THEN [modules EXCEPT ![n].status = "Active"] ELSE modules
     /\ Return(t)
     /\ UNCHANGED <<previous, swaps, vetted, unsaved>>

(* rollback, called by a failed hot_swap or on its own. *)
RollbackTake(t) ==
  LET n == loader[t].name
  IN /\ loader[t].pc = "rollback"
     /\ PreviousFree
     /\ IF previous[n] = NoModule
        THEN Return(t) /\ UNCHANGED <<previous, unsaved>>
        ELSE /\ loader' = [loader EXCEPT ![t].pc = "restoring", ![t].version = previous[n].version]
             /\ previous' = [previous EXCEPT ![n] = NoModule]
             /\ unsaved' = unsaved \union {n}
     /\ UNCHANGED <<modules, swaps, vetted>>

RollbackPut(t) ==
  /\ loader[t].pc = "restoring"
  /\ ModulesWritable
  /\ modules' = [modules EXCEPT ![loader[t].name] = Active(loader[t].version)]
  /\ Return(t)
  /\ UNCHANGED <<previous, swaps, vetted, unsaved>>

(* unload_module and restart_module *)
Unload(n) ==
  /\ ModulesWritable
  /\ Loaded(n)
  /\ modules' = [modules EXCEPT ![n] = NoModule]
  /\ UNCHANGED <<previous, loader, swaps, vetted, unsaved>>

RestartModule(n) ==
  /\ ModulesWritable
  /\ Loaded(n)
  /\ modules' = [modules EXCEPT ![n].status = "Active"]
  /\ UNCHANGED <<previous, loader, swaps, vetted, unsaved>>

HotSwapNext ==
  \/ \E t \in Loaders, n \in Names, v \in Versions :
       \/ Call(t, "swap", n, v)
       \/ Call(t, "load", n, v)
       \/ Call(t, "rollback", n, v)
  \/ \E t \in Loaders :
       \/ SwapPeek(t) \/ SwapSave(t) \/ SwapMark(t) \/ Validate(t)
       \/ Register(t) \/ SwapSettle(t) \/ RollbackTake(t) \/ RollbackPut(t)
  \/ \E n \in Names : Unload(n) \/ RestartModule(n)

HotSwapSpec == HotSwapInit /\ [][HotSwapNext]_registryVars

-----------------------------------------------------------------------------
(* The registry's maps and tasks have their types. *)
HotSwapTypeOK ==
  /\ modules \in [Names -> Descriptor \union {NoModule}]
  /\ previous \in [Names -> Descriptor \union {NoModule}]
  /\ \A t \in Loaders : loader[t].pc \in {"idle", "swap", "peeked", "marking", "load",
                       "registering", "settling", "rollback", "restoring"}
  /\ Cardinality({n \in Names : previous[n] # NoModule}) <= MaxPrevious

(* Swaps, loads, rollbacks, restarts and unloads of several callers never    *)
(* bring a version into service, or into the store that rollback restores    *)
(* from, that was not registered at the start or validated.                  *)
ServedIsVetted ==
  \A n \in Names :
    /\ Loaded(n) => <<n, modules[n].version>> \in vetted
    /\ previous[n] # NoModule => <<n, previous[n].version>> \in vetted

InFlight(n) == \E t \in Loaders : loader[t].pc # "idle" /\ loader[t].name = n

(* A module nobody works on any more is left rolling back -- unhealthy until *)
(* a restart -- only when its swap had nothing to go back to: it had found   *)
(* no module, or the saved version was evicted or taken by another rollback. *)
LeftRollingBack ==
  \A n \in Names :
    Loaded(n) /\ modules[n].status = "RollingBack" /\ ~InFlight(n) => n \in unsaved

RegistrySound == HotSwapTypeOK /\ ServedIsVetted /\ LeftRollingBack
=============================================================================
