--------------------------- MODULE ProviderRegistry ---------------------------
(***************************************************************************)
(* The registry of AI providers (backend/ai/provider_registry.rs), the     *)
(* dispatch of a prompt (backend/ai/manager.rs) and their routes           *)
(* (main.rs).                                                              *)
(*                                                                         *)
(* CUSTOM_PROVIDERS is a DashMap: a lock for readers and writers per       *)
(* shard.  ask_ai keeps the entry it found borrowed, and the shard's lock  *)
(* with it, while it awaits the provider's answer; a registration or a     *)
(* removal that meets the lock does not yield but blocks its worker        *)
(* thread, and every other step of a task needs a worker that is free.     *)
(***************************************************************************)
EXTENDS Naturals, FiniteSets

CONSTANTS
  Askers,        \* requests in flight: prompts, registrations, removals
  ProviderNames, \* names in small letters
  BuiltIn,       \* those of the built-in providers
  ShardOf,       \* the shard each name is hashed to
  Configs,       \* what a name is registered with: key, address and model
  Workers,       \* worker threads of the runtime
  Unregistered

ASSUME ProviderAssumption ==
  /\ IsFiniteSet(Askers)
  /\ BuiltIn \subseteq ProviderNames
  /\ Unregistered \notin Configs
  /\ Workers \in Nat \ {0}

VARIABLES
  custom,  \* CUSTOM_PROVIDERS
  asker    \* what each request is doing

providerVars == <<custom, asker>>

(* A name as a client spells it; in small letters or not. *)
Spellings == [name : ProviderNames, small : BOOLEAN]

AtRest          == [at |-> "rest"]
Asking(s)       == [at |-> "asking", spelled |-> s]
Calling(n, cfg) == [at |-> "calling", name |-> n, config |-> cfg]
CallingBuiltIn(n) == [at |-> "builtin", name |-> n]
Writing(n, cfg) == [at |-> "writing", name |-> n, config |-> cfg]
Blocked(n, cfg) == [at |-> "blocked", name |-> n, config |-> cfg]

ProvidersInit ==
  /\ custom = [n \in ProviderNames |-> Unregistered]
  /\ asker = [a \in Askers |-> AtRest]

(* Requests that keep a worker thread waiting for a shard. *)
BlockedAskers == {a \in Askers : asker[a].at = "blocked"}

WorkerFree == Cardinality(BlockedAskers) < Workers

(* Calls that hold the lock of n's shard. *)
Borrowers(n) ==
  {a \in Askers : asker[a].at = "calling" /\ ShardOf[asker[a].name] = ShardOf[n]}

(* A request comes in; the check of the prompt's length turns some away. *)
Submit(a) ==
  /\ asker[a] = AtRest
  /\ \/ \E s \in Spellings : asker' = [asker EXCEPT ![a] = Asking(s)]
     \/ \E n \in ProviderNames, cfg \in Configs \union {Unregistered} :
          asker' = [asker EXCEPT ![a] = Writing(n, cfg)]
  /\ UNCHANGED custom

(* The map is asked for the name as the client spelled it, and its keys are  *)
(* in small letters.                                                         *)
IsCustom(s) == s.small /\ custom[s.name] # Unregistered

AskCustom(a) ==
  /\ WorkerFree
  /\ asker[a].at = "asking"
  /\ LET s == asker[a].spelled
     IN  /\ IsCustom(s)
         /\ asker' = [asker EXCEPT ![a] = Calling(s.name, custom[s.name])]
  /\ UNCHANGED custom

(* The built-in providers' names are compared in small letters. *)
AskBuiltIn(a) ==
  /\ WorkerFree
  /\ asker[a].at = "asking"
  /\ LET s == asker[a].spelled
     IN  /\ ~IsCustom(s) /\ s.name \in BuiltIn
         /\ asker' = [asker EXCEPT ![a] = CallingBuiltIn(s.name)]
  /\ UNCHANGED custom

AskUnknown(a) ==
  /\ WorkerFree
  /\ asker[a].at = "asking"
  /\ LET s == asker[a].spelled IN ~IsCustom(s) /\ s.name \notin BuiltIn
  /\ asker' = [asker EXCEPT ![a] = AtRest]
  /\ UNCHANGED custom

(* The provider's answer, its error, or the client's disconnect: the task is *)
(* resumed or dropped by a worker, and the entry is no longer borrowed.      *)
CallEnds(a) ==
  /\ WorkerFree
  /\ asker[a].at \in {"calling", "builtin"}
  /\ asker' = [asker EXCEPT ![a] = AtRest]
  /\ UNCHANGED custom

(* A removal is the registration of nothing. *)
Write(a) ==
  /\ custom' = [custom EXCEPT ![asker[a].name] = asker[a].config]
  /\ asker' = [asker EXCEPT ![a] = AtRest]

(* Mutant: the entry is copied before the call, so nothing is borrowed. *)
WriteUnderCalls(a) ==
  /\ WorkerFree
  /\ asker[a].at = "writing"
  /\ Write(a)

WriteAtOnce(a) ==
  /\ WorkerFree
  /\ asker[a].at = "writing"
  /\ Borrowers(asker[a].name) = {}
  /\ Write(a)

BlockOnShard(a) ==
  /\ WorkerFree
  /\ asker[a].at = "writing"
  /\ Borrowers(asker[a].name) # {}
  /\ asker' = [asker EXCEPT ![a] = Blocked(asker[a].name, asker[a].config)]
  /\ UNCHANGED custom

(* The blocked thread gets the lock; it is itself the worker it needs. *)
WriteAfterWait(a) ==
  /\ asker[a].at = "blocked"
  /\ Borrowers(asker[a].name) = {}
  /\ Write(a)

ProvidersNext ==
  \E a \in Askers :
    \/ Submit(a)
    \/ AskCustom(a) \/ AskBuiltIn(a) \/ AskUnknown(a) \/ CallEnds(a)
    \/ WriteAtOnce(a) \/ BlockOnShard(a) \/ WriteAfterWait(a)

ProvidersSpec == ProvidersInit /\ [][ProvidersNext]_providerVars

-----------------------------------------------------------------------------
Entry == Configs \union {Unregistered}

Task ==
  {AtRest} \union {Asking(s) : s \in Spellings}
  \union {Calling(n, cfg) : n \in ProviderNames, cfg \in Configs}
  \union {CallingBuiltIn(n) : n \in ProviderNames}
  \union {Writing(n, cfg) : n \in ProviderNames, cfg \in Entry}
  \union {Blocked(n, cfg) : n \in ProviderNames, cfg \in Entry}

ProvidersTypeOK == custom \in [ProviderNames -> Entry] /\ asker \in [Askers -> Task]

(* What a call is made with is what the registry holds for as long as the    *)
(* call lasts: once a removal or a new registration has returned, nothing    *)
(* still talks to the old provider.                                          *)
CallsUseTheEntry ==
  \A a \in Askers : asker[a].at = "calling" => asker[a].config = custom[asker[a].name]

(* No more requests are blocked than there are threads to block. *)
BlockedAreWorkers == Cardinality(BlockedAskers) <= Workers

(* All of it. *)
ProvidersSound == ProvidersTypeOK /\ CallsUseTheEntry /\ BlockedAreWorkers

(* Every worker waits for a shard that a call under way has borrowed.        *)
Hung == ~WorkerFree /\ \A a \in BlockedAskers : Borrowers(asker[a].name) # {}
=============================================================================
