-------------------------- MODULE Operations_proofs --------------------------
(***************************************************************************)
(* Around the server's operation. Nonces, for any tasks and bounds. The    *)
(* two registries of the runtime: the provider registry, for any names,    *)
(* shards, requests and workers, and the module registry, for any modules, *)
(* versions and callers. The Copilot, whose probes go through the module   *)
(* registry; the dashboard's backend; and the fleet's records.             *)
(***************************************************************************)
EXTENDS NonceManager, ProviderRegistry, CopilotAccess, DashboardBackend, Fleet,
        FiniteSetTheorems, SequenceTheorems, TLAPS

-----------------------------------------------------------------------------
(* Nonces.                                                                   *)

(* The row, the cache and what every call holds stay well typed, also when   *)
(* calls overlap.                                                            *)
THEOREM NonceTypeCorrect == Spec => []TypeOK
<1>1. Init => TypeOK
  BY DEF Init, TypeOK, Idle
<1>2. TypeOK /\ [Next]_vars => TypeOK'
  <2> SUFFICES ASSUME TypeOK, [Next]_vars PROVE TypeOK'
    OBVIOUS
  <2>1. ASSUME NEW t \in Tasks, NEW op \in {"next", "sync", "reset"}, NEW value \in Nat,
               Begin(t, op, value)
        PROVE  TypeOK'
    BY <2>1 DEF Begin, TypeOK
  <2>2. ASSUME NEW t \in Tasks, NextNonce(t)
        PROVE  TypeOK'
    <3>1. cache + 1 \in Nat
      BY DEF TypeOK
    <3>2. QED
      BY <2>1, <2>2, <3>1 DEF NextNonce
  <2>3. ASSUME NEW t \in Tasks, NEW n \in ChainNonces, SyncWithChain(t, n)
        PROVE  TypeOK'
    BY <2>1, <2>3, NonceAssumption DEF SyncWithChain
  <2>4. ASSUME NEW t \in Tasks, EmergencyReset(t)
        PROVE  TypeOK'
    BY <2>1, <2>4 DEF EmergencyReset
  <2>5. ASSUME NEW t \in Tasks, Persist(t)
        PROVE  TypeOK'
    BY <2>5 DEF Persist, SinceReset, TypeOK
  <2>6. ASSUME NEW t \in Tasks, PersistFails(t)
        PROVE  TypeOK'
    BY <2>6 DEF PersistFails, TypeOK
  <2>7. ASSUME NEW t \in Tasks, Publish(t)
        PROVE  TypeOK'
    <3>1. task[t].value \in Nat
      BY DEF TypeOK
    <3>2. issued' \in Seq(Nat)
      BY <2>7, <3>1 DEF Publish, TypeOK
    <3>3. QED
      BY <2>7, <3>1, <3>2 DEF Publish, TypeOK
  <2>8. CASE Restart
    BY <2>8 DEF Restart, TypeOK, Idle
  <2>9. CASE UNCHANGED vars
    BY <2>9 DEF vars, TypeOK
  <2>10. QED
    BY <2>2, <2>3, <2>4, <2>5, <2>6, <2>7, <2>8, <2>9 DEF Next
<1>3. QED
  BY <1>1, <1>2, PTL DEF Spec

-----------------------------------------------------------------------------
(* What keeps a serial manager right: a call sets a nonce above everything   *)
(* issued, or resets, and between the two writes of a call the row already   *)
(* holds the value it sets.                                                  *)
AtMostOne ==
  \A t, u \in Tasks : task[t].pc # "idle" /\ task[u].pc # "idle" => t = u

Ahead ==
  /\ \A i \in DOMAIN issued : issued[i] <= cache /\ issued[i] <= db
  /\ \A t \in Tasks :
       /\ task[t].pc = "persist" => cache = db
       /\ task[t].pc = "publish" => task[t].value = db
       /\ task[t].pc # "idle" /\ task[t].op # "reset" => task[t].value > cache
       /\ task[t].pc = "publish" /\ task[t].op = "reset" => issued = <<>>

IInv == TypeOK /\ AtMostOne /\ Ahead /\ CachePersisted /\ IssuedOnce

LEMMA SerialStep ==
  ASSUME Serial, IInv, TypeOK', [Next]_vars
  PROVE  IInv'
<1>0. /\ db \in Nat /\ cache \in Nat
      /\ \A t \in Tasks : task[t].value \in Nat
      /\ issued \in Seq(Nat) /\ DOMAIN issued = 1..Len(issued) /\ Len(issued) \in Nat
      /\ \A i \in DOMAIN issued : issued[i] \in Nat
  BY DEF IInv, TypeOK
<1>1. ASSUME NEW t \in Tasks, NEW op, NEW value \in Nat,
             op # "reset" => value > cache,
             Begin(t, op, value)
      PROVE  IInv'
  <2>1. Quiet /\ cache = db
    BY <1>1 DEF Begin, IInv, CachePersisted
  <2>2. /\ task'[t].pc = "persist" /\ task'[t].value = value /\ task'[t].op = op
        /\ \A u \in Tasks : u # t => task'[u] = task[u]
        /\ UNCHANGED <<db, cache, issued>>
    BY <1>1 DEF Begin, IInv, TypeOK
  <2>3. AtMostOne' /\ ~Quiet'
    BY <2>1, <2>2 DEF Quiet, AtMostOne
  <2>4. Ahead'
    BY <1>0, <1>1, <2>1, <2>2 DEF IInv, Ahead, Quiet
  <2>5. IssuedOnce'
    BY <2>2 DEF IInv, IssuedOnce
  <2>6. QED
    BY <2>3, <2>4, <2>5 DEF IInv, CachePersisted
<1>2. ASSUME NEW t \in Tasks, NextNonce(t)
      PROVE  IInv'
  BY <1>0, <1>1, <1>2 DEF NextNonce
<1>3. ASSUME NEW t \in Tasks, NEW n \in ChainNonces, SyncWithChain(t, n)
      PROVE  IInv'
  BY <1>1, <1>3, NonceAssumption DEF SyncWithChain
<1>4. ASSUME NEW t \in Tasks, EmergencyReset(t)
      PROVE  IInv'
  BY <1>1, <1>4 DEF EmergencyReset
<1>5. ASSUME NEW t \in Tasks, Persist(t)
      PROVE  IInv'
  <2>1. /\ task'[t].pc = "publish" /\ task'[t].value = task[t].value
        /\ task'[t].op = task[t].op
        /\ \A u \in Tasks : u # t => task'[u] = task[u] /\ task[u].pc = "idle"
        /\ task[t].pc = "persist" /\ db' = task[t].value
        /\ UNCHANGED cache
    BY <1>5 DEF Persist, IInv, TypeOK, AtMostOne
  <2>2. AtMostOne' /\ ~Quiet'
    BY <2>1 DEF AtMostOne, Quiet
  <2>3. CASE task[t].op = "reset"
    <3>1. issued' = <<>> /\ DOMAIN issued' = {}
      BY <1>5, <2>3 DEF Persist, SinceReset
    <3>2. Ahead' /\ IssuedOnce'
      BY <2>1, <2>3, <3>1 DEF Ahead, IssuedOnce
    <3>3. QED
      BY <2>2, <3>2 DEF IInv, CachePersisted
  <2>4. CASE task[t].op # "reset"
    <3>1. issued' = issued
      BY <1>5, <2>4 DEF Persist, SinceReset
    <3>2. Ahead'
      BY <1>0, <2>1, <2>4, <3>1 DEF IInv, Ahead
    <3>3. IssuedOnce'
      BY <3>1 DEF IInv, IssuedOnce
    <3>4. QED
      BY <2>2, <3>2, <3>3 DEF IInv, CachePersisted
  <2>5. QED
    BY <2>3, <2>4
<1>6. ASSUME NEW t \in Tasks, PersistFails(t)
      PROVE  IInv'
  <2>1. /\ \A u \in Tasks : task'[u].pc = "idle"
        /\ task[t].pc = "persist"
        /\ UNCHANGED <<db, cache, issued>>
    BY <1>6 DEF PersistFails, IInv, TypeOK, AtMostOne
  <2>2. QED
    BY <1>0, <2>1 DEF IInv, AtMostOne, Ahead, CachePersisted, IssuedOnce
<1>7. ASSUME NEW t \in Tasks, Publish(t)
      PROVE  IInv'
  <2>1. /\ \A u \in Tasks : task'[u].pc = "idle"
        /\ task[t].pc = "publish" /\ cache' = task[t].value /\ UNCHANGED db
        /\ cache' = db'
    BY <1>7 DEF Publish, IInv, TypeOK, AtMostOne, Ahead
  <2>2. \A i \in DOMAIN issued : issued[i] <= db
    BY DEF IInv, Ahead
  <2>3. CASE issued' = issued
    BY <1>0, <2>1, <2>2, <2>3
    DEF IInv, AtMostOne, Ahead, CachePersisted, IssuedOnce
  <2>4. CASE issued' = Append(issued, cache') /\ task[t].op # "reset"
    <3>1. cache < cache'
      BY <1>0, <2>1, <2>4 DEF IInv, Ahead
    <3>2. /\ DOMAIN issued' = 1..(Len(issued) + 1)
          /\ issued'[Len(issued) + 1] = cache'
          /\ \A i \in DOMAIN issued : issued'[i] = issued[i]
          /\ cache' \in Nat
      BY <2>4, <1>0, <2>1
    <3>3. \A i \in DOMAIN issued : issued[i] < cache'
      BY <1>0, <3>1, <3>2 DEF IInv, Ahead
    <3>4. IssuedOnce' /\ \A i \in DOMAIN issued' : issued'[i] <= cache'
      BY <1>0, <3>2, <3>3 DEF IInv, IssuedOnce
    <3>5. QED
      BY <2>1, <3>4 DEF IInv, AtMostOne, Ahead, CachePersisted
  <2>5. QED
    BY <1>7, <2>3, <2>4 DEF Publish
<1>8. CASE Restart
  <2>1. /\ \A u \in Tasks : task'[u].pc = "idle"
        /\ cache' = db /\ UNCHANGED <<db, issued>>
    BY <1>8 DEF Restart, Idle
  <2>2. QED
    BY <1>0, <2>1 DEF IInv, AtMostOne, Ahead, CachePersisted, IssuedOnce
<1>9. CASE UNCHANGED vars
  BY <1>9 DEF vars, IInv, AtMostOne, Ahead, CachePersisted, IssuedOnce, Quiet, TypeOK
<1>10. QED
  BY <1>2, <1>3, <1>4, <1>5, <1>6, <1>7, <1>8, <1>9 DEF Next

LEMMA SerialInvariant ==
  ASSUME Serial
  PROVE  Spec => []IInv
<1>1. Init => IInv
  <2> SUFFICES ASSUME Init PROVE IInv
    OBVIOUS
  <2>1. TypeOK
    BY DEF Init, TypeOK, Idle
  <2>2. DOMAIN issued = {} /\ \A t \in Tasks : task[t].pc = "idle"
    BY DEF Init, Idle
  <2>3. QED
    BY <2>1, <2>2 DEF Init, IInv, AtMostOne, Ahead, CachePersisted, IssuedOnce
<1>2. IInv /\ TypeOK' /\ [Next]_vars => IInv'
  BY SerialStep
<1>3. QED
  BY <1>1, <1>2, NonceTypeCorrect, PTL DEF Spec

(* While calls do not overlap, next_nonce never returns a nonce twice        *)
(* between two resets, through failed writes and restarts.                   *)
THEOREM SerialIssuesOnce ==
  ASSUME Serial
  PROVE  Spec => []IssuedOnce
<1>1. IInv => IssuedOnce
  BY DEF IInv
<1>2. QED
  BY <1>1, SerialInvariant, PTL

(* ... and between calls a restart would load the nonce the cache holds.     *)
THEOREM SerialPersisted ==
  ASSUME Serial
  PROVE  Spec => []CachePersisted
<1>1. IInv => CachePersisted
  BY DEF IInv
<1>2. QED
  BY <1>1, SerialInvariant, PTL

(* The two together: the nonces are unique, and what is cached is stored.    *)
THEOREM SerialSound ==
  ASSUME Serial
  PROVE  Spec => []NonceSound
<1>1. TypeOK /\ IssuedOnce /\ CachePersisted => NonceSound
  BY DEF NonceSound
<1>2. QED
  BY <1>1, NonceTypeCorrect, SerialIssuesOnce, SerialPersisted, PTL

-----------------------------------------------------------------------------
(* The provider registry.                                                   *)

(* The place of a task tells what it is. *)
LEMMA TaskShape ==
  ASSUME NEW t \in Task
  PROVE  /\ t.at = "asking" => \E s \in Spellings : t = Asking(s)
         /\ t.at = "calling" => \E n \in ProviderNames, cfg \in Configs : t = Calling(n, cfg)
         /\ t.at = "writing" => \E n \in ProviderNames, cfg \in Entry : t = Writing(n, cfg)
         /\ t.at = "blocked" => \E n \in ProviderNames, cfg \in Entry : t = Blocked(n, cfg)
BY DEF Task, AtRest, Asking, Calling, CallingBuiltIn, Writing, Blocked

(* A step of one request that blocks nobody leaves as many workers. *)
LEMMA FewerBlocked ==
  ASSUME ProvidersTypeOK, BlockedAreWorkers,
         NEW a \in Askers, NEW t, t.at # "blocked",
         asker' = [asker EXCEPT ![a] = t]
  PROVE  BlockedAreWorkers'
<1>1. BlockedAskers' \subseteq BlockedAskers
  BY DEF BlockedAskers, ProvidersTypeOK
<1>2. IsFiniteSet(BlockedAskers)
  BY ProviderAssumption, FS_Subset DEF BlockedAskers
<1>3. Cardinality(BlockedAskers') <= Cardinality(BlockedAskers)
  BY <1>1, <1>2, FS_Subset
<1>4. Cardinality(BlockedAskers) \in Nat /\ Cardinality(BlockedAskers') \in Nat
  BY <1>1, <1>2, FS_Subset, FS_CardinalityType
<1> QED
  BY <1>3, <1>4, ProviderAssumption DEF BlockedAreWorkers

(* A write comes when nobody has borrowed the shard, so no call is under way *)
(* with the entry it replaces.                                               *)
LEMMA WriteKeeps ==
  ASSUME ProvidersSound, NEW a \in Askers, Borrowers(asker[a].name) = {},
         asker[a].at \in {"writing", "blocked"}, Write(a)
  PROVE  ProvidersSound'
<1>1. PICK n \in ProviderNames, cfg \in Entry : asker[a].name = n /\ asker[a].config = cfg
  BY TaskShape DEF ProvidersSound, ProvidersTypeOK, Writing, Blocked
<1>2. /\ custom' = [custom EXCEPT ![n] = cfg]
      /\ asker' = [asker EXCEPT ![a] = AtRest]
  BY <1>1 DEF Write
<1>3. AtRest.at = "rest" /\ AtRest \in Task
  BY DEF AtRest, Task
<1>4. ProvidersTypeOK'
  BY <1>1, <1>2, <1>3 DEF ProvidersSound, ProvidersTypeOK
<1>5. CallsUseTheEntry'
  <2>1. SUFFICES ASSUME NEW b \in Askers, asker'[b].at = "calling"
                 PROVE  asker'[b].config = custom'[asker'[b].name]
    BY DEF CallsUseTheEntry
  <2>2. b # a /\ asker'[b] = asker[b]
    BY <1>2, <1>3, <2>1 DEF ProvidersSound, ProvidersTypeOK
  <2>3. asker[b].name # n
    BY <1>1, <2>1, <2>2 DEF Borrowers
  <2>4. asker[b].name \in ProviderNames
    BY <2>1, <2>2, TaskShape DEF ProvidersSound, ProvidersTypeOK, Calling
  <2> QED
    BY <1>2, <2>1, <2>2, <2>3, <2>4 DEF ProvidersSound, ProvidersTypeOK, CallsUseTheEntry
<1>6. BlockedAreWorkers'
  BY <1>2, <1>3, FewerBlocked DEF ProvidersSound
<1> QED
  BY <1>4, <1>5, <1>6 DEF ProvidersSound

(* A step that leaves the registry alone and starts no call from anything    *)
(* else than the registry's entry.                                           *)
LEMMA TaskKeeps ==
  ASSUME ProvidersSound, NEW a \in Askers, NEW t \in Task, UNCHANGED custom,
         t.at # "blocked", t.at = "calling" => t.config = custom[t.name],
         asker' = [asker EXCEPT ![a] = t]
  PROVE  ProvidersSound'
<1>1. ProvidersTypeOK'
  BY DEF ProvidersSound, ProvidersTypeOK
<1>2. CallsUseTheEntry'
  BY DEF ProvidersSound, ProvidersTypeOK, CallsUseTheEntry
<1>3. BlockedAreWorkers'
  BY FewerBlocked DEF ProvidersSound
<1> QED
  BY <1>1, <1>2, <1>3 DEF ProvidersSound

(* The request that blocks had a worker to block. *)
LEMMA BlockKeeps ==
  ASSUME ProvidersSound, NEW a \in Askers, BlockOnShard(a)
  PROVE  ProvidersSound'
<1>1. PICK n \in ProviderNames, cfg \in Entry : asker[a] = Writing(n, cfg)
  BY TaskShape DEF ProvidersSound, ProvidersTypeOK, BlockOnShard
<1>2. asker' = [asker EXCEPT ![a] = Blocked(n, cfg)] /\ UNCHANGED custom
  BY <1>1 DEF BlockOnShard, Writing
<1>3. Blocked(n, cfg) \in Task /\ Blocked(n, cfg).at = "blocked"
  BY DEF Task, Blocked
<1>4. ProvidersTypeOK'
  BY <1>2, <1>3 DEF ProvidersSound, ProvidersTypeOK
<1>5. CallsUseTheEntry'
  BY <1>2, <1>3 DEF ProvidersSound, ProvidersTypeOK, CallsUseTheEntry
<1>6. BlockedAreWorkers'
  <2>1. BlockedAskers' = BlockedAskers \union {a}
    BY <1>2, <1>3 DEF BlockedAskers, ProvidersSound, ProvidersTypeOK
  <2>2. IsFiniteSet(BlockedAskers)
    BY ProviderAssumption, FS_Subset DEF BlockedAskers
  <2>3. a \notin BlockedAskers
    BY DEF BlockedAskers, BlockOnShard
  <2>4. Cardinality(BlockedAskers') = Cardinality(BlockedAskers) + 1
    BY <2>1, <2>2, <2>3, FS_AddElement
  <2>5. Cardinality(BlockedAskers) \in Nat
    BY <2>2, FS_CardinalityType
  <2>6. Cardinality(BlockedAskers) < Workers
    BY DEF BlockOnShard, WorkerFree
  <2> QED
    BY <2>4, <2>5, <2>6, ProviderAssumption DEF BlockedAreWorkers
<1> QED
  BY <1>4, <1>5, <1>6 DEF ProvidersSound

(* Whatever is hashed to whichever shard: while a call to a custom provider  *)
(* lasts, the registry holds the entry it was made with (ask_ai,             *)
(* register_provider and unregister_provider), and no more requests block    *)
(* than there are workers.                                                   *)
THEOREM ProvidersStaySound == ProvidersSpec => []ProvidersSound
<1>1. ProvidersInit => ProvidersSound
  <2> SUFFICES ASSUME ProvidersInit PROVE ProvidersSound
    OBVIOUS
  <2>1. AtRest \in Task /\ AtRest.at = "rest"
    BY DEF Task, AtRest
  <2>2. ProvidersTypeOK /\ CallsUseTheEntry
    BY <2>1 DEF ProvidersInit, ProvidersTypeOK, CallsUseTheEntry, Entry
  <2>3. BlockedAskers = {}
    BY <2>1 DEF ProvidersInit, BlockedAskers
  <2>4. BlockedAreWorkers
    BY <2>3, FS_EmptySet, ProviderAssumption DEF BlockedAreWorkers
  <2> QED
    BY <2>2, <2>4 DEF ProvidersSound
<1>2. ProvidersSound /\ [ProvidersNext]_providerVars => ProvidersSound'
  <2> SUFFICES ASSUME ProvidersSound, [ProvidersNext]_providerVars
               PROVE  ProvidersSound'
    OBVIOUS
  <2>0. /\ AtRest \in Task /\ AtRest.at = "rest"
        /\ \A s \in Spellings : Asking(s) \in Task /\ Asking(s).at = "asking"
        /\ \A n \in ProviderNames : CallingBuiltIn(n) \in Task /\ CallingBuiltIn(n).at = "builtin"
        /\ \A n \in ProviderNames, cfg \in Entry :
             Writing(n, cfg) \in Task /\ Writing(n, cfg).at = "writing"
    <3>1. AtRest \in Task /\ AtRest.at = "rest"
      BY DEF Task, AtRest
    <3>2. ASSUME NEW s \in Spellings
          PROVE  Asking(s) \in Task /\ Asking(s).at = "asking"
      BY DEF Task, Asking
    <3>3. ASSUME NEW n \in ProviderNames
          PROVE  CallingBuiltIn(n) \in Task /\ CallingBuiltIn(n).at = "builtin"
      BY DEF Task, CallingBuiltIn
    <3>4. ASSUME NEW n \in ProviderNames, NEW cfg \in Entry
          PROVE  Writing(n, cfg) \in Task /\ Writing(n, cfg).at = "writing"
      BY DEF Task, Writing
    <3> QED
      BY <3>1, <3>2, <3>3, <3>4
  <2>1. ASSUME NEW a \in Askers, Submit(a) PROVE ProvidersSound'
    BY <2>0, <2>1, TaskKeeps DEF Submit, Entry
  <2>2. ASSUME NEW a \in Askers, AskCustom(a) PROVE ProvidersSound'
    <3>1. PICK s \in Spellings : asker[a] = Asking(s)
      BY <2>2, TaskShape DEF ProvidersSound, ProvidersTypeOK, AskCustom
    <3>2. asker[a].spelled = s /\ s.name \in ProviderNames
      BY <3>1 DEF Asking, Spellings
    <3>3. custom[s.name] \in Configs
      BY <2>2, <3>2 DEF AskCustom, IsCustom, ProvidersSound, ProvidersTypeOK, Entry
    <3> DEFINE t == Calling(s.name, custom[s.name])
    <3>4. t \in Task /\ t.at = "calling" /\ t.config = custom[t.name]
      BY <3>2, <3>3 DEF Task, Calling
    <3>5. asker' = [asker EXCEPT ![a] = t] /\ UNCHANGED custom
      BY <2>2, <3>2 DEF AskCustom
    <3> QED
      BY <3>4, <3>5, TaskKeeps
  <2>3. ASSUME NEW a \in Askers, AskBuiltIn(a) PROVE ProvidersSound'
    <3>1. PICK s \in Spellings : asker[a] = Asking(s)
      BY <2>3, TaskShape DEF ProvidersSound, ProvidersTypeOK, AskBuiltIn
    <3>2. asker[a].spelled = s /\ s.name \in ProviderNames
      BY <3>1 DEF Asking, Spellings
    <3> QED
      BY <2>0, <2>3, <3>2, TaskKeeps DEF AskBuiltIn
  <2>4. ASSUME NEW a \in Askers, AskUnknown(a) \/ CallEnds(a) PROVE ProvidersSound'
    BY <2>0, <2>4, TaskKeeps DEF AskUnknown, CallEnds
  <2>5. ASSUME NEW a \in Askers, WriteAtOnce(a) \/ WriteAfterWait(a) PROVE ProvidersSound'
    BY <2>5, WriteKeeps DEF WriteAtOnce, WriteAfterWait
  <2>6. ASSUME NEW a \in Askers, BlockOnShard(a) PROVE ProvidersSound'
    BY <2>6, BlockKeeps
  <2>7. CASE UNCHANGED providerVars
    BY <2>7 DEF providerVars, ProvidersSound, ProvidersTypeOK, CallsUseTheEntry,
                BlockedAreWorkers, BlockedAskers
  <2> QED
    BY <2>1, <2>2, <2>3, <2>4, <2>5, <2>6, <2>7 DEF ProvidersNext
<1> QED
  BY <1>1, <1>2, PTL DEF ProvidersSpec

(* Once every worker waits for a borrowed shard, the server stays so: the    *)
(* calls that have borrowed need a worker to end (the entry borrowed across  *)
(* the await in ask_ai, manager.rs).                                         *)
THEOREM HungForEver == ProvidersSpec => [][Hung => Hung']_providerVars
<1>1. ProvidersSound /\ [ProvidersNext]_providerVars => [Hung => Hung']_providerVars
  <2> SUFFICES ASSUME ProvidersSound, ProvidersNext, Hung
               PROVE  Hung'
    OBVIOUS
  <2>1. PICK a \in Askers : Submit(a)
    BY DEF ProvidersNext, AskCustom, AskBuiltIn, AskUnknown, CallEnds, WriteAtOnce,
           BlockOnShard, WriteAfterWait, Hung, BlockedAskers
  <2>2. PICK t : /\ asker' = [asker EXCEPT ![a] = t]
                 /\ t.at \notin {"blocked", "calling"}
    <3>1. \A s : Asking(s).at = "asking"
      BY DEF Asking
    <3>2. \A n, cfg : Writing(n, cfg).at = "writing"
      BY DEF Writing
    <3>3. CASE \E s \in Spellings : asker' = [asker EXCEPT ![a] = Asking(s)]
      <4>1. PICK s : asker' = [asker EXCEPT ![a] = Asking(s)]
        BY <3>3
      <4>2. Asking(s).at \notin {"blocked", "calling"}
        BY <3>1
      <4> QED
        BY <4>1, <4>2
    <3>4. CASE \E n, cfg : asker' = [asker EXCEPT ![a] = Writing(n, cfg)]
      <4>1. PICK n, cfg : asker' = [asker EXCEPT ![a] = Writing(n, cfg)]
        BY <3>4
      <4>2. Writing(n, cfg).at \notin {"blocked", "calling"}
        BY <3>2
      <4> QED
        BY <4>1, <4>2
    <3> QED
      BY <2>1, <3>3, <3>4 DEF Submit
  <2>3. asker[a].at \notin {"blocked", "calling"}
    BY <2>1 DEF Submit, AtRest
  <2>4. \A b \in Askers :
          IF b = a THEN asker'[b].at \notin {"blocked", "calling"} ELSE asker'[b] = asker[b]
    BY <2>2 DEF ProvidersSound, ProvidersTypeOK
  <2>5. BlockedAskers' = BlockedAskers
    BY <2>3, <2>4 DEF BlockedAskers
  <2>6. \A n : Borrowers(n)' = Borrowers(n)
    BY <2>3, <2>4 DEF Borrowers
  <2>7. \A b \in BlockedAskers : asker'[b] = asker[b]
    BY <2>3, <2>4 DEF BlockedAskers
  <2> QED
    BY <2>5, <2>6, <2>7 DEF Hung, WorkerFree
<1> QED
  BY <1>1, ProvidersStaySound, PTL DEF ProvidersSpec

-----------------------------------------------------------------------------
(* The module registry.                                                      *)

(* A caller at work knows its module, and a version to bring in. *)
Steps == {"swap", "peeked", "marking", "load", "registering", "settling",
          "rollback", "restoring"}

Working == [pc : Steps, name : Names, version : Versions, swap : BOOLEAN]

Busy(t) == loader[t] \in Working

Saved == {n \in Names : previous[n] # NoModule}

RegistryTyped ==
  /\ modules \in [Names -> Descriptor \union {NoModule}]
  /\ previous \in [Names -> Descriptor \union {NoModule}]
  /\ loader \in [Loaders -> Working \union {Resting}]
  /\ Cardinality(Saved) <= MaxPrevious

(* A version about to be registered or restored has been vetted. *)
AboutToServe ==
  \A t \in Loaders : loader[t].pc \in {"registering", "restoring"} =>
    <<loader[t].name, loader[t].version>> \in vetted

(* A swap on its way can go back to a saved version, unless it found none or *)
(* lost it; between its look at the module and the save nobody unloads it;   *)
(* and a module marked as rolling back has a swap on its way.                *)
Swapping(t, n) == loader[t].pc # "idle" /\ loader[t].swap /\ loader[t].name = n

CanGoBack ==
  \A t \in Loaders :
    /\ loader[t].pc = "peeked" => Loaded(loader[t].name)
    /\ loader[t].pc \in {"marking", "load", "registering", "settling", "rollback"}
         /\ loader[t].swap =>
         previous[loader[t].name] # NoModule \/ loader[t].name \in unsaved
    /\ loader[t].pc \in {"swap", "peeked", "marking", "settling"} => loader[t].swap

MarkedHasSwap ==
  \A n \in Names : Loaded(n) /\ modules[n].status = "RollingBack" =>
    n \in unsaved \/ \E t \in Loaders : Swapping(t, n)

RegistryInv ==
  RegistryTyped /\ ServedIsVetted /\ AboutToServe /\ CanGoBack /\ MarkedHasSwap

LEMMA RegistryConstants ==
  /\ IsFiniteSet(Names) /\ MaxPrevious \in Nat
  /\ NoModule \notin Descriptor
  /\ \A v \in Versions : Active(v) \in Descriptor /\ Active(v).version = v
                         /\ Active(v).status = "Active" /\ Active(v) # NoModule
BY HotSwapAssumption DEF Descriptor, Active

(* Forgetting saved versions keeps their number within the limit. *)
LEMMA FewerSaved ==
  ASSUME NEW S \in SUBSET Names, NEW T \in SUBSET S, Cardinality(S) <= MaxPrevious
  PROVE  Cardinality(T) <= MaxPrevious
<1>1. IsFiniteSet(S)
  BY RegistryConstants, FS_Subset
<1>2. IsFiniteSet(T) /\ Cardinality(T) <= Cardinality(S)
  BY <1>1, FS_Subset
<1>3. Cardinality(T) \in Nat /\ Cardinality(S) \in Nat
  BY <1>1, <1>2, FS_CardinalityType
<1>4. QED
  BY <1>2, <1>3, RegistryConstants

LEMMA RegistryInit ==
  ASSUME HotSwapInit
  PROVE  RegistryInv
<1>1. /\ \A n \in Names : previous[n] = NoModule
      /\ \A t \in Loaders : loader[t] = Resting
      /\ previous \in [Names -> Descriptor \union {NoModule}]
      /\ loader \in [Loaders -> Working \union {Resting}]
      /\ modules \in [Names -> {Active(v) : v \in Versions} \union {NoModule}]
  BY DEF HotSwapInit
<1>2. Saved = {}
  BY <1>1 DEF Saved
<1>3. Cardinality(Saved) <= MaxPrevious
  BY <1>2, FS_EmptySet, RegistryConstants
<1>4. \A n \in Names : modules[n] = NoModule \/ \E v \in Versions : modules[n] = Active(v)
  BY <1>1
<1>5. modules \in [Names -> Descriptor \union {NoModule}]
  BY <1>1, RegistryConstants
<1>6. \A t \in Loaders : loader[t].pc = "idle"
  BY <1>1 DEF Resting
<1>7. ServedIsVetted
  BY <1>1 DEF HotSwapInit, ServedIsVetted, Loaded
<1>8. MarkedHasSwap
  BY <1>4, RegistryConstants DEF MarkedHasSwap, Loaded
<1>9. QED
  BY <1>1, <1>3, <1>5, <1>6, <1>7, <1>8
     DEF RegistryInv, RegistryTyped, AboutToServe, CanGoBack

(* A caller that goes on keeps its module, one that returns forgets it. *)
LEMMA AtWork ==
  ASSUME RegistryTyped, NEW t \in Loaders, loader[t].pc # "idle"
  PROVE  /\ loader[t] \in Working /\ loader[t].name \in Names
         /\ loader[t].version \in Versions /\ loader[t].swap \in BOOLEAN
BY DEF RegistryTyped, Resting, Working

LEMMA GoesOn ==
  ASSUME RegistryTyped, NEW t \in Loaders, loader[t].pc # "idle", NEW pc \in Steps,
         GoTo(t, pc)
  PROVE  /\ loader' \in [Loaders -> Working \union {Resting}]
         /\ loader'[t].pc = pc /\ loader'[t].name = loader[t].name
         /\ loader'[t].version = loader[t].version /\ loader'[t].swap = loader[t].swap
         /\ \A u \in Loaders : u # t => loader'[u] = loader[u]
<1>1. loader[t] \in Working
  BY AtWork
<1>2. /\ [loader[t] EXCEPT !.pc = pc] \in Working
      /\ [loader[t] EXCEPT !.pc = pc].pc = pc
      /\ [loader[t] EXCEPT !.pc = pc].name = loader[t].name
      /\ [loader[t] EXCEPT !.pc = pc].version = loader[t].version
      /\ [loader[t] EXCEPT !.pc = pc].swap = loader[t].swap
  BY <1>1 DEF Working
<1>3. loader' = [loader EXCEPT ![t] = [loader[t] EXCEPT !.pc = pc]]
  BY DEF GoTo
<1>4. QED
  BY <1>2, <1>3 DEF RegistryTyped

LEMMA Returns ==
  ASSUME RegistryTyped, NEW t \in Loaders, Return(t)
  PROVE  /\ loader' \in [Loaders -> Working \union {Resting}]
         /\ loader'[t].pc = "idle"
         /\ \A u \in Loaders : u # t => loader'[u] = loader[u]
BY DEF RegistryTyped, Return, Resting

(* A caller that only moves on keeps the invariant, if its new place is one  *)
(* it may be in.                                                             *)
LEMMA MovesOn ==
  ASSUME RegistryInv, NEW t \in Loaders, loader[t].pc # "idle", NEW pc \in Steps,
         GoTo(t, pc), UNCHANGED <<modules, previous>>,
         vetted \subseteq vetted', unsaved \subseteq unsaved',
         pc \in {"registering", "restoring"} =>
           <<loader[t].name, loader[t].version>> \in vetted',
         pc = "peeked" => Loaded(loader[t].name),
         pc \in {"swap", "peeked", "marking", "settling"} => loader[t].swap,
         pc \in {"marking", "load", "registering", "settling", "rollback"} /\ loader[t].swap
           => previous[loader[t].name] # NoModule \/ loader[t].name \in unsaved'
  PROVE  RegistryInv'
<1>1. RegistryTyped
  BY DEF RegistryInv
<1>2. /\ loader' \in [Loaders -> Working \union {Resting}]
      /\ loader'[t].pc = pc /\ loader'[t].name = loader[t].name
      /\ loader'[t].version = loader[t].version /\ loader'[t].swap = loader[t].swap
      /\ \A u \in Loaders : u # t => loader'[u] = loader[u]
  BY <1>1, GoesOn
<1>3. RegistryTyped'
  BY <1>1, <1>2 DEF RegistryTyped, Saved
<1>4. ServedIsVetted'
  BY DEF RegistryInv, ServedIsVetted, Loaded
<1>5. AboutToServe'
  BY <1>2 DEF RegistryInv, AboutToServe
<1>6. CanGoBack'
  BY <1>2 DEF RegistryInv, CanGoBack, Loaded
<1>7. MarkedHasSwap'
  <2>1. \A u \in Loaders, n \in Names : Swapping(u, n) => Swapping(u, n)'
    BY <1>2 DEF Swapping, Steps
  <2>2. QED
    BY <2>1 DEF RegistryInv, MarkedHasSwap, Loaded
<1>8. QED
  BY <1>3, <1>4, <1>5, <1>6, <1>7 DEF RegistryInv

(* A caller that returns keeps the invariant, if its module is not left      *)
(* rolling back.                                                             *)
LEMMA MovesOut ==
  ASSUME RegistryInv, NEW t \in Loaders, loader[t].pc # "idle",
         Return(t), UNCHANGED <<previous, vetted, unsaved>>,
         modules' \in [Names -> Descriptor \union {NoModule}],
         \A n \in Names : n # loader[t].name => modules'[n] = modules[n],
         Loaded(loader[t].name) => modules'[loader[t].name] # NoModule,
         modules'[loader[t].name] # NoModule =>
           <<loader[t].name, modules'[loader[t].name].version>> \in vetted,
         modules'[loader[t].name] # NoModule /\ modules'[loader[t].name].status = "RollingBack" =>
           \/ loader[t].name \in unsaved
           \/ /\ modules' = modules /\ ~loader[t].swap
  PROVE  RegistryInv'
<1>1. RegistryTyped /\ loader[t].name \in Names
  BY AtWork DEF RegistryInv
<1>2. /\ loader' \in [Loaders -> Working \union {Resting}]
      /\ loader'[t].pc = "idle"
      /\ \A u \in Loaders : u # t => loader'[u] = loader[u]
  BY <1>1, Returns
<1>3. RegistryTyped'
  BY <1>1, <1>2 DEF RegistryTyped, Saved
<1>4. ServedIsVetted'
  BY <1>1 DEF RegistryInv, ServedIsVetted, Loaded
<1>5. AboutToServe'
  BY <1>2 DEF RegistryInv, AboutToServe
<1>6. CanGoBack'
  <2>1. \A n \in Names : Loaded(n) => Loaded(n)'
    BY <1>1 DEF Loaded
  <2>2. \A u \in Loaders : loader[u].pc = "peeked" => loader[u].name \in Names
    BY <1>1, AtWork
  <2>3. QED
    BY <1>2, <2>1, <2>2 DEF RegistryInv, CanGoBack
<1>7. MarkedHasSwap'
  <2> SUFFICES ASSUME NEW n \in Names, Loaded(n)', modules'[n].status = "RollingBack",
                      n \notin unsaved
               PROVE  \E u \in Loaders : Swapping(u, n)'
    BY DEF MarkedHasSwap
  <2>1. modules'[n] = modules[n] /\ (n = loader[t].name => ~loader[t].swap)
    BY DEF Loaded
  <2>2. PICK u \in Loaders : Swapping(u, n)
    BY <2>1 DEF RegistryInv, MarkedHasSwap, Loaded
  <2>3. u # t
    BY <2>1, <2>2 DEF Swapping
  <2>4. QED
    BY <1>2, <2>2, <2>3 DEF Swapping
<1>8. QED
  BY <1>3, <1>4, <1>5, <1>6, <1>7 DEF RegistryInv

(* The writes a caller may make to one module. *)
LEMMA StatusWritten ==
  ASSUME RegistryTyped, NEW n \in Names, Loaded(n), NEW s \in {"Active", "RollingBack"},
         modules' = [modules EXCEPT ![n].status = s]
  PROVE  /\ modules' \in [Names -> Descriptor \union {NoModule}]
         /\ modules'[n] # NoModule /\ modules'[n].version = modules[n].version
         /\ modules'[n].status = s
         /\ \A k \in Names : k # n => modules'[k] = modules[k]
<1> DEFINE d == [modules[n] EXCEPT !.status = s]
<1>1. modules \in [Names -> Descriptor \union {NoModule}]
  BY DEF RegistryTyped
<1>2. modules[n] \in Descriptor
  BY <1>1 DEF Loaded
<1>3. d \in Descriptor /\ d.version = modules[n].version /\ d.status = s
  BY <1>2 DEF Descriptor
<1>4. d # NoModule
  BY <1>3, RegistryConstants
<1>5. modules' = [modules EXCEPT ![n] = d]
  OBVIOUS
<1> HIDE DEF d
<1>6. /\ modules' \in [Names -> Descriptor \union {NoModule}] /\ modules'[n] = d
      /\ \A k \in Names : k # n => modules'[k] = modules[k]
  BY <1>1, <1>3, <1>5
<1>7. QED
  BY <1>3, <1>4, <1>6

LEMMA ServesVersion ==
  ASSUME RegistryTyped, NEW n \in Names, NEW v \in Versions,
         modules' = [modules EXCEPT ![n] = Active(v)]
  PROVE  /\ modules' \in [Names -> Descriptor \union {NoModule}]
         /\ \A k \in Names : k # n => modules'[k] = modules[k]
         /\ modules'[n] # NoModule /\ modules'[n].status = "Active"
         /\ modules'[n].version = v
<1>1. PICK d \in Descriptor : d = Active(v) /\ d.version = v /\ d.status = "Active"
                              /\ d # NoModule
  BY RegistryConstants
<1>2. modules' = [modules EXCEPT ![n] = d]
  BY <1>1
<1>3. /\ modules' \in [Names -> Descriptor \union {NoModule}] /\ modules'[n] = d
      /\ \A k \in Names : k # n => modules'[k] = modules[k]
  BY <1>1, <1>2 DEF RegistryTyped
<1>4. QED
  BY <1>1, <1>3

LEMMA CallStep ==
  ASSUME RegistryInv, NEW t \in Loaders, NEW pc \in {"swap", "load", "rollback"},
         NEW n \in Names, NEW v \in Versions, Call(t, pc, n, v)
  PROVE  RegistryInv'
<1> DEFINE job == [pc |-> pc, name |-> n, version |-> v, swap |-> pc = "swap"]
<1>1. job \in Working /\ job.pc = pc /\ job.name = n /\ (job.swap <=> pc = "swap")
  BY DEF Working, Steps
<1>2. loader[t].pc = "idle" /\ loader' = [loader EXCEPT ![t] = job]
      /\ UNCHANGED <<modules, previous, vetted, unsaved>>
  BY DEF Call, Resting
<1> HIDE DEF job
<1>3. /\ loader' \in [Loaders -> Working \union {Resting}] /\ loader'[t] = job
      /\ \A u \in Loaders : u # t => loader'[u] = loader[u]
  BY <1>1, <1>2 DEF RegistryInv, RegistryTyped
<1>4. RegistryTyped'
  BY <1>2, <1>3 DEF RegistryInv, RegistryTyped, Saved
<1>5. ServedIsVetted' /\ AboutToServe'
  BY <1>1, <1>2, <1>3 DEF RegistryInv, ServedIsVetted, AboutToServe, Loaded
<1>6. CanGoBack'
  BY <1>1, <1>2, <1>3 DEF RegistryInv, CanGoBack, Loaded
<1>7. MarkedHasSwap'
  BY <1>1, <1>2, <1>3 DEF RegistryInv, MarkedHasSwap, Swapping, Loaded
<1>8. QED
  BY <1>4, <1>5, <1>6, <1>7 DEF RegistryInv

LEMMA SwapPeekStep ==
  ASSUME RegistryInv, NEW t \in Loaders, SwapPeek(t)
  PROVE  RegistryInv'
<1>1. loader[t].pc = "swap" /\ loader[t].swap /\ UNCHANGED <<modules, previous, vetted>>
  BY DEF SwapPeek, RegistryInv, CanGoBack
<1>2. CASE Loaded(loader[t].name)
  <2>1. GoTo(t, "peeked") /\ unsaved' = unsaved
    BY <1>2 DEF SwapPeek
  <2>2. QED
    BY <1>1, <1>2, <2>1, MovesOn DEF Steps
<1>3. CASE ~Loaded(loader[t].name)
  <2>1. GoTo(t, "marking") /\ unsaved' = unsaved \union {loader[t].name}
    BY <1>3 DEF SwapPeek
  <2>2. QED
    BY <1>1, <2>1, MovesOn DEF Steps
<1>4. QED
  BY <1>2, <1>3

(* A failed step ends a load, and sends a swap to its rollback. *)
LEMMA FailStep ==
  ASSUME RegistryInv, NEW t \in Loaders, loader[t].pc \in {"load", "registering"},
         Fail(t), UNCHANGED <<modules, previous, vetted, unsaved>>
  PROVE  RegistryInv'
<1>1. RegistryTyped /\ loader[t].name \in Names /\ loader[t].pc # "idle"
  BY AtWork DEF RegistryInv
<1>2. CASE loader[t].swap
  <2>1. GoTo(t, "rollback")
    BY <1>2 DEF Fail
  <2>2. previous[loader[t].name] # NoModule \/ loader[t].name \in unsaved
    BY <1>2 DEF RegistryInv, CanGoBack
  <2>3. QED
    BY <1>1, <2>1, <2>2, MovesOn DEF Steps
<1>3. CASE ~loader[t].swap
  <2>1. Return(t)
    BY <1>3 DEF Fail
  <2>2. Loaded(loader[t].name) =>
          <<loader[t].name, modules[loader[t].name].version>> \in vetted
    BY <1>1 DEF RegistryInv, ServedIsVetted
  <2>3. QED
    BY <1>1, <1>3, <2>1, <2>2, MovesOut DEF Loaded, RegistryTyped
<1>4. QED
  BY <1>2, <1>3

LEMMA ValidateStep ==
  ASSUME RegistryInv, NEW t \in Loaders, Validate(t)
  PROVE  RegistryInv'
<1>1. loader[t].pc = "load" /\ UNCHANGED <<modules, previous, unsaved>>
  BY DEF Validate
<1>2. CASE Fail(t) /\ UNCHANGED vetted
  BY <1>1, <1>2, FailStep
<1>3. CASE /\ GoTo(t, "registering")
           /\ vetted' = vetted \union {<<loader[t].name, loader[t].version>>}
  <2>1. loader[t].swap => previous[loader[t].name] # NoModule \/ loader[t].name \in unsaved
    BY <1>1 DEF RegistryInv, CanGoBack
  <2>2. QED
    BY <1>1, <1>3, <2>1, MovesOn DEF Steps
<1>4. QED
  BY <1>2, <1>3 DEF Validate

LEMMA SwapSettleStep ==
  ASSUME RegistryInv, NEW t \in Loaders, SwapSettle(t)
  PROVE  RegistryInv'
<1> DEFINE n == loader[t].name
<1>1. /\ loader[t].pc = "settling" /\ Return(t) /\ UNCHANGED <<previous, vetted, unsaved>>
      /\ modules' = IF Loaded(n) THEN [modules EXCEPT ![n].status = "Active"] ELSE modules
  BY DEF SwapSettle
<1>2. RegistryTyped /\ n \in Names
  BY <1>1, AtWork DEF RegistryInv
<1>3. Loaded(n) => <<n, modules[n].version>> \in vetted
  BY <1>2 DEF RegistryInv, ServedIsVetted
<1>4. /\ modules' \in [Names -> Descriptor \union {NoModule}]
      /\ \A k \in Names : k # n => modules'[k] = modules[k]
      /\ Loaded(n) => /\ modules'[n] # NoModule /\ modules'[n].status = "Active"
                      /\ modules'[n].version = modules[n].version
      /\ ~Loaded(n) => modules'[n] = NoModule
  <2>1. CASE Loaded(n)
    <3>1. modules' = [modules EXCEPT ![n].status = "Active"]
      BY <1>1, <2>1
    <3>2. QED
      BY <1>2, <2>1, <3>1, StatusWritten
  <2>2. CASE ~Loaded(n)
    <3>1. modules' = modules
      BY <1>1, <2>2
    <3>2. QED
      BY <1>2, <2>2, <3>1 DEF Loaded, RegistryTyped
  <2>3. QED
    BY <2>1, <2>2
<1>5. QED
  BY <1>1, <1>3, <1>4, MovesOut

LEMMA RollbackPutStep ==
  ASSUME RegistryInv, NEW t \in Loaders, RollbackPut(t)
  PROVE  RegistryInv'
<1> DEFINE n == loader[t].name
           v == loader[t].version
<1>1. /\ loader[t].pc = "restoring" /\ Return(t) /\ UNCHANGED <<previous, vetted, unsaved>>
      /\ modules' = [modules EXCEPT ![n] = Active(v)]
  BY DEF RollbackPut
<1>2. RegistryTyped /\ n \in Names /\ v \in Versions /\ <<n, v>> \in vetted
  BY <1>1, AtWork DEF RegistryInv, AboutToServe
<1>3. /\ modules' \in [Names -> Descriptor \union {NoModule}]
      /\ \A k \in Names : k # n => modules'[k] = modules[k]
      /\ modules'[n] # NoModule /\ modules'[n].status = "Active"
      /\ modules'[n].version = v
  BY <1>1, <1>2, ServesVersion
<1>4. QED
  BY <1>1, <1>2, <1>3, MovesOut

LEMMA SwapSaveStep ==
  ASSUME RegistryInv, NEW t \in Loaders, SwapSave(t)
  PROVE  RegistryInv'
<1> DEFINE n == loader[t].name
           saved == [previous EXCEPT ![n] = modules[n]]
           kept == {m \in Names : saved[m] # NoModule}
<1>1. /\ loader[t].pc = "peeked" /\ GoTo(t, "marking") /\ UNCHANGED <<modules, vetted>>
  BY DEF SwapSave
<1>2. PICK evicted \in SUBSET kept :
        /\ Cardinality(kept \ evicted) <= MaxPrevious
        /\ previous' = [m \in Names |-> IF m \in evicted THEN NoModule ELSE saved[m]]
        /\ unsaved' = (unsaved \ {n}) \union evicted
  BY DEF SwapSave
<1>3. RegistryTyped /\ n \in Names /\ Loaded(n) /\ loader[t].swap
  BY <1>1, AtWork DEF RegistryInv, CanGoBack
<1>4. /\ saved \in [Names -> Descriptor \union {NoModule}]
      /\ saved[n] = modules[n] /\ \A m \in Names : m # n => saved[m] = previous[m]
  BY <1>3 DEF RegistryTyped
<1> HIDE DEF n, saved
<1>5. /\ loader' \in [Loaders -> Working \union {Resting}]
      /\ loader'[t].pc = "marking" /\ loader'[t].name = n /\ loader'[t].swap
      /\ \A u \in Loaders : u # t => loader'[u] = loader[u]
  BY <1>1, <1>3, GoesOn DEF Steps, n
<1>6. RegistryTyped'
  <2>1. previous' \in [Names -> Descriptor \union {NoModule}]
    BY <1>2, <1>4
  <2>2. {m \in Names : previous'[m] # NoModule} = kept \ evicted
    BY <1>2
  <2>3. QED
    BY <1>1, <1>2, <1>3, <1>5, <2>1, <2>2 DEF RegistryTyped, Saved
<1>7. ServedIsVetted'
  BY <1>1, <1>2, <1>3, <1>4 DEF RegistryInv, ServedIsVetted, Loaded
<1>8. AboutToServe'
  BY <1>1, <1>5 DEF RegistryInv, AboutToServe
<1>9. CanGoBack'
  <2>1. \A m \in Names : previous[m] # NoModule \/ m \in unsaved \/ m = n =>
          previous'[m] # NoModule \/ m \in unsaved'
    BY <1>2, <1>3, <1>4 DEF Loaded
  <2>2. \A u \in Loaders : loader[u].pc # "idle" => loader[u].name \in Names
    BY <1>3, AtWork
  <2>3. \A m \in Names : Loaded(m)' = Loaded(m)
    BY <1>1 DEF Loaded
  <2>4. QED
    BY <1>1, <1>3, <1>5, <2>1, <2>2, <2>3 DEF RegistryInv, CanGoBack
<1>10. MarkedHasSwap'
  <2>1. \A u \in Loaders, m \in Names : Swapping(u, m) => Swapping(u, m)'
    BY <1>1, <1>3, <1>5 DEF Swapping, n
  <2>2. \A m \in Names : m = n => Swapping(t, m)'
    BY <1>5 DEF Swapping
  <2>3. \A m \in Names : m \in unsaved => m \in unsaved' \/ m = n
    BY <1>2
  <2>4. \A m \in Names : Loaded(m)' = Loaded(m) /\ modules'[m] = modules[m]
    BY <1>1 DEF Loaded
  <2>5. \A m \in Names : Loaded(m) /\ modules[m].status = "RollingBack" =>
          m \in unsaved \/ \E u \in Loaders : Swapping(u, m)
    BY DEF RegistryInv, MarkedHasSwap
  <2>6. QED
    BY <2>1, <2>2, <2>3, <2>4, <2>5 DEF MarkedHasSwap
<1>11. QED
  BY <1>6, <1>7, <1>8, <1>9, <1>10 DEF RegistryInv

(* A section under the write guard of `modules`: no swap is between its look *)
(* at its module and the save.                                               *)
LEMMA WritesModule ==
  ASSUME RegistryInv, ModulesWritable, NEW t \in Loaders, loader[t].pc # "idle",
         NEW pc \in {"load", "settling"}, GoTo(t, pc), loader[t].swap,
         previous[loader[t].name] # NoModule \/ loader[t].name \in unsaved,
         UNCHANGED <<previous, vetted, unsaved>>,
         modules' \in [Names -> Descriptor \union {NoModule}],
         \A k \in Names : k # loader[t].name => modules'[k] = modules[k],
         modules'[loader[t].name] # NoModule =>
           <<loader[t].name, modules'[loader[t].name].version>> \in vetted
  PROVE  RegistryInv'
<1>1. RegistryTyped /\ loader[t].name \in Names
  BY AtWork DEF RegistryInv
<1>2. /\ loader' \in [Loaders -> Working \union {Resting}]
      /\ loader'[t].pc = pc /\ loader'[t].name = loader[t].name
      /\ loader'[t].version = loader[t].version /\ loader'[t].swap = loader[t].swap
      /\ \A u \in Loaders : u # t => loader'[u] = loader[u]
  BY <1>1, GoesOn DEF Steps
<1>3. RegistryTyped'
  BY <1>1, <1>2 DEF RegistryTyped, Saved
<1>4. ServedIsVetted'
  BY <1>1 DEF RegistryInv, ServedIsVetted, Loaded
<1>5. AboutToServe'
  BY <1>2 DEF RegistryInv, AboutToServe
<1>6. CanGoBack'
  BY <1>2 DEF RegistryInv, CanGoBack, ModulesWritable
<1>7. MarkedHasSwap'
  <2>1. \A u \in Loaders, n \in Names : Swapping(u, n) => Swapping(u, n)'
    BY <1>2 DEF Swapping
  <2>2. Swapping(t, loader[t].name)
    BY DEF Swapping
  <2>3. QED
    BY <1>1, <2>1, <2>2 DEF RegistryInv, MarkedHasSwap, Loaded
<1>8. QED
  BY <1>3, <1>4, <1>5, <1>6, <1>7 DEF RegistryInv

LEMMA SwapMarkStep ==
  ASSUME RegistryInv, NEW t \in Loaders, SwapMark(t)
  PROVE  RegistryInv'
<1> DEFINE n == loader[t].name
<1>1. /\ loader[t].pc = "marking" /\ ModulesWritable /\ GoTo(t, "load")
      /\ UNCHANGED <<previous, vetted, unsaved>>
      /\ modules' = IF Loaded(n) THEN [modules EXCEPT ![n].status = "RollingBack"] ELSE modules
  BY DEF SwapMark
<1>2. /\ RegistryTyped /\ n \in Names /\ loader[t].swap
      /\ previous[n] # NoModule \/ n \in unsaved
  BY <1>1, AtWork DEF RegistryInv, CanGoBack
<1>3. Loaded(n) => <<n, modules[n].version>> \in vetted
  BY <1>2 DEF RegistryInv, ServedIsVetted
<1>4. /\ modules' \in [Names -> Descriptor \union {NoModule}]
      /\ \A k \in Names : k # n => modules'[k] = modules[k]
      /\ Loaded(n) => modules'[n].version = modules[n].version
      /\ ~Loaded(n) => modules'[n] = NoModule
  <2>1. CASE Loaded(n)
    <3>1. modules' = [modules EXCEPT ![n].status = "RollingBack"]
      BY <1>1, <2>1
    <3>2. QED
      BY <1>2, <2>1, <3>1, StatusWritten
  <2>2. CASE ~Loaded(n)
    <3>1. modules' = modules
      BY <1>1, <2>2
    <3>2. QED
      BY <1>2, <2>2, <3>1 DEF Loaded, RegistryTyped
  <2>3. QED
    BY <2>1, <2>2
<1>5. QED
  BY <1>1, <1>2, <1>3, <1>4, WritesModule

LEMMA RegisterStep ==
  ASSUME RegistryInv, NEW t \in Loaders, Register(t)
  PROVE  RegistryInv'
<1> DEFINE n == loader[t].name
           v == loader[t].version
<1>1. /\ loader[t].pc = "registering" /\ ModulesWritable
      /\ UNCHANGED <<previous, vetted, unsaved>>
  BY DEF Register
<1>2. RegistryTyped /\ n \in Names /\ v \in Versions /\ <<n, v>> \in vetted
  BY <1>1, AtWork DEF RegistryInv, AboutToServe
<1>3. CASE Fail(t) /\ UNCHANGED modules
  BY <1>1, <1>3, FailStep
<1>4. CASE modules' = [modules EXCEPT ![n] = Active(v)]
           /\ IF loader[t].swap THEN GoTo(t, "settling") ELSE Return(t)
  <2>1. /\ modules' \in [Names -> Descriptor \union {NoModule}]
        /\ \A k \in Names : k # n => modules'[k] = modules[k]
        /\ modules'[n] # NoModule /\ modules'[n].status = "Active"
        /\ modules'[n].version = v
    BY <1>2, <1>4, ServesVersion
  <2>2. CASE loader[t].swap
    <3>1. previous[n] # NoModule \/ n \in unsaved
      BY <1>1, <2>2 DEF RegistryInv, CanGoBack
    <3>2. QED
      BY <1>1, <1>2, <1>4, <2>1, <2>2, <3>1, WritesModule
  <2>3. CASE ~loader[t].swap
    BY <1>1, <1>2, <1>4, <2>1, <2>3, MovesOut
  <2>4. QED
    BY <2>2, <2>3
<1>5. QED
  BY <1>3, <1>4 DEF Register

LEMMA RollbackTakeStep ==
  ASSUME RegistryInv, NEW t \in Loaders, RollbackTake(t)
  PROVE  RegistryInv'
<1> DEFINE n == loader[t].name
           v == previous[n].version
<1>1. loader[t].pc = "rollback" /\ UNCHANGED <<modules, vetted>>
  BY DEF RollbackTake
<1>2. /\ RegistryTyped /\ n \in Names /\ loader[t] \in Working
      /\ loader[t].swap => previous[n] # NoModule \/ n \in unsaved
      /\ Loaded(n) => <<n, modules[n].version>> \in vetted
  BY <1>1, AtWork DEF RegistryInv, CanGoBack, ServedIsVetted
<1>3. CASE previous[n] = NoModule
  <2>1. Return(t) /\ UNCHANGED <<previous, unsaved>>
    BY <1>3 DEF RollbackTake
  <2>2. QED
    BY <1>1, <1>2, <1>3, <2>1, MovesOut DEF Loaded, RegistryTyped
<1>4. CASE previous[n] # NoModule
  <2>1. /\ loader' = [loader EXCEPT ![t].pc = "restoring", ![t].version = v]
        /\ previous' = [previous EXCEPT ![n] = NoModule]
        /\ unsaved' = unsaved \union {n}
    BY <1>4 DEF RollbackTake
  <2>2. v \in Versions /\ <<n, v>> \in vetted
    BY <1>2, <1>4 DEF RegistryTyped, Descriptor, RegistryInv, ServedIsVetted
  <2> HIDE DEF v
  <2> DEFINE job == [loader[t] EXCEPT !.pc = "restoring", !.version = v]
  <2>3. /\ job \in Working /\ job.pc = "restoring" /\ job.name = n
        /\ job.version = v /\ job.swap = loader[t].swap
    BY <1>2, <2>2 DEF Working, Steps
  <2>4. loader' = [loader EXCEPT ![t] = job]
    BY <2>1
  <2> HIDE DEF job
  <2>5. /\ loader' \in [Loaders -> Working \union {Resting}] /\ loader'[t] = job
        /\ \A u \in Loaders : u # t => loader'[u] = loader[u]
    BY <1>2, <2>3, <2>4 DEF RegistryTyped
  <2>6. /\ previous' \in [Names -> Descriptor \union {NoModule}] /\ previous'[n] = NoModule
        /\ \A k \in Names : k # n => previous'[k] = previous[k]
    BY <1>2, <2>1 DEF RegistryTyped
  <2>7. RegistryTyped'
    <3>1. Saved' \subseteq Saved /\ Saved \subseteq Names
      BY <2>6 DEF Saved
    <3>2. Cardinality(Saved') <= MaxPrevious
      BY <1>2, <3>1, FewerSaved DEF RegistryTyped
    <3>3. QED
      BY <1>1, <1>2, <2>5, <2>6, <3>2 DEF RegistryTyped, Saved
  <2>8. ServedIsVetted'
    BY <1>1, <2>6 DEF RegistryInv, ServedIsVetted, Loaded
  <2>9. AboutToServe'
    BY <1>1, <2>2, <2>3, <2>5 DEF RegistryInv, AboutToServe
  <2>10. CanGoBack'
    <3>1. \A m \in Names : previous[m] # NoModule \/ m \in unsaved =>
            previous'[m] # NoModule \/ m \in unsaved'
      BY <2>1, <2>6
    <3>2. \A u \in Loaders : loader[u].pc # "idle" => loader[u].name \in Names
      BY <1>2, AtWork
    <3>3. \A m \in Names : Loaded(m)' = Loaded(m)
      BY <1>1 DEF Loaded
    <3>4. QED
      BY <2>3, <2>5, <3>1, <3>2, <3>3 DEF RegistryInv, CanGoBack
  <2>11. MarkedHasSwap'
    <3>1. \A u \in Loaders, m \in Names : Swapping(u, m) => Swapping(u, m)'
      BY <2>3, <2>5 DEF Swapping
    <3>2. QED
      BY <1>1, <2>1, <3>1 DEF RegistryInv, MarkedHasSwap, Loaded
  <2>12. QED
    BY <2>7, <2>8, <2>9, <2>10, <2>11 DEF RegistryInv
<1>5. QED
  BY <1>3, <1>4

(* Unloading a module, or making it active again, needs the write guard. *)
LEMMA UnloadStep ==
  ASSUME RegistryInv, NEW n \in Names, Unload(n)
  PROVE  RegistryInv'
<1>1. /\ ModulesWritable /\ modules' = [modules EXCEPT ![n] = NoModule]
      /\ UNCHANGED <<previous, loader, vetted, unsaved>>
  BY DEF Unload
<1>2. /\ modules' \in [Names -> Descriptor \union {NoModule}] /\ modules'[n] = NoModule
      /\ \A k \in Names : k # n => modules'[k] = modules[k]
  BY <1>1 DEF RegistryInv, RegistryTyped
<1>3. RegistryTyped'
  BY <1>1, <1>2 DEF RegistryInv, RegistryTyped, Saved
<1>4. ServedIsVetted' /\ AboutToServe'
  BY <1>1, <1>2 DEF RegistryInv, ServedIsVetted, AboutToServe, Loaded
<1>5. CanGoBack'
  BY <1>1 DEF RegistryInv, CanGoBack, ModulesWritable
<1>6. MarkedHasSwap'
  BY <1>1, <1>2 DEF RegistryInv, MarkedHasSwap, Swapping, Loaded
<1>7. QED
  BY <1>3, <1>4, <1>5, <1>6 DEF RegistryInv

LEMMA RestartModuleStep ==
  ASSUME RegistryInv, NEW n \in Names, RestartModule(n)
  PROVE  RegistryInv'
<1>1. /\ ModulesWritable /\ Loaded(n) /\ modules' = [modules EXCEPT ![n].status = "Active"]
      /\ UNCHANGED <<previous, loader, vetted, unsaved>>
  BY DEF RestartModule
<1>2. /\ modules' \in [Names -> Descriptor \union {NoModule}] /\ modules'[n] # NoModule
      /\ modules'[n].version = modules[n].version /\ modules'[n].status = "Active"
      /\ \A k \in Names : k # n => modules'[k] = modules[k]
  BY <1>1, StatusWritten DEF RegistryInv
<1>3. RegistryTyped'
  BY <1>1, <1>2 DEF RegistryInv, RegistryTyped, Saved
<1>4. ServedIsVetted' /\ AboutToServe'
  BY <1>1, <1>2 DEF RegistryInv, ServedIsVetted, AboutToServe, Loaded
<1>5. CanGoBack'
  BY <1>1 DEF RegistryInv, CanGoBack, ModulesWritable
<1>6. MarkedHasSwap'
  BY <1>1, <1>2 DEF RegistryInv, MarkedHasSwap, Swapping, Loaded
<1>7. QED
  BY <1>3, <1>4, <1>5, <1>6 DEF RegistryInv

LEMMA RegistryUnchanged ==
  ASSUME RegistryInv, UNCHANGED registryVars
  PROVE  RegistryInv'
BY DEF registryVars, RegistryInv, RegistryTyped, Saved, ServedIsVetted, AboutToServe,
       CanGoBack, MarkedHasSwap, Swapping, Loaded

LEMMA RegistryMaintained ==
  ASSUME RegistryInv, [HotSwapNext]_registryVars
  PROVE  RegistryInv'
<1>1. ASSUME NEW t \in Loaders, NEW n \in Names, NEW v \in Versions,
             NEW pc \in {"swap", "load", "rollback"}, Call(t, pc, n, v)
      PROVE  RegistryInv'
  BY <1>1, CallStep
<1>2. ASSUME NEW t \in Loaders,
             \/ SwapPeek(t) \/ SwapSave(t) \/ SwapMark(t) \/ Validate(t)
             \/ Register(t) \/ SwapSettle(t) \/ RollbackTake(t) \/ RollbackPut(t)
      PROVE  RegistryInv'
  BY <1>2, SwapPeekStep, SwapSaveStep, SwapMarkStep, ValidateStep, RegisterStep,
     SwapSettleStep, RollbackTakeStep, RollbackPutStep
<1>3. ASSUME NEW n \in Names, Unload(n) \/ RestartModule(n)
      PROVE  RegistryInv'
  BY <1>3, UnloadStep, RestartModuleStep
<1>4. QED
  BY <1>1, <1>2, <1>3, RegistryUnchanged DEF HotSwapNext

(* The invariant says what the property promises. *)
LEMMA RegistryInvSound ==
  ASSUME RegistryInv
  PROVE  RegistrySound
<1>1. RegistryTyped
  BY DEF RegistryInv
<1>2. \A t \in Loaders : loader[t].pc \in Steps \union {"idle"}
  BY <1>1 DEF RegistryTyped, Working, Resting
<1>3. HotSwapTypeOK
  BY <1>1, <1>2 DEF HotSwapTypeOK, RegistryTyped, Saved, Steps
<1>4. LeftRollingBack
  BY DEF RegistryInv, MarkedHasSwap, Swapping, LeftRollingBack, InFlight
<1>5. QED
  BY <1>3, <1>4 DEF RegistryInv, RegistrySound

(* RegistrySound holds of every number of modules, versions and callers:     *)
(* whatever swaps, loads, rollbacks, unloads and restarts interleave over    *)
(* hot_swap_module.rs's two locks, only vetted versions are served or saved, *)
(* and a module is left rolling back only when there was nothing to restore. *)
THEOREM RegistrySoundHolds == HotSwapSpec => []RegistrySound
<1>1. HotSwapInit => RegistryInv
  BY RegistryInit
<1>2. RegistryInv /\ [HotSwapNext]_registryVars => RegistryInv'
  BY RegistryMaintained
<1>3. RegistryInv => RegistrySound
  BY RegistryInvSound
<1>4. QED
  BY <1>1, <1>2, <1>3, PTL DEF HotSwapSpec

-----------------------------------------------------------------------------
(* The Copilot's access to the system.                                       *)

Probed == {"modules", "env", "fs", "rpc", "fleet", "security", "config"}
ProbeStatuses == {"Pass", "Warn", "Fail", "Fixed", "Created"}

DiskType == [env : BOOLEAN, vars : SUBSET RequiredVars, masked : SUBSET RequiredVars,
             paths : SUBSET CriticalPaths, runner : BOOLEAN, http : BOOLEAN]

AuditType == [stage : Stages \union {"none"}, todo : Seq(Probed),
              listed : SUBSET (Names \X {"Active", "RollingBack"}),
              report : SUBSET (Probed \X ProbeStatuses)]

(* Every step of the Copilot is a step of the module registry or leaves it   *)
(* alone, so the registry's invariant holds whatever the probes do.          *)
LEMMA CopilotStepsRegistry ==
  ASSUME audit \in AuditType, CopilotNext
  PROVE  [HotSwapNext]_registryVars
<1> SUFFICES HotSwapNext \/ UNCHANGED registryVars
  OBVIOUS
<1>1. ASSUME NEW entry \in audit.listed, ProbeModule(entry)
      PROVE  HotSwapNext \/ UNCHANGED registryVars
  <2>1. CASE UNCHANGED registryVars
    BY <2>1
  <2>2. CASE RestartModule(entry[1])
    <3>1. entry[1] \in Names
      BY <1>1 DEF AuditType
    <3>2. QED
      BY <2>2, <3>1 DEF HotSwapNext
  <2>3. QED
    BY <1>1, <2>1, <2>2 DEF ProbeModule
<1>2. QED
  BY <1>1 DEF CopilotNext, BeginAudit, Probe, ListModules, ProbeEnv, ProbeFilesystem, ProbeRpc,
     ProbeFleet, ProbeSecurity, ProbeConfig, Edit, RegistryStep

Left(s) == {s[i] : i \in 1..Len(s)}

ProbeRefused == \E r \in audit.report : r[2] \notin {"Pass", "Fixed", "Created"}

(* What a preflight that has refused nothing knows after each probe. *)
KnownSoFar ==
  /\ "modules" \notin Left(audit.todo) =>
       \A n \in Names : Loaded(n) =>
         modules[n].status = "Active" \/ <<n, modules[n].status>> \in audit.listed
  /\ "env" \notin Left(audit.todo) =>
       /\ disk.env
       /\ SecretVars \subseteq disk.vars \/ <<"env", "Created">> \in audit.report
  /\ "fs" \notin Left(audit.todo) => disk.paths = CriticalPaths
  /\ "fleet" \notin Left(audit.todo) => disk.runner

AuditKnows == audit.stage = "preflight" /\ quiet /\ ~ProbeRefused => KnownSoFar

CopilotInv ==
  /\ RegistryInv
  /\ disk \in DiskType /\ audit \in AuditType
  /\ AuditKnows

(* Taking the first probe off the list leaves the others. *)
LEMMA NextLeft ==
  ASSUME NEW s \in Seq(Probed), s # <<>>
  PROVE  /\ Head(s) \in Probed /\ Tail(s) \in Seq(Probed)
         /\ \A p : p \notin Left(Tail(s)) => p = Head(s) \/ p \notin Left(s)
<1>1. Head(s) \in Probed /\ Tail(s) \in Seq(Probed)
  BY HeadTailProperties
<1>2. /\ Len(s) \in Nat /\ Len(Tail(s)) = Len(s) - 1
      /\ \A i \in 1..Len(Tail(s)) : Tail(s)[i] = s[i + 1]
  BY HeadTailProperties, LenProperties
<1>3. Head(s) = s[1]
  OBVIOUS
<1>4. ASSUME NEW p, p \in Left(s), p # Head(s)
      PROVE  p \in Left(Tail(s))
  <2>1. PICK i \in 1..Len(s) : p = s[i]
    BY <1>4 DEF Left
  <2>2. i # 1
    BY <2>1, <1>3, <1>4
  <2>3. i - 1 \in 1..Len(Tail(s)) /\ (i - 1) + 1 = i
    BY <1>2, <2>2
  <2>4. Tail(s)[i - 1] = p
    BY <1>2, <2>1, <2>3
  <2>5. QED
    BY <2>3, <2>4 DEF Left
<1>5. QED
  BY <1>1, <1>4

LEMMA CopilotInitially == CopilotInit => CopilotInv
<1> SUFFICES ASSUME CopilotInit
             PROVE  CopilotInv
  OBVIOUS
<1>1. RegistryInv
  BY RegistryInit DEF CopilotInit
<1>2. disk \in DiskType
  BY DEF CopilotInit, DiskType
<1>3. audit = [stage |-> "none", todo |-> <<>>, listed |-> {}, report |-> {}]
  BY DEF CopilotInit, NoAudit
<1>4. <<>> \in Seq(Probed)
  OBVIOUS
<1>5. audit \in AuditType
  BY <1>3, <1>4 DEF AuditType
<1>6. AuditKnows
  BY <1>3 DEF AuditKnows
<1>7. QED
  BY <1>1, <1>2, <1>5, <1>6 DEF CopilotInv

(* All of the preflight's probes are on its list. *)
LEMMA PreflightIsWhole ==
  /\ \A stage \in Stages : Probes(stage) \in Seq(Probed)
  /\ {"modules", "env", "fs", "fleet"} \subseteq Left(Probes("preflight"))
<1>1. Probes("preflight") = <<"modules", "env", "fs", "rpc", "fleet", "security", "config">>
  BY DEF Probes
<1>2. Probes("simulation") = <<"modules", "rpc", "fleet">>
  BY DEF Probes
<1>3. Probes("live") = <<"security", "fs", "config">>
  BY DEF Probes
<1>4. Probes("preflight") \in Seq(Probed)
  <2>1. /\ "modules" \in Probed /\ "env" \in Probed /\ "fs" \in Probed /\ "rpc" \in Probed
        /\ "fleet" \in Probed /\ "security" \in Probed /\ "config" \in Probed
    BY DEF Probed
  <2> HIDE DEF Probed
  <2>2. <<"modules", "env", "fs", "rpc", "fleet", "security", "config">> \in Seq(Probed)
    BY <2>1, SMT
  <2>3. QED
    BY <1>1, <2>2, Zenon
<1>5. Probes("simulation") \in Seq(Probed) /\ Probes("live") \in Seq(Probed)
  <2>1. /\ "modules" \in Probed /\ "fs" \in Probed /\ "rpc" \in Probed
        /\ "fleet" \in Probed /\ "security" \in Probed /\ "config" \in Probed
    BY DEF Probed
  <2>2. ASSUME NEW a \in Probed, NEW b \in Probed, NEW c \in Probed
        PROVE  <<a, b, c>> \in Seq(Probed)
    OBVIOUS
  <2>3. QED
    BY <1>2, <1>3, <2>1, <2>2, Zenon
<1>6. {"modules", "env", "fs", "fleet"} \subseteq Left(Probes("preflight"))
  <2> DEFINE s == Probes("preflight")
  <2>1. Len(s) = 7 /\ s[1] = "modules" /\ s[2] = "env" /\ s[3] = "fs" /\ s[5] = "fleet"
    BY <1>1
  <2> HIDE DEF s
  <2>2. s[1] \in Left(s) /\ s[2] \in Left(s) /\ s[3] \in Left(s) /\ s[5] \in Left(s)
    BY <2>1 DEF Left
  <2>3. QED
    BY <2>1, <2>2 DEF s
<1>7. QED
  BY <1>4, <1>5, <1>6 DEF Stages

LEMMA BeginAuditStep ==
  ASSUME CopilotInv, NEW stage \in Stages, BeginAudit(stage)
  PROVE  disk' \in DiskType /\ audit' \in AuditType /\ AuditKnows'
<1>1. disk' = disk /\ audit' = [stage |-> stage, todo |-> Probes(stage), listed |-> {}, report |-> {}]
  BY DEF BeginAudit
<1>2. disk' \in DiskType
  BY <1>1 DEF CopilotInv
<1>3. audit' \in AuditType
  BY <1>1, PreflightIsWhole DEF AuditType
<1>4. audit'.stage = "preflight" => audit'.todo = Probes("preflight")
  BY <1>1
<1>5. AuditKnows'
  BY <1>4, PreflightIsWhole DEF AuditKnows, KnownSoFar
<1>6. QED
  BY <1>2, <1>3, <1>5

(* A probe that reports: the list is one shorter, and one status is added. *)
LEMMA ReportedShape ==
  ASSUME audit \in AuditType, NEW probe \in Probed, NEW statuses \in SUBSET ProbeStatuses,
         Reported(probe, statuses)
  PROVE  /\ audit' \in AuditType
         /\ audit'.stage = audit.stage /\ audit'.listed = audit.listed
         /\ \A p : p \notin Left(audit'.todo) => p = probe \/ p \notin Left(audit.todo)
         /\ \E s \in statuses : audit'.report = audit.report \union {<<probe, s>>}
<1>1. PICK s \in statuses :
        audit' = [audit EXCEPT !.todo = Tail(audit.todo), !.report = audit.report \union {<<probe, s>>}]
  BY DEF Reported
<1>2. audit.todo \in Seq(Probed) /\ audit.todo # <<>> /\ Head(audit.todo) = probe
  BY DEF Reported, AuditType
<1>3. audit' = [stage |-> audit.stage, todo |-> Tail(audit.todo), listed |-> audit.listed,
                report |-> audit.report \union {<<probe, s>>}]
  BY <1>1 DEF AuditType
<1>4. Tail(audit.todo) \in Seq(Probed)
  BY <1>2, NextLeft
<1>5. audit' \in AuditType
  BY <1>3, <1>4 DEF AuditType
<1>6. \A p : p \notin Left(Tail(audit.todo)) => p = probe \/ p \notin Left(audit.todo)
  BY <1>2, NextLeft
<1>7. /\ audit'.stage = audit.stage /\ audit'.listed = audit.listed /\ audit'.todo = Tail(audit.todo)
      /\ audit'.report = audit.report \union {<<probe, s>>}
  BY <1>3
<1>8. QED
  BY <1>5, <1>6, <1>7

(* What a probe leaves alone stays known; it has to establish its own fact. *)
LEMMA ReportKeeps ==
  ASSUME CopilotInv, NEW probe \in Probed, NEW statuses \in SUBSET ProbeStatuses,
         Reported(probe, statuses), UNCHANGED modules, quiet' => quiet,
         disk'.vars = disk.vars, disk'.paths = disk.paths,
         disk.env => disk'.env, disk.runner => disk'.runner,
         \A s \in statuses :
           s \in {"Pass", "Fixed", "Created"} /\ quiet' /\ audit.stage = "preflight" =>
             /\ probe # "modules"
             /\ probe = "env" => disk'.env /\ (SecretVars \subseteq disk.vars \/ s = "Created")
             /\ probe = "fs" => disk.paths = CriticalPaths
             /\ probe = "fleet" => disk'.runner
  PROVE  AuditKnows'
<1> SUFFICES ASSUME (audit.stage = "preflight")', quiet', (~ProbeRefused)'
             PROVE  KnownSoFar'
  BY DEF AuditKnows
<1>1. PICK s \in statuses : audit'.report = audit.report \union {<<probe, s>>}
  BY ReportedShape DEF CopilotInv
<1>0. /\ <<probe, s>> \in audit'.report /\ <<probe, s>>[2] = s
      /\ audit.report \subseteq audit'.report
  BY <1>1
<1>2. /\ audit'.stage = audit.stage /\ audit'.listed = audit.listed
      /\ \A p : p \notin Left(audit'.todo) => p = probe \/ p \notin Left(audit.todo)
  BY ReportedShape DEF CopilotInv
<1>3. s \in {"Pass", "Fixed", "Created"} /\ ~ProbeRefused
  BY <1>0 DEF ProbeRefused
<1>4. audit.stage = "preflight" /\ quiet
  BY <1>2
<1>5. KnownSoFar
  BY <1>3, <1>4 DEF CopilotInv, AuditKnows
<1>6. ("modules" \notin Left(audit.todo) =>
       \A n \in Names : Loaded(n) =>
         modules[n].status = "Active" \/ <<n, modules[n].status>> \in audit.listed)'
  BY <1>2, <1>3, <1>4, <1>5 DEF KnownSoFar, Loaded
<1>7. ("env" \notin Left(audit.todo) =>
       /\ disk.env
       /\ SecretVars \subseteq disk.vars \/ <<"env", "Created">> \in audit.report)'
  BY <1>1, <1>2, <1>3, <1>4, <1>5 DEF KnownSoFar
<1>8. ("fs" \notin Left(audit.todo) => disk.paths = CriticalPaths)'
  BY <1>2, <1>3, <1>4, <1>5 DEF KnownSoFar
<1>9. ("fleet" \notin Left(audit.todo) => disk.runner)'
  BY <1>2, <1>3, <1>4, <1>5 DEF KnownSoFar
<1>10. QED
  BY <1>6, <1>7, <1>8, <1>9 DEF KnownSoFar

LEMMA ListModulesStep ==
  ASSUME CopilotInv, ListModules
  PROVE  disk' \in DiskType /\ audit' \in AuditType /\ AuditKnows'
<1> DEFINE seen == {<<n, modules[n].status>> : n \in {m \in Names : Loaded(m)}}
<1>1. audit' = [audit EXCEPT !.todo = Tail(audit.todo), !.listed = seen]
  BY DEF ListModules
<1>2. /\ audit.todo \in Seq(Probed) /\ audit.todo # <<>> /\ Head(audit.todo) = "modules"
      /\ audit \in AuditType
  BY DEF ListModules, AuditType, CopilotInv
<1>3. seen \in SUBSET (Names \X {"Active", "RollingBack"})
  BY DEF CopilotInv, RegistryInv, RegistryTyped, Descriptor, Loaded
<1>4. \A n \in Names : Loaded(n) => <<n, modules[n].status>> \in seen
  OBVIOUS
<1> HIDE DEF seen
<1>5. audit' = [stage |-> audit.stage, todo |-> Tail(audit.todo), listed |-> seen, report |-> audit.report]
  BY <1>1, <1>2 DEF AuditType
<1>6. Tail(audit.todo) \in Seq(Probed) /\ \A p : p \notin Left(Tail(audit.todo)) => p = "modules" \/ p \notin Left(audit.todo)
  BY <1>2, NextLeft
<1>7. audit' \in AuditType
  BY <1>2, <1>3, <1>5, <1>6 DEF AuditType
<1>8. /\ audit'.stage = audit.stage /\ audit'.listed = seen /\ audit'.todo = Tail(audit.todo)
      /\ audit'.report = audit.report
  BY <1>5
<1>9. UNCHANGED <<modules, disk, quiet>>
  BY DEF ListModules, registryVars
<1>10. AuditKnows'
  BY <1>4, <1>6, <1>8, <1>9 DEF CopilotInv, AuditKnows, KnownSoFar, ProbeRefused, Loaded
<1>11. QED
  BY <1>7, <1>9, <1>10 DEF CopilotInv

LEMMA ProbeModuleStep ==
  ASSUME CopilotInv, NEW entry \in audit.listed, ProbeModule(entry)
  PROVE  disk' \in DiskType /\ audit' \in AuditType /\ AuditKnows'
<1>1. UNCHANGED <<access, disk, edits, quiet>> /\ audit \in AuditType
  BY DEF ProbeModule, CopilotInv
<1>2. PICK s \in ProbeStatuses : ModuleSeen(entry, s)
  BY DEF ProbeModule, ProbeStatuses
<1>3. audit' = [audit EXCEPT !.listed = audit.listed \ {entry},
                  !.report = audit.report \union {<<"modules", s>>}]
  BY <1>2 DEF ModuleSeen
<1>4. audit' = [stage |-> audit.stage, todo |-> audit.todo, listed |-> audit.listed \ {entry},
                report |-> audit.report \union {<<"modules", s>>}]
  BY <1>1, <1>3 DEF AuditType
<1>5. audit' \in AuditType
  BY <1>1, <1>4 DEF AuditType, Probed
<1>6. /\ audit'.stage = audit.stage /\ audit'.listed = audit.listed \ {entry}
      /\ audit'.todo = audit.todo /\ audit'.report = audit.report \union {<<"modules", s>>}
  BY <1>4
<1>7. AuditKnows'
  <2> SUFFICES ASSUME (audit.stage = "preflight")', quiet', (~ProbeRefused)'
               PROVE  KnownSoFar'
    BY DEF AuditKnows
  <2>1. s \in {"Pass", "Fixed", "Created"} /\ ~ProbeRefused
    <3>1. /\ <<"modules", s>> \in audit'.report /\ <<"modules", s>>[2] = s
          /\ audit.report \subseteq audit'.report
      BY <1>6
    <3>2. QED
      BY <3>1 DEF ProbeRefused
  <2>2. KnownSoFar
    BY <1>1, <1>6, <2>1 DEF CopilotInv, AuditKnows
  <2>3. (\A n \in Names : Loaded(n) =>
           modules[n].status = "Active" \/ <<n, modules[n].status>> \in audit.listed)'
        \/ "modules" \in Left(audit.todo)
    <3>1. CASE entry[2] = "Active" /\ UNCHANGED modules
      BY <1>6, <2>2, <3>1 DEF KnownSoFar, Loaded
    <3>2. CASE RestartModule(entry[1])
      <4>1. modules' = [modules EXCEPT ![entry[1]].status = "Active"]
        BY <3>2 DEF RestartModule
      <4>2. entry[1] \in Names /\ modules \in [Names -> Descriptor \union {NoModule}]
            /\ modules[entry[1]] # NoModule
        BY <3>2, <1>1 DEF CopilotInv, RegistryInv, RegistryTyped, RestartModule, Loaded, AuditType
      <4>3. modules[entry[1]] \in Descriptor
        BY <4>2
      <4>4. modules'[entry[1]].status = "Active"
        BY <4>1, <4>2, <4>3 DEF Descriptor
      <4>5. \A n \in Names : n # entry[1] => modules'[n] = modules[n]
        BY <4>1, <4>2
      <4>6. \A n \in Names : n # entry[1] => <<n, modules[n].status>> # entry
        OBVIOUS
      <4>7. QED
        BY <1>6, <2>2, <4>4, <4>5, <4>6 DEF KnownSoFar, Loaded
    <3>3. CASE ModuleSeen(entry, "Warn") \/ ModuleSeen(entry, "Fail")
      <4>1. <<"modules", "Warn">> \in audit'.report \/ <<"modules", "Fail">> \in audit'.report
        <5>1. ASSUME NEW w \in {"Warn", "Fail"}, ModuleSeen(entry, w)
              PROVE  <<"modules", w>> \in audit'.report
          BY <1>1, <5>1 DEF ModuleSeen, AuditType
        <5>2. QED
          BY <3>3, <5>1
      <4>2. QED
        BY <4>1 DEF ProbeRefused
    <3>4. QED
      BY <3>1, <3>2, <3>3 DEF ProbeModule, registryVars
  <2>4. QED
    BY <1>1, <1>6, <2>2, <2>3 DEF KnownSoFar
<1>8. QED
  BY <1>1, <1>5, <1>7 DEF CopilotInv

(* A write of the environment file or of runner.yaml keeps the type. *)
LEMMA WrittenFiles ==
  ASSUME disk \in DiskType
  PROVE  /\ [disk EXCEPT !.env = TRUE] \in DiskType /\ [disk EXCEPT !.env = TRUE].env
         /\ [disk EXCEPT !.env = TRUE].vars = disk.vars /\ [disk EXCEPT !.env = TRUE].paths = disk.paths
         /\ [disk EXCEPT !.env = TRUE].runner = disk.runner
         /\ [disk EXCEPT !.runner = TRUE] \in DiskType /\ [disk EXCEPT !.runner = TRUE].runner
         /\ [disk EXCEPT !.runner = TRUE].vars = disk.vars /\ [disk EXCEPT !.runner = TRUE].paths = disk.paths
         /\ [disk EXCEPT !.runner = TRUE].env = disk.env
BY DEF DiskType

LEMMA ProbeEnvStep ==
  ASSUME CopilotInv, ProbeEnv
  PROVE  disk' \in DiskType /\ audit' \in AuditType /\ AuditKnows'
<1>1. UNCHANGED modules /\ disk \in DiskType /\ audit \in AuditType
  BY DEF ProbeEnv, registryVars, CopilotInv
<1>2. CASE disk.env
  <2>1. Reported("env", {EnvStatus, "Fail"}) /\ UNCHANGED <<disk, quiet>>
    BY <1>2 DEF ProbeEnv
  <2>2. {EnvStatus, "Fail"} \in SUBSET ProbeStatuses /\ "env" \in Probed
    BY DEF EnvStatus, ProbeStatuses, Probed
  <2>3. EnvStatus \in {"Pass", "Fixed", "Created"} => SecretVars \subseteq disk.vars
    BY CopilotAssumption DEF EnvStatus, Missing
  <2>4. audit' \in AuditType
    BY <1>1, <2>1, <2>2, ReportedShape
  <2>5. AuditKnows'
    BY <1>1, <1>2, <2>1, <2>2, <2>3, ReportKeeps
  <2>6. QED
    BY <1>1, <2>1, <2>4, <2>5
<1>3. CASE ~disk.env /\ CanWrite
  <2>1. Reported("env", {"Created"}) /\ Written([disk EXCEPT !.env = TRUE])
    BY <1>3 DEF ProbeEnv
  <2>2. {"Created"} \in SUBSET ProbeStatuses /\ "env" \in Probed
    BY DEF ProbeStatuses, Probed
  <2>3. audit' \in AuditType
    BY <1>1, <2>1, <2>2, ReportedShape
  <2>4. CASE disk' = [disk EXCEPT !.env = TRUE] /\ UNCHANGED quiet
    <3>1. AuditKnows'
      BY <1>1, <2>1, <2>2, <2>4, WrittenFiles, ReportKeeps
    <3>2. QED
      BY <1>1, <2>3, <2>4, <3>1, WrittenFiles
  <2>5. CASE UNCHANGED disk /\ quiet' = FALSE
    BY <1>1, <2>3, <2>5 DEF AuditKnows
  <2>6. QED
    BY <2>1, <2>4, <2>5 DEF Written
<1>4. CASE ~disk.env /\ ~CanWrite
  <2>1. Reported("env", {"Fail"}) /\ UNCHANGED <<disk, quiet>>
    BY <1>4 DEF ProbeEnv
  <2>2. {"Fail"} \in SUBSET ProbeStatuses /\ "env" \in Probed
    BY DEF ProbeStatuses, Probed
  <2>3. audit' \in AuditType
    BY <1>1, <2>1, <2>2, ReportedShape
  <2>4. AuditKnows'
    BY <1>1, <2>1, <2>2, ReportKeeps
  <2>5. QED
    BY <1>1, <2>1, <2>3, <2>4
<1>5. QED
  BY <1>2, <1>3, <1>4

LEMMA ProbeFleetStep ==
  ASSUME CopilotInv, ProbeFleet
  PROVE  disk' \in DiskType /\ audit' \in AuditType /\ AuditKnows'
<1> DEFINE status == IF disk.runner THEN "Pass" ELSE IF CanWrite THEN "Fixed" ELSE "Warn"
<1>1. UNCHANGED modules /\ disk \in DiskType /\ audit \in AuditType
  BY DEF ProbeFleet, registryVars, CopilotInv
<1>2. Reported("fleet", {status})
  BY DEF ProbeFleet
<1>3. {status} \in SUBSET ProbeStatuses /\ "fleet" \in Probed
  BY DEF ProbeStatuses, Probed
<1>4. audit' \in AuditType
  BY <1>1, <1>2, <1>3, ReportedShape
<1>5. CASE CanWrite /\ ~disk.runner
  <2>1. Written([disk EXCEPT !.runner = TRUE])
    BY <1>5 DEF ProbeFleet
  <2>2. CASE disk' = [disk EXCEPT !.runner = TRUE] /\ UNCHANGED quiet
    <3>1. AuditKnows'
      BY <1>1, <1>2, <1>3, <2>2, WrittenFiles, ReportKeeps
    <3>2. QED
      BY <1>1, <1>4, <2>2, <3>1, WrittenFiles
  <2>3. CASE UNCHANGED disk /\ quiet' = FALSE
    BY <1>1, <1>4, <2>3 DEF AuditKnows
  <2>4. QED
    BY <2>1, <2>2, <2>3 DEF Written
<1>6. CASE ~(CanWrite /\ ~disk.runner)
  <2>1. UNCHANGED <<disk, quiet>>
    BY <1>6 DEF ProbeFleet
  <2>2. status \in {"Pass", "Fixed", "Created"} => disk.runner
    BY <1>6
  <2>3. AuditKnows'
    <3> HIDE DEF status
    <3>1. QED
      BY <1>1, <1>2, <1>3, <2>1, <2>2, ReportKeeps
  <2>4. QED
    BY <1>1, <1>4, <2>1, <2>3
<1>7. QED
  BY <1>5, <1>6

(* The probes that only look. *)
LEMMA LookingStep ==
  ASSUME CopilotInv, ProbeFilesystem \/ ProbeRpc \/ ProbeSecurity \/ ProbeConfig
  PROVE  disk' \in DiskType /\ audit' \in AuditType /\ AuditKnows'
<1>1. UNCHANGED <<modules, disk, quiet>> /\ disk \in DiskType /\ audit \in AuditType
  BY DEF ProbeFilesystem, ProbeRpc, ProbeSecurity, ProbeConfig, registryVars, CopilotInv
<1>2. ASSUME NEW probe \in {"fs", "rpc", "security", "config"}, NEW statuses \in SUBSET ProbeStatuses,
             Reported(probe, statuses),
             probe = "fs" => \A s \in statuses : s \in {"Pass", "Fixed", "Created"} => disk.paths = CriticalPaths
      PROVE  audit' \in AuditType /\ AuditKnows'
  <2>1. probe \in Probed
    BY DEF Probed
  <2>2. audit' \in AuditType
    BY <1>1, <1>2, <2>1, ReportedShape
  <2>3. probe \notin {"modules", "env", "fleet"}
    BY <1>2
  <2>4. AuditKnows'
    BY <1>1, <1>2, <2>1, <2>3, ReportKeeps
  <2>5. QED
    BY <2>2, <2>4
<1>3. CASE ProbeFilesystem
  <2>1. Reported("fs", {IF disk.paths = CriticalPaths THEN "Pass" ELSE "Warn"})
    BY <1>3 DEF ProbeFilesystem
  <2>2. {IF disk.paths = CriticalPaths THEN "Pass" ELSE "Warn"} \in SUBSET ProbeStatuses
    BY DEF ProbeStatuses
  <2>3. QED
    BY <1>1, <1>2, <2>1, <2>2
<1>4. CASE ProbeRpc
  <2> DEFINE answers == IF disk.vars \intersect RpcVars = {}
                        THEN {IF CanWrite THEN "Fixed" ELSE "Fail"}
                        ELSE {"Pass", "Fail"} \union IF CanWrite THEN {"Fixed"} ELSE {}
  <2>1. Reported("rpc", answers)
    BY <1>4 DEF ProbeRpc
  <2>2. answers \in SUBSET ProbeStatuses
    BY DEF ProbeStatuses
  <2> HIDE DEF answers
  <2>3. QED
    BY <1>1, <1>2, <2>1, <2>2
<1>5. CASE ProbeSecurity
  <2>1. Reported("security", {IF ~disk.http THEN "Pass" ELSE IF CanWrite THEN "Fixed" ELSE "Fail"})
    BY <1>5 DEF ProbeSecurity
  <2>2. {IF ~disk.http THEN "Pass" ELSE IF CanWrite THEN "Fixed" ELSE "Fail"} \in SUBSET ProbeStatuses
    BY DEF ProbeStatuses
  <2>3. QED
    BY <1>1, <1>2, <2>1, <2>2
<1>6. CASE ProbeConfig
  <2>1. Reported("config", {IF disk.paths = CriticalPaths THEN "Pass" ELSE "Warn", "Fail"})
    BY <1>6 DEF ProbeConfig
  <2>2. {IF disk.paths = CriticalPaths THEN "Pass" ELSE "Warn", "Fail"} \in SUBSET ProbeStatuses
    BY DEF ProbeStatuses
  <2>3. QED
    BY <1>1, <1>2, <2>1, <2>2
<1>7. QED
  BY <1>3, <1>4, <1>5, <1>6

LEMMA EditStep ==
  ASSUME CopilotInv, Edit
  PROVE  disk' \in DiskType /\ audit' \in AuditType /\ AuditKnows'
<1>1. quiet' = FALSE /\ audit' = audit /\ disk \in DiskType
  BY DEF Edit, CopilotInv
<1>2. disk' \in DiskType
  <2>1. ASSUME NEW v \in RequiredVars, disk' = [disk EXCEPT !.vars = disk.vars \union {v}]
        PROVE  disk' \in DiskType
    BY <1>1, <2>1 DEF DiskType
  <2>2. ASSUME NEW v \in disk.vars, disk' = [disk EXCEPT !.vars = disk.vars \ {v}, !.masked = disk.masked \ {v}]
        PROVE  disk' \in DiskType
    BY <1>1, <2>2 DEF DiskType
  <2>3. ASSUME NEW v \in disk.vars, disk' = [disk EXCEPT !.masked = disk.masked \union {v}]
        PROVE  disk' \in DiskType
    BY <1>1, <2>3 DEF DiskType
  <2>4. CASE disk' = [disk EXCEPT !.http = ~disk.http]
    BY <1>1, <2>4 DEF DiskType
  <2>5. ASSUME NEW p \in CriticalPaths, disk' = [disk EXCEPT !.paths = disk.paths \union {p}]
        PROVE  disk' \in DiskType
    BY <1>1, <2>5 DEF DiskType
  <2>6. CASE disk' = [disk EXCEPT !.runner = ~disk.runner]
    BY <1>1, <2>6 DEF DiskType
  <2>7. QED
    BY <2>1, <2>2, <2>3, <2>4, <2>5, <2>6 DEF Edit
<1>3. QED
  BY <1>1, <1>2 DEF CopilotInv, AuditKnows

LEMMA CopilotStep ==
  ASSUME CopilotInv, [CopilotNext]_<<registryVars, copilotVars>>
  PROVE  CopilotInv'
<1>1. CASE UNCHANGED <<registryVars, copilotVars>>
  <2>1. UNCHANGED <<modules, disk, audit, quiet>> /\ RegistryInv'
    BY <1>1, RegistryUnchanged DEF CopilotInv, registryVars, copilotVars
  <2>2. AuditKnows'
    BY <2>1 DEF CopilotInv, AuditKnows, KnownSoFar, ProbeRefused, Loaded
  <2>3. QED
    BY <2>1, <2>2 DEF CopilotInv
<1>2. CASE CopilotNext
  <2>1. RegistryInv'
    <3>1. RegistryInv /\ audit \in AuditType
      BY DEF CopilotInv
    <3>2. [HotSwapNext]_registryVars
      BY <1>2, <3>1, CopilotStepsRegistry
    <3>3. QED
      BY <3>1, <3>2, RegistryMaintained
  <2>2. disk' \in DiskType /\ audit' \in AuditType /\ AuditKnows'
    <3>1. ASSUME RegistryStep
          PROVE  disk' \in DiskType /\ audit' \in AuditType /\ AuditKnows'
      BY <3>1 DEF RegistryStep, CopilotInv, AuditKnows
    <3>2. QED
      BY <1>2, <3>1, BeginAuditStep, ListModulesStep, ProbeModuleStep, ProbeEnvStep, ProbeFleetStep,
         LookingStep, EditStep DEF CopilotNext, Probe
  <2>3. QED
    BY <2>1, <2>2 DEF CopilotInv
<1>3. QED
  BY <1>1, <1>2

LEMMA CopilotInvSound == CopilotInv => CopilotSound
<1> SUFFICES ASSUME CopilotInv
             PROVE  CopilotSound
  OBVIOUS
<1>1. CopilotTypeOK
  BY DEF CopilotInv, CopilotTypeOK, DiskType, AuditType, ProbeStatuses
<1>2. ASSUME Passed("preflight"), quiet
      PROVE  /\ \A n \in Names : Loaded(n) => modules[n].status = "Active"
             /\ disk.paths = CriticalPaths /\ disk.env /\ disk.runner
             /\ SecretVars \subseteq disk.vars \/ <<"env", "Created">> \in audit.report
  <2>1. /\ audit.stage = "preflight" /\ audit.todo = <<>> /\ audit.listed = {} /\ ~ProbeRefused
    BY <1>2 DEF Passed, ProbeRefused
  <2>2. Left(audit.todo) = {}
    BY <2>1 DEF Left
  <2>3. KnownSoFar
    BY <1>2, <2>1 DEF CopilotInv, AuditKnows
  <2>4. QED
    BY <2>1, <2>2, <2>3 DEF KnownSoFar
<1>3. QED
  BY <1>1, <1>2 DEF CopilotSound, PassedPreflight

(* What a passed and undisturbed preflight guarantees, for any modules,      *)
(* files, variables and access level: every module serves, the files are     *)
(* there and no secret was invented by an edit (copilot_system_access.rs).   *)
THEOREM CopilotIsSound == CopilotSpec => []CopilotSound
<1>1. CopilotInit => CopilotInv
  BY CopilotInitially
<1>2. CopilotInv /\ [CopilotNext]_<<registryVars, copilotVars>> => CopilotInv'
  BY CopilotStep
<1>3. CopilotInv => CopilotSound
  BY CopilotInvSound
<1>4. QED
  BY <1>1, <1>2, <1>3, PTL DEF CopilotSpec

LEMMA ProbeKeepsFiles ==
  ASSUME CopilotInv, CopilotNext, audit' # audit
  PROVE  disk'.vars = disk.vars /\ (access # "Full" => UNCHANGED <<modules, disk>>)
<1>1. disk \in DiskType
  BY DEF CopilotInv
<1>2. ASSUME NEW stage \in Stages, BeginAudit(stage)
      PROVE  UNCHANGED <<modules, disk>>
  BY <1>2 DEF BeginAudit, registryVars
<1>3. CASE ListModules \/ ProbeFilesystem \/ ProbeRpc \/ ProbeSecurity \/ ProbeConfig
  BY <1>3 DEF ListModules, ProbeFilesystem, ProbeRpc, ProbeSecurity, ProbeConfig, registryVars
<1>4. ASSUME NEW entry \in audit.listed, ProbeModule(entry)
      PROVE  disk' = disk /\ (access # "Full" => UNCHANGED modules)
  BY <1>4 DEF ProbeModule, CanWrite, registryVars
<1>5. CASE ProbeEnv
  BY <1>1, <1>5, WrittenFiles DEF ProbeEnv, CanWrite, Written, registryVars
<1>6. CASE ProbeFleet
  BY <1>1, <1>6, WrittenFiles DEF ProbeFleet, CanWrite, Written, registryVars
<1>7. CASE Edit \/ RegistryStep
  BY <1>7 DEF Edit, RegistryStep
<1>8. QED
  BY <1>2, <1>3, <1>4, <1>5, <1>6, <1>7 DEF CopilotNext, Probe

(* Without full access no probe changes a module or a file, and none ever    *)
(* writes a variable, whichever stage runs and however the world moves       *)
(* between the probes (copilot_system_access.rs).                            *)
THEOREM OnlyFullAccessWrites == CopilotSpec => OnlyFullWrites
<1>1. CopilotInit => CopilotInv
  BY CopilotInitially
<1>2. CopilotInv /\ [CopilotNext]_<<registryVars, copilotVars>> => CopilotInv'
  BY CopilotStep
<1>3. CopilotInv /\ [CopilotNext]_<<registryVars, copilotVars>> =>
        [audit' # audit =>
          /\ disk'.vars = disk.vars
          /\ access # "Full" => UNCHANGED <<modules, disk>>]_<<registryVars, copilotVars>>
  BY ProbeKeepsFiles
<1>4. QED
  BY <1>1, <1>2, <1>3, PTL DEF CopilotSpec, OnlyFullWrites

-----------------------------------------------------------------------------
(* The dashboard's backend.                                                  *)

(* The requests of an address admitted between two times.                    *)
Between(times, lo, hi) == {k \in DOMAIN times : lo <= times[k] /\ times[k] <= hi}

WindowEntry == [count : 1..(RateLimit + 1), start : Nat]

(* An address's window holds no more requests than it has counted and than   *)
(* the limit, and neither does the stretch as long as a window before it:    *)
(* what was admitted there belongs to the one window before.                 *)
WindowOK(entry, times, now) ==
  /\ entry = NoEntry => times = <<>>
  /\ entry # NoEntry =>
       /\ entry.start <= now
       /\ \A k \in DOMAIN times : times[k] <= entry.start + RateWindow
       /\ Cardinality(Between(times, entry.start, entry.start + RateWindow)) <= entry.count
       /\ Cardinality(Between(times, entry.start, entry.start + RateWindow)) <= RateLimit
       /\ Cardinality(Between(times, entry.start - RateWindow, entry.start - 1)) <= RateLimit
  /\ \A from \in Nat : Cardinality(Within(times, from)) <= 2 * RateLimit

LEMMA BetweenFinite ==
  ASSUME NEW times \in Seq(Nat), NEW lo, NEW hi
  PROVE  /\ IsFiniteSet(Between(times, lo, hi)) /\ Cardinality(Between(times, lo, hi)) \in Nat
         /\ Between(times, lo, hi) \subseteq DOMAIN times
<1>1. IsFiniteSet(DOMAIN times)
  <2>1. DOMAIN times = 1..Len(times) /\ Len(times) \in Nat
    BY LenProperties
  <2> QED
    BY <2>1, FS_Interval
<1>2. Between(times, lo, hi) \in SUBSET DOMAIN times
  BY DEF Between
<1> QED
  BY <1>1, <1>2, FS_Subset, FS_CardinalityType

LEMMA WithinIsBetween == \A times, from : Within(times, from) = Between(times, from, from + RateWindow)
BY DEF Within, Between

LEMMA UnionBound ==
  ASSUME NEW S, IsFiniteSet(S), NEW T, IsFiniteSet(T), NEW U \in SUBSET (S \union T)
  PROVE  IsFiniteSet(U) /\ Cardinality(U) \in Nat /\ Cardinality(U) <= Cardinality(S) + Cardinality(T)
<1>1. /\ IsFiniteSet(S \union T)
      /\ Cardinality(S \union T) = Cardinality(S) + Cardinality(T) - Cardinality(S \cap T)
  BY FS_Union
<1>2. IsFiniteSet(S \cap T)
  <2>1. S \cap T \in SUBSET S
    OBVIOUS
  <2> QED
    BY <2>1, FS_Subset
<1>3. /\ Cardinality(S) \in Nat /\ Cardinality(T) \in Nat /\ Cardinality(S \cap T) \in Nat
      /\ Cardinality(S \union T) \in Nat
  BY <1>1, <1>2, FS_CardinalityType
<1>4. IsFiniteSet(U) /\ Cardinality(U) <= Cardinality(S \union T)
  BY <1>1, FS_Subset
<1>5. Cardinality(U) \in Nat
  BY <1>4, FS_CardinalityType
<1> QED
  BY <1>1, <1>3, <1>4, <1>5

(* An admitted request adds to the intervals it falls in.                    *)
LEMMA BetweenAppend ==
  ASSUME NEW times \in Seq(Nat), NEW now \in Nat, NEW lo \in Int, NEW hi \in Int
  PROVE  /\ ~(lo <= now /\ now <= hi) => Between(Append(times, now), lo, hi) = Between(times, lo, hi)
         /\ lo <= now /\ now <= hi =>
              Between(Append(times, now), lo, hi) = Between(times, lo, hi) \union {Len(times) + 1}
         /\ Len(times) + 1 \notin DOMAIN times
<1>1. /\ Len(times) \in Nat /\ DOMAIN times = 1..Len(times)
      /\ DOMAIN Append(times, now) = 1..(Len(times) + 1)
      /\ Append(times, now)[Len(times) + 1] = now
      /\ \A k \in 1..Len(times) : Append(times, now)[k] = times[k]
  BY AppendProperties, LenProperties
<1> QED
  BY <1>1 DEF Between

LEMMA AdmitKeeps ==
  ASSUME NEW entry \in WindowEntry \union {NoEntry}, NEW times \in Seq(Nat), NEW now \in Nat,
         WindowOK(entry, times, now),
         NEW next, next.count <= RateLimit,
         next = IF entry # NoEntry /\ now - entry.start <= RateWindow
                THEN [entry EXCEPT !.count = entry.count + 1] ELSE [count |-> 1, start |-> now]
  PROVE  next \in WindowEntry /\ WindowOK(next, Append(times, now), now)
<1> DEFINE added == Append(times, now)
<1>a. RateLimit \in Nat \ {0} /\ RateWindow \in Nat /\ NoEntry \notin [count : Nat, start : Nat]
  BY DashboardAssumption
<1>b. /\ added \in Seq(Nat) /\ Len(times) \in Nat /\ DOMAIN times = 1..Len(times)
      /\ DOMAIN added = 1..(Len(times) + 1) /\ added[Len(times) + 1] = now
      /\ \A k \in 1..Len(times) : added[k] = times[k] /\ times[k] \in Nat
  BY AppendProperties, LenProperties, ElementOfSeq
<1>c. \A lo, hi : /\ IsFiniteSet(Between(added, lo, hi)) /\ Cardinality(Between(added, lo, hi)) \in Nat
                  /\ IsFiniteSet(Between(times, lo, hi)) /\ Cardinality(Between(times, lo, hi)) \in Nat
                  /\ Between(times, lo, hi) \subseteq DOMAIN times
  BY <1>b, BetweenFinite
<1>d. \A lo, hi \in Int :
        /\ ~(lo <= now /\ now <= hi) => Between(added, lo, hi) = Between(times, lo, hi)
        /\ lo <= now /\ now <= hi => Between(added, lo, hi) = Between(times, lo, hi) \union {Len(times) + 1}
  BY BetweenAppend
<1>e. Len(times) + 1 \notin DOMAIN times
  BY <1>b
<1>f. \A from \in Nat : Cardinality(Within(times, from)) <= 2 * RateLimit
  BY DEF WindowOK
<1>g. \A lo, hi \in Int : lo <= now /\ now <= hi =>
        Cardinality(Between(added, lo, hi)) = Cardinality(Between(times, lo, hi)) + 1
  <2> TAKE lo \in Int, hi \in Int
  <2> HAVE lo <= now /\ now <= hi
  <2>1. Len(times) + 1 \notin Between(times, lo, hi)
    BY <1>c, <1>e
  <2>2. Cardinality(Between(times, lo, hi) \union {Len(times) + 1}) = Cardinality(Between(times, lo, hi)) + 1
    BY <1>c, <2>1, FS_AddElement
  <2> QED
    BY <1>d, <2>2
<1> HIDE DEF added
<1>1. CASE entry # NoEntry /\ now - entry.start <= RateWindow
  <2> DEFINE s == entry.start
  <2>1. /\ s \in Nat /\ entry.count \in Nat /\ entry \in WindowEntry
        /\ next = [count |-> entry.count + 1, start |-> s]
    BY <1>1 DEF WindowEntry
  <2>2. next \in WindowEntry /\ next.start = s /\ next.count = entry.count + 1
    <3>1. next.start = s /\ next.count = entry.count + 1
      BY <2>1
    <3>2. entry.count + 1 \in 1..(RateLimit + 1)
      BY <1>a, <2>1, <3>1
    <3> QED
      BY <2>1, <3>1, <3>2 DEF WindowEntry
  <2>3. next # NoEntry
    <3>1. next \in [count : Nat, start : Nat]
      BY <2>1
    <3> QED
      BY <1>a, <3>1
  <2>4. /\ s <= now /\ \A k \in DOMAIN times : times[k] <= s + RateWindow
        /\ Cardinality(Between(times, s, s + RateWindow)) <= entry.count
        /\ Cardinality(Between(times, s - RateWindow, s - 1)) <= RateLimit
    BY <1>1 DEF WindowOK
  <2> HIDE DEF s
  <2>5. now <= s + RateWindow
    BY <1>1, <1>a, <2>1 DEF s
  <2>6. \A k \in DOMAIN added : added[k] <= s + RateWindow
    BY <1>b, <2>4, <2>5
  <2>7. /\ Cardinality(Between(added, s, s + RateWindow)) <= next.count
        /\ Cardinality(Between(added, s, s + RateWindow)) <= RateLimit
    <3>1. Cardinality(Between(added, s, s + RateWindow)) = Cardinality(Between(times, s, s + RateWindow)) + 1
      BY <1>a, <1>g, <2>1, <2>4, <2>5
    <3>2. Cardinality(Between(times, s, s + RateWindow)) \in Nat
      BY <1>c
    <3> QED
      BY <1>a, <2>1, <2>2, <2>4, <3>1, <3>2
  <2>8. Cardinality(Between(added, s - RateWindow, s - 1)) <= RateLimit
    <3>1. s - RateWindow \in Int /\ s - 1 \in Int /\ ~(now <= s - 1)
      BY <1>a, <2>1, <2>4
    <3> QED
      BY <1>d, <2>4, <3>1
  <2>9. ASSUME NEW from \in Nat
        PROVE  Cardinality(Within(added, from)) <= 2 * RateLimit
    <3>1. from \in Int /\ from + RateWindow \in Int
      BY <1>a
    <3>2. CASE ~(from <= now /\ now <= from + RateWindow)
      BY <1>d, <1>f, <3>1, <3>2, WithinIsBetween
    <3>3. CASE from <= now /\ now <= from + RateWindow
      <4>1. ASSUME NEW k \in DOMAIN added, from <= added[k], added[k] <= from + RateWindow
            PROVE  k \in Between(added, s, s + RateWindow) \union Between(added, s - RateWindow, s - 1)
        <5>1. added[k] \in Nat /\ added[k] <= s + RateWindow
          BY <1>b, <2>6
        <5>2. CASE s <= added[k]
          BY <5>1, <5>2 DEF Between
        <5>3. CASE ~(s <= added[k])
          <6>1. s - RateWindow <= added[k] /\ added[k] <= s - 1
            BY <1>a, <2>1, <2>4, <3>3, <4>1, <5>1, <5>3
          <6> QED
            BY <6>1 DEF Between
        <5> QED
          BY <5>2, <5>3
      <4>2. Within(added, from)
              \in SUBSET (Between(added, s, s + RateWindow) \union Between(added, s - RateWindow, s - 1))
        BY <4>1 DEF Within
      <4>3. /\ Cardinality(Within(added, from)) \in Nat
            /\ Cardinality(Within(added, from)) <=
                 Cardinality(Between(added, s, s + RateWindow))
                   + Cardinality(Between(added, s - RateWindow, s - 1))
        BY <1>c, <4>2, UnionBound
      <4>4. /\ Cardinality(Between(added, s, s + RateWindow)) \in Nat
            /\ Cardinality(Between(added, s - RateWindow, s - 1)) \in Nat
        BY <1>c
      <4> QED
        BY <1>a, <2>7, <2>8, <4>3, <4>4
    <3> QED
      BY <3>2, <3>3
  <2> QED
    BY <2>2, <2>3, <2>4, <2>6, <2>7, <2>8, <2>9 DEF WindowOK, added
<1>2. CASE ~(entry # NoEntry /\ now - entry.start <= RateWindow)
  <2>1. next = [count |-> 1, start |-> now]
    BY <1>2
  <2>2. next \in WindowEntry /\ next.start = now /\ next.count = 1
    BY <1>a, <2>1 DEF WindowEntry
  <2>3. next # NoEntry
    <3>1. next \in [count : Nat, start : Nat]
      BY <2>1
    <3> QED
      BY <1>a, <3>1
  <2>4. /\ \A k \in DOMAIN times : times[k] < now
        /\ Cardinality(Between(times, now - RateWindow, now - 1)) <= RateLimit
    <3>1. CASE entry = NoEntry
      <4>1. times = <<>> /\ DOMAIN times = {}
        BY <3>1 DEF WindowOK
      <4>2. Between(times, now - RateWindow, now - 1) = {}
        BY <4>1 DEF Between
      <4> QED
        <5>1. Cardinality(Between(times, now - RateWindow, now - 1)) = 0
          BY <4>2, FS_EmptySet
        <5> QED
          BY <1>a, <4>1, <5>1
    <3>2. CASE entry # NoEntry
      <4>1. PICK s \in Nat : s = entry.start
        BY <3>2 DEF WindowEntry
      <4>2. /\ now > s + RateWindow
            /\ \A k \in DOMAIN times : times[k] <= s + RateWindow
            /\ Cardinality(Between(times, s, s + RateWindow)) <= RateLimit
        BY <1>2, <1>a, <3>2, <4>1 DEF WindowOK
      <4>3. \A k \in DOMAIN times : times[k] < now
        BY <1>a, <1>b, <4>2
      <4>4. Between(times, now - RateWindow, now - 1) \in SUBSET Between(times, s, s + RateWindow)
        BY <1>a, <1>b, <4>2 DEF Between
      <4>5. Cardinality(Between(times, now - RateWindow, now - 1)) <= Cardinality(Between(times, s, s + RateWindow))
        BY <1>c, <4>4, FS_Subset
      <4>6. /\ Cardinality(Between(times, now - RateWindow, now - 1)) \in Nat
            /\ Cardinality(Between(times, s, s + RateWindow)) \in Nat
        BY <1>c
      <4> QED
        BY <1>a, <4>2, <4>3, <4>5, <4>6
    <3> QED
      BY <3>1, <3>2
  <2>5. \A k \in DOMAIN added : added[k] <= now + RateWindow
    BY <1>a, <1>b, <2>4
  <2>6. /\ Cardinality(Between(added, now, now + RateWindow)) <= 1
        /\ Cardinality(Between(added, now, now + RateWindow)) <= RateLimit
    <3>1. Cardinality(Between(added, now, now + RateWindow)) = Cardinality(Between(times, now, now + RateWindow)) + 1
      BY <1>a, <1>g
    <3>2. Between(times, now, now + RateWindow) = {}
      BY <1>b, <2>4 DEF Between
    <3>3. Cardinality(Between(times, now, now + RateWindow)) = 0
      BY <3>2, FS_EmptySet
    <3> QED
      BY <1>a, <3>1, <3>3
  <2>7. Cardinality(Between(added, now - RateWindow, now - 1)) <= RateLimit
    <3>1. now - RateWindow \in Int /\ now - 1 \in Int /\ ~(now <= now - 1)
      BY <1>a
    <3> QED
      BY <1>d, <2>4, <3>1
  <2>8. ASSUME NEW from \in Nat
        PROVE  Cardinality(Within(added, from)) <= 2 * RateLimit
    <3>1. from \in Int /\ from + RateWindow \in Int
      BY <1>a
    <3>2. CASE ~(from <= now /\ now <= from + RateWindow)
      BY <1>d, <1>f, <3>1, <3>2, WithinIsBetween
    <3>3. CASE from <= now /\ now <= from + RateWindow
      <4>1. ASSUME NEW k \in DOMAIN added, from <= added[k], added[k] <= from + RateWindow
            PROVE  k \in Between(added, now, now + RateWindow) \union Between(added, now - RateWindow, now - 1)
        <5>1. added[k] \in Nat /\ added[k] <= now + RateWindow
          BY <1>b, <2>5
        <5>2. CASE now <= added[k]
          BY <5>1, <5>2 DEF Between
        <5>3. CASE ~(now <= added[k])
          <6>1. now - RateWindow <= added[k] /\ added[k] <= now - 1
            BY <1>a, <3>3, <4>1, <5>1, <5>3
          <6> QED
            BY <6>1 DEF Between
        <5> QED
          BY <5>2, <5>3
      <4>2. Within(added, from)
              \in SUBSET (Between(added, now, now + RateWindow) \union Between(added, now - RateWindow, now - 1))
        BY <4>1 DEF Within
      <4>3. /\ Cardinality(Within(added, from)) \in Nat
            /\ Cardinality(Within(added, from)) <=
                 Cardinality(Between(added, now, now + RateWindow))
                   + Cardinality(Between(added, now - RateWindow, now - 1))
        BY <1>c, <4>2, UnionBound
      <4>4. /\ Cardinality(Between(added, now, now + RateWindow)) \in Nat
            /\ Cardinality(Between(added, now - RateWindow, now - 1)) \in Nat
        BY <1>c
      <4> QED
        BY <1>a, <2>6, <2>7, <4>3, <4>4
    <3> QED
      BY <3>2, <3>3
  <2> QED
    BY <2>2, <2>3, <2>5, <2>6, <2>7, <2>8 DEF WindowOK, added
<1> QED
  BY <1>1, <1>2

Settings == [Keys -> SettingValues \union {Preset}]

DashboardVarsOK ==
  /\ clock \in Nat /\ clock <= MaxClock
  /\ limiter \in [Addresses -> WindowEntry \union {NoEntry}] /\ admitted \in [Addresses -> Seq(Nat)]
  /\ totals \in [trades : Int, profit : Int, detected : Int, failed : Int]
  /\ booked \in [posted : Int, transferred : Int]
  /\ consoleSettings \in Settings /\ settingsFile \in Settings \union {NoSettings, TornFile}

WindowsOK == \A a \in Addresses : WindowOK(limiter[a], admitted[a], clock)

(* The cached scan and the scans under way began in the past. *)
ScansOK ==
  /\ scanCache # NoScan => /\ scanCache.begun \in Nat /\ scanCache.at \in Nat /\ scanCache.finished \in Nat
                           /\ scanCache.begun <= scanCache.at /\ scanCache.at <= scanCache.finished
                           /\ scanCache.finished <= clock
  /\ \A v \in Visits : visit[v] # NoVisit => visit[v].begun \in Nat /\ visit[v].begun <= clock
  /\ DOMAIN visit = Visits

DashboardInv ==
  DashboardVarsOK /\ WindowsOK /\ ScansOK /\ ServedIsFresh /\ BooksBalance /\ SettingsSurvive

LEMMA FreshWindow == \A now \in Nat : WindowOK(NoEntry, <<>>, now)
<1>1. \A from : Within(<<>>, from) = {}
  BY DEF Within
<1>2. RateLimit \in Nat
  BY DashboardAssumption
<1>3. \A from : Cardinality(Within(<<>>, from)) = 0
  BY <1>1, FS_EmptySet
<1> QED
  BY <1>2, <1>3 DEF WindowOK

LEMMA DashboardInitially == DashboardInit => DashboardInv
<1> SUFFICES ASSUME DashboardInit
             PROVE  DashboardInv
  OBVIOUS
<1>1. DashboardVarsOK
  BY DashboardAssumption DEF DashboardInit, DashboardVarsOK, WindowEntry, EmptyLedger, Settings, Defaults
<1>2. WindowsOK
  BY FreshWindow DEF DashboardInit, WindowsOK
<1>3. ScansOK /\ ServedIsFresh
  BY DEF DashboardInit, ScansOK, ServedIsFresh
<1>4. BooksBalance
  BY DEF DashboardInit, BooksBalance, EmptyLedger
<1>5. SettingsSurvive
  BY DEF DashboardInit, SettingsSurvive, Stored, Defaults
<1> QED
  BY <1>1, <1>2, <1>3, <1>4, <1>5 DEF DashboardInv

(* Passing the guard: what every admitted request does. *)
LEMMA PassKeeps ==
  ASSUME DashboardInv, NEW a \in Addresses, Pass(a)
  PROVE  /\ limiter' \in [Addresses -> WindowEntry \union {NoEntry}] /\ admitted' \in [Addresses -> Seq(Nat)]
         /\ WindowsOK' /\ clock' = clock
<1>1. /\ Counted(a).count <= RateLimit
      /\ limiter' = [limiter EXCEPT ![a] = Counted(a)]
      /\ admitted' = [admitted EXCEPT ![a] = Append(admitted[a], clock)]
      /\ clock' = clock
  BY DEF Pass
<1>2. /\ clock \in Nat /\ limiter \in [Addresses -> WindowEntry \union {NoEntry}]
      /\ admitted \in [Addresses -> Seq(Nat)] /\ WindowsOK
  BY DEF DashboardInv, DashboardVarsOK
<1> DEFINE next == Counted(a)
<1>3. next = IF limiter[a] # NoEntry /\ clock - limiter[a].start <= RateWindow
             THEN [limiter[a] EXCEPT !.count = limiter[a].count + 1] ELSE [count |-> 1, start |-> clock]
  BY DEF Counted
<1> HIDE DEF next
<1>4. next \in WindowEntry /\ WindowOK(next, Append(admitted[a], clock), clock)
  <2>1. next.count <= RateLimit
    BY <1>1 DEF next
  <2>2. /\ limiter[a] \in WindowEntry \union {NoEntry} /\ admitted[a] \in Seq(Nat)
        /\ WindowOK(limiter[a], admitted[a], clock)
    BY <1>2 DEF WindowsOK
  <2> QED
    BY <1>2, <1>3, <2>1, <2>2, AdmitKeeps
<1>5. Append(admitted[a], clock) \in Seq(Nat)
  BY <1>2, AppendProperties
<1>6. limiter' = [limiter EXCEPT ![a] = next]
  BY <1>1 DEF next
<1>7. limiter' \in [Addresses -> WindowEntry \union {NoEntry}] /\ admitted' \in [Addresses -> Seq(Nat)]
  BY <1>1, <1>2, <1>4, <1>5, <1>6
<1>8. /\ limiter'[a] = next /\ admitted'[a] = Append(admitted[a], clock)
      /\ \A b \in Addresses \ {a} : limiter'[b] = limiter[b] /\ admitted'[b] = admitted[b]
  BY <1>1, <1>2, <1>6
<1>9. WindowsOK'
  <2>1. \A b \in Addresses : WindowOK(limiter'[b], admitted'[b], clock')
    BY <1>1, <1>2, <1>4, <1>8 DEF WindowsOK
  <2> QED
    BY <2>1 DEF WindowsOK, WindowOK
<1> QED
  BY <1>1, <1>7, <1>9

(* A window goes on as time passes, or when its address's count rises. *)
LEMMA WindowGoesOn ==
  ASSUME NEW entry \in WindowEntry \union {NoEntry}, NEW times \in Seq(Nat), NEW now \in Nat, NEW later \in Nat,
         now <= later, WindowOK(entry, times, now)
  PROVE  WindowOK(entry, times, later)
<1>1. entry # NoEntry => entry.start \in Nat
  BY DEF WindowEntry
<1> QED
  BY <1>1 DEF WindowOK

LEMMA RefusedKeeps ==
  ASSUME DashboardInv, NEW a \in Addresses, Refused(a)
  PROVE  DashboardInv'
<1>1. /\ Counted(a).count > RateLimit
      /\ limiter' = [limiter EXCEPT ![a] = [limiter[a] EXCEPT !.count = RateLimit + 1]]
      /\ UNCHANGED <<clock, admitted, scanCache, visit, served, totals, booked, console, outdated>>
      /\ UNCHANGED <<consoleSettings, settingsFile, asked, unwritten>>
  BY DEF Refused, bookVars, settingsVars
<1>2. /\ clock \in Nat /\ limiter \in [Addresses -> WindowEntry \union {NoEntry}]
      /\ admitted \in [Addresses -> Seq(Nat)] /\ WindowsOK
  BY DEF DashboardInv, DashboardVarsOK
<1>a. RateLimit \in Nat \ {0} /\ RateWindow \in Nat /\ NoEntry \notin [count : Nat, start : Nat]
  BY DashboardAssumption
<1>3. limiter[a] \in WindowEntry /\ limiter[a] # NoEntry
  <2>1. limiter[a] # NoEntry
    <3>1. limiter[a] = NoEntry => Counted(a) = [count |-> 1, start |-> clock]
      BY DEF Counted
    <3>2. limiter[a] = NoEntry => Counted(a).count = 1
      BY <3>1
    <3> QED
      BY <1>1, <1>a, <3>2
  <2> QED
    BY <1>2, <2>1
<1> DEFINE next == [limiter[a] EXCEPT !.count = RateLimit + 1]
<1>4. /\ next \in WindowEntry /\ next.start = limiter[a].start /\ next.count = RateLimit + 1
      /\ next = [count |-> RateLimit + 1, start |-> limiter[a].start] /\ limiter[a].start \in Nat
  BY <1>a, <1>3 DEF WindowEntry
<1>5. next # NoEntry
  <2>1. next \in [count : Nat, start : Nat]
    BY <1>a, <1>4
  <2> QED
    BY <1>a, <2>1
<1>6. limiter' = [limiter EXCEPT ![a] = next]
  BY <1>1
<1> HIDE DEF next
<1>7. WindowOK(next, admitted[a], clock)
  <2>1. WindowOK(limiter[a], admitted[a], clock)
    BY <1>2 DEF WindowsOK
  <2>2. \A lo, hi : Cardinality(Between(admitted[a], lo, hi)) \in Nat
    BY <1>2, BetweenFinite
  <2> QED
    BY <1>a, <1>3, <1>4, <1>5, <2>1, <2>2 DEF WindowOK
<1>8. limiter'[a] = next /\ \A b \in Addresses \ {a} : limiter'[b] = limiter[b]
  BY <1>2, <1>6
<1>9. WindowsOK'
  <2>1. \A b \in Addresses : WindowOK(limiter'[b], admitted'[b], clock')
    BY <1>1, <1>2, <1>7, <1>8 DEF WindowsOK
  <2> QED
    BY <2>1 DEF WindowsOK, WindowOK
<1>10. DashboardVarsOK'
  BY <1>1, <1>2, <1>4, <1>6 DEF DashboardInv, DashboardVarsOK
<1>11. ScansOK' /\ ServedIsFresh' /\ BooksBalance' /\ SettingsSurvive'
  BY <1>1 DEF DashboardInv, ScansOK, ServedIsFresh, BooksBalance, SettingsSurvive, Stored
<1> QED
  BY <1>9, <1>10, <1>11 DEF DashboardInv

(* What a step leaves alone stays right. *)
LEMMA BooksUntouched ==
  ASSUME BooksBalance, UNCHANGED <<totals, booked, console, outdated>>
  PROVE  BooksBalance'
BY DEF BooksBalance

LEMMA SettingsUntouched ==
  ASSUME SettingsSurvive, UNCHANGED <<consoleSettings, settingsFile, asked, unwritten>>
  PROVE  SettingsSurvive'
BY DEF SettingsSurvive, Stored

LEMMA ScansUntouched ==
  ASSUME ScansOK, ServedIsFresh, UNCHANGED <<clock, scanCache, visit, served>>
  PROVE  ScansOK' /\ ServedIsFresh'
BY DEF ScansOK, ServedIsFresh

LEMMA ScanKeeps ==
  ASSUME DashboardInv, ScanNext
  PROVE  DashboardInv'
<1>a. clock \in Nat /\ ScanTTL \in Nat /\ MaxClock \in Nat
  BY DashboardAssumption DEF DashboardInv, DashboardVarsOK
<1>1. ASSUME NEW a \in Addresses, Refused(a)
      PROVE  DashboardInv'
  BY <1>1, RefusedKeeps
<1>2. ASSUME NEW a \in Addresses, ServeCached(a)
      PROVE  DashboardInv'
  <2>1. /\ scanCache # NoScan /\ clock - scanCache.at <= ScanTTL /\ Pass(a)
        /\ served' = [scan |-> scanCache, time |-> clock]
        /\ UNCHANGED <<scanCache, visit, totals, booked, console, outdated>>
        /\ UNCHANGED <<consoleSettings, settingsFile, asked, unwritten>>
    BY <1>2 DEF ServeCached, CacheIsFresh, bookVars, settingsVars
  <2>2. /\ limiter' \in [Addresses -> WindowEntry \union {NoEntry}] /\ admitted' \in [Addresses -> Seq(Nat)]
        /\ WindowsOK' /\ clock' = clock
    BY <2>1, PassKeeps
  <2>3. DashboardVarsOK' /\ ScansOK'
    BY <2>1, <2>2 DEF DashboardInv, DashboardVarsOK, ScansOK
  <2>4. ServedIsFresh'
    <3>1. /\ scanCache.begun \in Nat /\ scanCache.at \in Nat /\ scanCache.finished \in Nat
          /\ scanCache.begun <= scanCache.at /\ scanCache.at <= scanCache.finished
      BY <2>1 DEF DashboardInv, ScansOK
    <3>2. served'.scan = scanCache /\ served'.time = clock
      BY <2>1
    <3>3. served'.time - served'.scan.finished <= ScanTTL
      BY <1>a, <2>1, <3>1, <3>2
    <3> QED
      BY <3>1, <3>2, <3>3 DEF ServedIsFresh
  <2> QED
    BY <2>1, <2>2, <2>3, <2>4, BooksUntouched, SettingsUntouched DEF DashboardInv
<1>3. ASSUME NEW a \in Addresses, NEW v \in Visits, NEW route \in Routes, StartScan(a, v, route)
      PROVE  DashboardInv'
  <2>1. /\ Pass(a) /\ visit' = [visit EXCEPT ![v] = [route |-> route, begun |-> clock]]
        /\ UNCHANGED <<scanCache, served, totals, booked, console, outdated>>
        /\ UNCHANGED <<consoleSettings, settingsFile, asked, unwritten>>
    BY <1>3 DEF StartScan, bookVars, settingsVars
  <2>2. /\ limiter' \in [Addresses -> WindowEntry \union {NoEntry}] /\ admitted' \in [Addresses -> Seq(Nat)]
        /\ WindowsOK' /\ clock' = clock
    BY <2>1, PassKeeps
  <2>3. DashboardVarsOK'
    BY <2>1, <2>2 DEF DashboardInv, DashboardVarsOK
  <2>4. ScansOK'
    <3>1. /\ DOMAIN visit' = Visits /\ visit'[v].begun = clock
          /\ \A w \in Visits \ {v} : visit'[w] = visit[w]
      BY <2>1 DEF DashboardInv, ScansOK
    <3> QED
      BY <1>a, <2>1, <2>2, <3>1 DEF DashboardInv, ScansOK
  <2>5. ServedIsFresh'
    BY <2>1 DEF DashboardInv, ServedIsFresh
  <2> QED
    BY <2>1, <2>2, <2>3, <2>4, <2>5, BooksUntouched, SettingsUntouched DEF DashboardInv
<1>4. ASSUME NEW v \in Visits, FinishScan(v)
      PROVE  DashboardInv'
  <2> DEFINE scan == [begun |-> visit[v].begun, finished |-> clock,
                      at |-> IF visit[v].route = "telemetry" THEN visit[v].begun ELSE clock]
  <2>1. /\ visit[v] # NoVisit /\ scanCache' = scan /\ served' = [scan |-> scan, time |-> clock]
        /\ visit' = [visit EXCEPT ![v] = NoVisit]
        /\ UNCHANGED <<clock, limiter, admitted, totals, booked, console, outdated>>
        /\ UNCHANGED <<consoleSettings, settingsFile, asked, unwritten>>
    BY <1>4 DEF FinishScan, bookVars, settingsVars
  <2>2. visit[v].begun \in Nat /\ visit[v].begun <= clock
    BY <2>1 DEF DashboardInv, ScansOK
  <2>3. /\ scan.begun \in Nat /\ scan.at \in Nat /\ scan.finished = clock
        /\ scan.begun <= scan.at /\ scan.at <= scan.finished
    BY <1>a, <2>2
  <2> HIDE DEF scan
  <2>4. DashboardVarsOK' /\ WindowsOK'
    BY <2>1 DEF DashboardInv, DashboardVarsOK, WindowsOK, WindowOK
  <2>5. ScansOK'
    BY <1>a, <2>1, <2>3 DEF DashboardInv, ScansOK
  <2>6. ServedIsFresh'
    <3>1. served'.scan = scan /\ served'.time = clock
      BY <2>1
    <3> QED
      BY <1>a, <2>3, <3>1 DEF ServedIsFresh
  <2> QED
    BY <2>1, <2>4, <2>5, <2>6, BooksUntouched, SettingsUntouched DEF DashboardInv
<1>5. CASE Tick
  <2>1. /\ clock < MaxClock /\ clock' = clock + 1
        /\ UNCHANGED <<limiter, admitted, scanCache, visit, served, totals, booked, console, outdated>>
        /\ UNCHANGED <<consoleSettings, settingsFile, asked, unwritten>>
    BY <1>5 DEF Tick, bookVars, settingsVars
  <2>2. DashboardVarsOK'
    BY <1>a, <2>1 DEF DashboardInv, DashboardVarsOK
  <2>3. WindowsOK'
    <3>1. clock' \in Nat /\ clock <= clock'
      BY <1>a, <2>1
    <3>2. \A a \in Addresses : WindowOK(limiter[a], admitted[a], clock')
      BY <1>a, <3>1, WindowGoesOn DEF DashboardInv, DashboardVarsOK, WindowsOK
    <3> QED
      BY <2>1, <3>2 DEF WindowsOK, WindowOK
  <2>4. ScansOK' /\ ServedIsFresh'
    BY <1>a, <2>1 DEF DashboardInv, ScansOK, ServedIsFresh
  <2> QED
    BY <2>1, <2>2, <2>3, <2>4, BooksUntouched, SettingsUntouched DEF DashboardInv
<1> QED
  BY <1>1, <1>2, <1>3, <1>4, <1>5 DEF ScanNext

LEMMA BookKeeps ==
  ASSUME DashboardInv, BookNext
  PROVE  DashboardInv'
<1>a. /\ totals \in [trades : Int, profit : Int, detected : Int, failed : Int]
      /\ booked \in [posted : Int, transferred : Int] /\ consoleSettings \in Settings
      /\ totals.profit = booked.posted - booked.transferred
      /\ console # Offline => /\ console.trades = totals.trades
                              /\ ~ outdated => console.profit = totals.profit
  BY DEF DashboardInv, DashboardVarsOK, BooksBalance
<1>b. /\ totals.trades \in Int /\ totals.profit \in Int /\ totals.detected \in Int /\ totals.failed \in Int
      /\ booked.posted \in Int /\ booked.transferred \in Int
  BY <1>a
<1>1. ASSUME NEW a \in Addresses, NEW report \in Reports, PostTrade(a, report)
      PROVE  DashboardInv'
  <2>1. /\ Pass(a)
        /\ totals' = [trades |-> totals.trades + One(report.executed), profit |-> totals.profit + report.profit,
                      detected |-> totals.detected + One(report.detected),
                      failed |-> totals.failed + One(report.failed)]
        /\ booked' = [booked EXCEPT !.posted = booked.posted + report.profit]
        /\ Broadcast(totals')
        /\ UNCHANGED <<scanCache, visit, served>>
        /\ UNCHANGED <<consoleSettings, settingsFile, asked, unwritten>>
    BY <1>1 DEF PostTrade, settingsVars
  <2>2. /\ limiter' \in [Addresses -> WindowEntry \union {NoEntry}] /\ admitted' \in [Addresses -> Seq(Nat)]
        /\ WindowsOK' /\ clock' = clock
    BY <2>1, PassKeeps
  <2>3. /\ report.profit \in Int /\ One(report.executed) \in Int /\ One(report.detected) \in Int
        /\ One(report.failed) \in Int
    BY DashboardAssumption DEF One
  <2>4. totals' \in [trades : Int, profit : Int, detected : Int, failed : Int]
        /\ totals'.profit = totals.profit + report.profit
    BY <1>b, <2>1, <2>3
  <2>5. /\ booked' \in [posted : Int, transferred : Int]
        /\ booked'.posted = booked.posted + report.profit /\ booked'.transferred = booked.transferred
    <3>1. booked' = [booked EXCEPT !.posted = booked.posted + report.profit]
      BY <2>1
    <3> QED
      BY <1>a, <1>b, <2>3, <3>1
  <2>6. DashboardVarsOK'
    BY <2>1, <2>2, <2>4, <2>5 DEF DashboardInv, DashboardVarsOK
  <2>7. BooksBalance'
    <3>1. totals'.profit = booked'.posted - booked'.transferred
      BY <1>a, <1>b, <2>3, <2>4, <2>5
    <3>2. console' # Offline => /\ console'.trades = totals'.trades
                                /\ ~ outdated' => console'.profit = totals'.profit
      <4>1. CASE totals'.trades # totals.trades \/ totals'.profit # totals.profit
        <5>1. console' # Offline => console' = [trades |-> totals'.trades, profit |-> totals'.profit]
          BY <2>1, <4>1 DEF Broadcast
        <5> QED
          BY <5>1
      <4>2. CASE totals'.trades = totals.trades /\ totals'.profit = totals.profit
        <5>1. console' = console /\ outdated' = outdated
          BY <2>1, <4>2 DEF Broadcast
        <5> QED
          BY <1>a, <4>2, <5>1
      <4> QED
        BY <4>1, <4>2
    <3> QED
      BY <3>1, <3>2 DEF BooksBalance
  <2> QED
    BY <2>1, <2>2, <2>6, <2>7, ScansUntouched, SettingsUntouched DEF DashboardInv
<1>2. ASSUME NEW a \in Addresses, LogExecution(a)
      PROVE  DashboardInv'
  <2>1. /\ Pass(a) /\ totals' = [totals EXCEPT !.detected = totals.detected + 1]
        /\ UNCHANGED <<scanCache, visit, served, booked, console, outdated>>
        /\ UNCHANGED <<consoleSettings, settingsFile, asked, unwritten>>
    BY <1>2 DEF LogExecution, settingsVars
  <2>2. /\ limiter' \in [Addresses -> WindowEntry \union {NoEntry}] /\ admitted' \in [Addresses -> Seq(Nat)]
        /\ WindowsOK' /\ clock' = clock
    BY <2>1, PassKeeps
  <2>3. /\ totals' \in [trades : Int, profit : Int, detected : Int, failed : Int]
        /\ totals'.profit = totals.profit /\ totals'.trades = totals.trades
    <3>1. totals' = [totals EXCEPT !.detected = totals.detected + 1]
      BY <2>1
    <3> QED
      BY <1>a, <1>b, <3>1
  <2>4. DashboardVarsOK'
    BY <2>1, <2>2, <2>3 DEF DashboardInv, DashboardVarsOK
  <2>5. BooksBalance'
    BY <1>a, <2>1, <2>3 DEF BooksBalance
  <2> QED
    BY <2>1, <2>2, <2>4, <2>5, ScansUntouched, SettingsUntouched DEF DashboardInv
<1>3. ASSUME NEW a \in Addresses, TransferProfit(a)
      PROVE  DashboardInv'
  <2>1. /\ Pass(a) /\ totals' = [totals EXCEPT !.profit = 0]
        /\ booked' = [booked EXCEPT !.transferred = booked.transferred + totals.profit]
        /\ outdated' = (outdated \/ totals.profit # 0)
        /\ UNCHANGED <<scanCache, visit, served, console>>
        /\ UNCHANGED <<consoleSettings, settingsFile, asked, unwritten>>
    BY <1>3 DEF TransferProfit, settingsVars
  <2>2. /\ limiter' \in [Addresses -> WindowEntry \union {NoEntry}] /\ admitted' \in [Addresses -> Seq(Nat)]
        /\ WindowsOK' /\ clock' = clock
    BY <2>1, PassKeeps
  <2>3. /\ totals' \in [trades : Int, profit : Int, detected : Int, failed : Int]
        /\ totals'.profit = 0 /\ totals'.trades = totals.trades
    <3>1. totals' = [totals EXCEPT !.profit = 0]
      BY <2>1
    <3> QED
      BY <1>a, <3>1
  <2>4. /\ booked' \in [posted : Int, transferred : Int]
        /\ booked'.posted = booked.posted /\ booked'.transferred = booked.transferred + totals.profit
    <3>1. booked' = [booked EXCEPT !.transferred = booked.transferred + totals.profit]
      BY <2>1
    <3> QED
      BY <1>a, <1>b, <3>1
  <2>5. DashboardVarsOK'
    BY <2>1, <2>2, <2>3, <2>4 DEF DashboardInv, DashboardVarsOK
  <2>6. BooksBalance'
    <3>1. totals'.profit = booked'.posted - booked'.transferred
      BY <1>a, <1>b, <2>3, <2>4
    <3>2. ~outdated' => ~outdated /\ totals.profit = 0
      BY <2>1
    <3> QED
      BY <1>a, <2>1, <2>3, <3>1, <3>2 DEF BooksBalance
  <2> QED
    BY <2>1, <2>2, <2>5, <2>6, ScansUntouched, SettingsUntouched DEF DashboardInv
<1>4. ASSUME NEW a \in Addresses, NEW key \in Keys, NEW choice \in SettingValues,
             UpdateSettings(a, key, choice)
      PROVE  DashboardInv'
  <2>1. /\ Pass(a) /\ consoleSettings' = [consoleSettings EXCEPT ![key] = choice]
        /\ asked' = consoleSettings'
        /\ \/ settingsFile' = consoleSettings' /\ unwritten' = FALSE
           \/ settingsFile' \in {settingsFile, TornFile} /\ unwritten' = TRUE
        /\ UNCHANGED <<scanCache, visit, served, totals, booked, console, outdated>>
    BY <1>4 DEF UpdateSettings, bookVars
  <2>2. /\ limiter' \in [Addresses -> WindowEntry \union {NoEntry}] /\ admitted' \in [Addresses -> Seq(Nat)]
        /\ WindowsOK' /\ clock' = clock
    BY <2>1, PassKeeps
  <2>3. consoleSettings' \in Settings
    BY <1>a, <2>1 DEF Settings
  <2>4. DashboardVarsOK'
    BY <2>1, <2>2, <2>3 DEF DashboardInv, DashboardVarsOK
  <2>5. SettingsSurvive'
    <3>1. consoleSettings' \notin {NoSettings, TornFile}
      BY <2>3, DashboardAssumption DEF Settings
    <3> QED
      BY <2>1, <3>1 DEF SettingsSurvive, Stored
  <2> QED
    BY <2>1, <2>2, <2>4, <2>5, ScansUntouched, BooksUntouched DEF DashboardInv
<1>5. ASSUME Connect \/ Disconnect
      PROVE  DashboardInv'
  <2>1. /\ UNCHANGED <<clock, limiter, admitted, scanCache, visit, served, totals, booked>>
        /\ UNCHANGED <<consoleSettings, settingsFile, asked, unwritten>>
        /\ \/ console' = [trades |-> totals.trades, profit |-> totals.profit]
           \/ console' = Offline
    BY <1>5 DEF Connect, Disconnect, serveVars, settingsVars
  <2>2. DashboardVarsOK' /\ WindowsOK'
    BY <2>1 DEF DashboardInv, DashboardVarsOK, WindowsOK, WindowOK
  <2>3. BooksBalance'
    BY <1>a, <2>1 DEF BooksBalance
  <2> QED
    BY <2>1, <2>2, <2>3, ScansUntouched, SettingsUntouched DEF DashboardInv
<1>6. CASE ProcessRestart
  <2>1. /\ limiter' = [a \in Addresses |-> NoEntry] /\ admitted' = [a \in Addresses |-> <<>>]
        /\ scanCache' = NoScan /\ served' = NoScan /\ visit' = [v \in Visits |-> NoVisit]
        /\ totals' = EmptyLedger /\ booked' = [posted |-> 0, transferred |-> 0]
        /\ console' = Offline /\ consoleSettings' = Stored
        /\ asked' = IF unwritten THEN consoleSettings' ELSE asked
        /\ unwritten' = FALSE /\ UNCHANGED <<clock, settingsFile>>
    BY <1>6 DEF ProcessRestart
  <2>2. Stored \in Settings
    BY DEF Stored, Settings, Defaults, DashboardInv, DashboardVarsOK
  <2>3. DashboardVarsOK'
    BY <2>1, <2>2 DEF DashboardInv, DashboardVarsOK, EmptyLedger
  <2>4. WindowsOK'
    <3>1. clock \in Nat
      BY DEF DashboardInv, DashboardVarsOK
    <3>2. \A a \in Addresses : WindowOK(limiter'[a], admitted'[a], clock')
      BY <2>1, <3>1, FreshWindow
    <3> QED
      BY <3>2 DEF WindowsOK, WindowOK
  <2>5. ScansOK' /\ ServedIsFresh' /\ BooksBalance'
    BY <2>1 DEF ScansOK, ServedIsFresh, BooksBalance, EmptyLedger
  <2>6. SettingsSurvive'
    BY <2>1 DEF DashboardInv, SettingsSurvive, Stored
  <2> QED
    BY <2>3, <2>4, <2>5, <2>6 DEF DashboardInv
<1> QED
  BY <1>1, <1>2, <1>3, <1>4, <1>5, <1>6 DEF BookNext

LEMMA DashboardStep == DashboardInv /\ [DashboardNext]_dashboardVars => DashboardInv'
<1> SUFFICES ASSUME DashboardInv, [DashboardNext]_dashboardVars
             PROVE  DashboardInv'
  OBVIOUS
<1>1. CASE DashboardNext
  BY <1>1, ScanKeeps, BookKeeps DEF DashboardNext
<1>2. CASE UNCHANGED dashboardVars
  <2>1. /\ UNCHANGED <<clock, limiter, admitted, scanCache, visit, served>>
        /\ UNCHANGED <<totals, booked, console, outdated>>
        /\ UNCHANGED <<consoleSettings, settingsFile, asked, unwritten>>
    BY <1>2 DEF dashboardVars, serveVars, bookVars, settingsVars
  <2>2. DashboardVarsOK' /\ WindowsOK'
    BY <2>1 DEF DashboardInv, DashboardVarsOK, WindowsOK, WindowOK
  <2> QED
    BY <2>1, <2>2, ScansUntouched, BooksUntouched, SettingsUntouched DEF DashboardInv
<1> QED
  BY <1>1, <1>2

(* However requests fall on the edges of the guard's windows, no interval of *)
(* a window's length lets more than twice the limit through; nobody is       *)
(* served a scan that ended longer than its time to live ago; the displayed  *)
(* books balance; and the process runs on the settings it acknowledged,      *)
(* across restarts (server.js).                                              *)
THEOREM DashboardIsSound == DashboardSpec => []DashboardSound
<1>1. DashboardInv => DashboardSound
  <2> SUFFICES ASSUME DashboardInv
               PROVE  DashboardSound
    OBVIOUS
  <2>1. clock \in 0..MaxClock /\ consoleSettings \in [Keys -> SettingValues \union {Preset}]
    BY DashboardAssumption DEF DashboardInv, DashboardVarsOK, Settings
  <2>2. \A a \in Addresses : limiter[a] # NoEntry => limiter[a].count \in 1..(RateLimit + 1)
    BY DEF DashboardInv, DashboardVarsOK, WindowEntry
  <2>3. RateIsBounded
    BY <2>1 DEF DashboardInv, WindowsOK, WindowOK, RateIsBounded
  <2> QED
    BY <2>1, <2>2, <2>3 DEF DashboardInv, DashboardSound, DashboardTypeOK
<1> QED
  BY <1>1, DashboardInitially, DashboardStep, PTL DEF DashboardSpec

-----------------------------------------------------------------------------
(* The fleet.                                                                *)

Recording == [at : {"mirror", "total", "verdict", "streak"}, on : Hashes, value : Statuses]
Pushing   == [at : {"insert"}, on : Runners, batch : Batches, value : [Metrics -> Readings]]

CallTypeOK == call \in [Callers -> [at : {"none"}] \union Recording \union Pushing]

(* The matrix a push inserts, from the one it has read. *)
Merged(batch, kpis) == [m \in Metrics |-> IF m \in DOMAIN batch THEN batch[m] ELSE kpis[m]]

(* A hash or a runner that no two calls wrote at once has one writer, whose  *)
(* record is the ledger's, or whose copy is still the runner's.              *)
WritersAlone ==
  /\ \A c, d \in Callers :
       /\ call[c].at \in {"mirror", "insert"} /\ call[d].at \in {"mirror", "insert"}
       /\ call[c].on = call[d].on /\ call[c].on \notin raced
       => c = d
  /\ \A c \in Callers :
       call[c].at = "mirror" /\ call[c].on \notin raced => call[c].value = trade_records[call[c].on]
  /\ \A c \in Callers :
       call[c].at = "insert" /\ call[c].on \notin raced =>
         call[c].value = Merged(call[c].batch, runner_kpis[call[c].on])

FleetVarsOK == FleetTypeOK /\ CallTypeOK /\ pushed \in [Runners -> [Metrics -> Readings]]

FleetInv == FleetVarsOK /\ WritersAlone /\ MirrorAgrees /\ CountsAddUp /\ NoLostMetric

Judging == {c \in Callers : call[c].at = "verdict"}

LEMMA JudgingFinite ==
  /\ IsFiniteSet(Judging) /\ Cardinality(Judging) \in Nat
  /\ IsFiniteSet(Judging') /\ Cardinality(Judging') \in Nat
<1>1. IsFiniteSet(Callers)
  BY FleetAssumption
<1>2. Judging \subseteq Callers /\ Judging' \subseteq Callers
  BY DEF Judging
<1> QED
  BY <1>1, <1>2, FS_Subset, FS_CardinalityType

LEMMA MergedType ==
  ASSUME NEW batch \in Batches, NEW kpis \in [Metrics -> Readings]
  PROVE  Merged(batch, kpis) \in [Metrics -> Readings]
<1>1. PICK names \in SUBSET Metrics : batch \in [names -> Readings]
  BY DEF Batches
<1> QED
  BY <1>1 DEF Merged

LEMMA FleetInitially == FleetInit => FleetInv
<1> SUFFICES ASSUME FleetInit
             PROVE  FleetInv
  OBVIOUS
<1>1. FleetVarsOK
  BY FleetAssumption DEF FleetInit, FleetVarsOK, FleetTypeOK, CallTypeOK, Fresh, NoCall
<1>2. WritersAlone /\ MirrorAgrees /\ NoLostMetric
  BY DEF FleetInit, WritersAlone, MirrorAgrees, NoLostMetric, NoCall
<1>3. Judging = {}
  BY DEF FleetInit, Judging, NoCall
<1>4. CountsAddUp
  <2>1. Cardinality(Judging) = 0
    BY <1>3, FS_EmptySet
  <2>2. counters.total = 0 /\ counters.success = 0 /\ counters.failed = 0
    BY DEF FleetInit
  <2> QED
    BY <2>1, <2>2 DEF CountsAddUp, Judging
<1> QED
  BY <1>1, <1>2, <1>4 DEF FleetInv

(* The counters of the calls that are not at their verdict. *)
LEMMA CountsUnmoved ==
  ASSUME FleetInv, NEW c \in Callers, call[c].at # "verdict", call'[c].at # "verdict",
         \A d \in Callers \ {c} : call'[d] = call[d],
         UNCHANGED <<counters.total, counters.success, counters.failed>>
  PROVE  CountsAddUp'
<1>1. Judging' = Judging
  BY DEF Judging
<1> QED
  BY <1>1 DEF FleetInv, CountsAddUp, Judging

LEMMA RecordLocalKeeps ==
  ASSUME FleetInv, NEW c \in Callers, NEW h \in Hashes, NEW status \in Statuses,
         RecordLocal(c, h, status)
  PROVE  FleetInv'
<1>1. /\ call[c] = NoCall /\ call[c].at = "none"
      /\ trade_records' = [trade_records EXCEPT ![h] = status]
      /\ call' = [call EXCEPT ![c] = [at |-> "mirror", on |-> h, value |-> status]]
      /\ raced' = IF Others(c, h) = {} THEN raced ELSE raced \union {h}
      /\ UNCHANGED <<mirror, runner_kpis, alert_level, counters, pushed>>
  BY DEF RecordLocal, NoCall
<1>2. [at |-> "mirror", on |-> h, value |-> status] \in Recording
  BY DEF Recording
<1>3. /\ call \in [Callers -> [at : {"none"}] \union Recording \union Pushing]
      /\ trade_records \in [Hashes -> Statuses \union {Nothing}]
  BY DEF FleetInv, FleetVarsOK, CallTypeOK, FleetTypeOK
<1>4. /\ CallTypeOK' /\ call'[c] = [at |-> "mirror", on |-> h, value |-> status]
      /\ \A d \in Callers \ {c} : call'[d] = call[d]
  BY <1>1, <1>2, <1>3 DEF CallTypeOK
<1>5. /\ trade_records' \in [Hashes -> Statuses \union {Nothing}]
      /\ trade_records'[h] = status
      /\ \A k \in Hashes \ {h} : trade_records'[k] = trade_records[k]
  BY <1>1, <1>3
<1>6. FleetVarsOK'
  BY <1>1, <1>4, <1>5 DEF FleetInv, FleetVarsOK, FleetTypeOK
<1>7. h \notin raced' => \A d \in Callers \ {c} :
        ~(call[d].at \in {"mirror", "insert"} /\ call[d].on = h)
  BY <1>1 DEF Others
<1>8. \A x : x \notin raced' => x \notin raced
  BY <1>1
<1>9. WritersAlone'
  <2>1. ASSUME NEW d \in Callers, NEW e \in Callers,
               call'[d].at \in {"mirror", "insert"}, call'[e].at \in {"mirror", "insert"},
               call'[d].on = call'[e].on, call'[d].on \notin raced'
        PROVE  d = e
    <3>1. CASE d = c \/ e = c
      BY <1>4, <1>7, <2>1, <3>1
    <3>2. CASE d # c /\ e # c
      BY <1>4, <1>8, <2>1, <3>2 DEF FleetInv, WritersAlone
    <3> QED
      BY <3>1, <3>2
  <2>2. ASSUME NEW d \in Callers, call'[d].at = "mirror", call'[d].on \notin raced'
        PROVE  call'[d].value = trade_records'[call'[d].on]
    <3>1. CASE d = c
      BY <1>4, <1>5, <3>1
    <3>2. CASE d # c
      <4>1. call[d].at = "mirror" /\ call[d].on \in Hashes /\ call'[d] = call[d]
        BY <1>3, <1>4, <2>2, <3>2 DEF Recording, Pushing
      <4>2. call[d].on # h
        BY <1>7, <2>2, <3>2, <4>1
      <4> QED
        BY <1>5, <1>8, <2>2, <4>1, <4>2 DEF FleetInv, WritersAlone
    <3> QED
      BY <3>1, <3>2
  <2>3. ASSUME NEW d \in Callers, call'[d].at = "insert", call'[d].on \notin raced'
        PROVE  call'[d].value = Merged(call'[d].batch, runner_kpis'[call'[d].on])
    BY <1>1, <1>4, <1>8, <2>3 DEF FleetInv, WritersAlone
  <2> QED
    BY <2>1, <2>2, <2>3 DEF WritersAlone
<1>10. MirrorAgrees'
  <2> SUFFICES ASSUME NEW k \in Hashes \ raced', At("mirror", k)' = {}
               PROVE  mirror'[k] = trade_records'[k]
    BY DEF MirrorAgrees
  <2>1. k # h
    BY <1>4 DEF At
  <2>2. At("mirror", k) = {}
    BY <1>1, <1>4 DEF At
  <2> QED
    BY <1>1, <1>5, <1>8, <2>1, <2>2 DEF FleetInv, MirrorAgrees
<1>11. NoLostMetric'
  BY <1>1, <1>8 DEF FleetInv, NoLostMetric
<1>12. CountsAddUp'
  BY <1>1, <1>4, CountsUnmoved
<1> QED
  BY <1>6, <1>9, <1>10, <1>11, <1>12 DEF FleetInv

LEMMA RecordMirrorKeeps ==
  ASSUME FleetInv, NEW c \in Callers, RecordMirror(c)
  PROVE  FleetInv'
<1> DEFINE h == call[c].on
<1>1. /\ call[c].at = "mirror"
      /\ mirror' = [mirror EXCEPT ![h] = call[c].value]
      /\ call' = [call EXCEPT ![c] = [call[c] EXCEPT !.at = "total"]]
      /\ UNCHANGED <<trade_records, runner_kpis, alert_level, counters, calls, pushed, raced>>
  BY DEF RecordMirror
<1>2. /\ call \in [Callers -> [at : {"none"}] \union Recording \union Pushing]
      /\ mirror \in [Hashes -> Statuses \union {Nothing}]
  BY DEF FleetInv, FleetVarsOK, CallTypeOK, FleetTypeOK
<1>3. call[c] \in Recording /\ h \in Hashes /\ call[c].value \in Statuses
  BY <1>1, <1>2 DEF Recording, Pushing
<1>4. [call[c] EXCEPT !.at = "total"] \in Recording /\ [call[c] EXCEPT !.at = "total"].at = "total"
  BY <1>3 DEF Recording
<1>5. /\ CallTypeOK' /\ call'[c].at = "total"
      /\ \A d \in Callers \ {c} : call'[d] = call[d]
  BY <1>1, <1>2, <1>4 DEF CallTypeOK
<1> HIDE DEF h
<1>6. /\ mirror' \in [Hashes -> Statuses \union {Nothing}]
      /\ mirror'[h] = call[c].value
      /\ \A k \in Hashes \ {h} : mirror'[k] = mirror[k]
  BY <1>1, <1>2, <1>3
<1>7. FleetVarsOK'
  BY <1>1, <1>5, <1>6 DEF FleetInv, FleetVarsOK, FleetTypeOK
<1>8. WritersAlone'
  BY <1>1, <1>5 DEF FleetInv, WritersAlone
<1>9. MirrorAgrees'
  <2> SUFFICES ASSUME NEW k \in Hashes \ raced, At("mirror", k)' = {}
               PROVE  mirror'[k] = trade_records[k]
    BY <1>1 DEF MirrorAgrees
  <2>1. CASE k = h
    BY <1>1, <1>6, <2>1 DEF FleetInv, WritersAlone, h
  <2>2. CASE k # h
    <3>1. At("mirror", k) = {}
      BY <1>5, <2>2 DEF At, h
    <3> QED
      BY <1>6, <2>2, <3>1 DEF FleetInv, MirrorAgrees
  <2> QED
    BY <2>1, <2>2
<1>10. NoLostMetric'
  BY <1>1 DEF FleetInv, NoLostMetric
<1>11. CountsAddUp'
  BY <1>1, <1>5, CountsUnmoved
<1> QED
  BY <1>7, <1>8, <1>9, <1>10, <1>11 DEF FleetInv

(* The counters are not what the ledger and the metrics are about. *)
LEMMA CountingKeeps ==
  ASSUME FleetInv, NEW c \in Callers, call[c].at \in {"total", "verdict", "streak"},
         counters' \in [total : Nat, success : Nat, failed : Nat, streak : Nat],
         CallTypeOK', call'[c].at \in {"verdict", "streak", "none"},
         \A d \in Callers \ {c} : call'[d] = call[d],
         UNCHANGED <<trade_records, mirror, runner_kpis, alert_level, pushed, raced>>
  PROVE  FleetVarsOK' /\ WritersAlone' /\ MirrorAgrees' /\ NoLostMetric'
<1>1. FleetVarsOK'
  BY DEF FleetInv, FleetVarsOK, FleetTypeOK
<1>2. WritersAlone'
  BY DEF FleetInv, WritersAlone
<1>3. MirrorAgrees' /\ NoLostMetric'
  BY DEF FleetInv, MirrorAgrees, NoLostMetric, At
<1> QED
  BY <1>1, <1>2, <1>3

LEMMA CountTotalKeeps ==
  ASSUME FleetInv, NEW c \in Callers, CountTotal(c)
  PROVE  FleetInv'
<1>1. /\ call[c].at = "total"
      /\ counters' = [counters EXCEPT !.total = counters.total + 1]
      /\ call' = [call EXCEPT ![c] = [call[c] EXCEPT !.at = "verdict"]]
      /\ UNCHANGED <<trade_records, mirror, runner_kpis, alert_level, calls, pushed, raced>>
  BY DEF CountTotal
<1>2. /\ call \in [Callers -> [at : {"none"}] \union Recording \union Pushing]
      /\ counters \in [total : Nat, success : Nat, failed : Nat, streak : Nat]
  BY DEF FleetInv, FleetVarsOK, CallTypeOK, FleetTypeOK
<1>3. [call[c] EXCEPT !.at = "verdict"] \in Recording /\ [call[c] EXCEPT !.at = "verdict"].at = "verdict"
  BY <1>1, <1>2 DEF Recording, Pushing
<1>4. /\ CallTypeOK' /\ call'[c].at = "verdict"
      /\ \A d \in Callers \ {c} : call'[d] = call[d]
  BY <1>1, <1>2, <1>3 DEF CallTypeOK
<1>5. /\ counters' \in [total : Nat, success : Nat, failed : Nat, streak : Nat]
      /\ counters'.total = counters.total + 1
      /\ counters'.success = counters.success /\ counters'.failed = counters.failed
  BY <1>1, <1>2
<1>6. CountsAddUp'
  <2>1. Judging' = Judging \union {c} /\ c \notin Judging
    BY <1>1, <1>4 DEF Judging
  <2>2. Cardinality(Judging') = Cardinality(Judging) + 1
    BY <2>1, JudgingFinite, FS_AddElement
  <2>3. counters.total = counters.success + counters.failed + Cardinality(Judging)
    BY DEF FleetInv, CountsAddUp, Judging
  <2>4. counters'.total = counters'.success + counters'.failed + Cardinality(Judging')
    BY <1>2, <1>5, <2>2, <2>3, JudgingFinite
  <2> QED
    BY <2>4 DEF CountsAddUp, Judging
<1> QED
  BY <1>1, <1>4, <1>5, <1>6, CountingKeeps DEF FleetInv

LEMMA CountVerdictKeeps ==
  ASSUME FleetInv, NEW c \in Callers, CountVerdict(c)
  PROVE  FleetInv'
<1>1. /\ call[c].at = "verdict"
      /\ counters' = IF call[c].value = "success"
                     THEN [counters EXCEPT !.success = counters.success + 1]
                     ELSE [counters EXCEPT !.failed = counters.failed + 1]
      /\ call' = [call EXCEPT ![c] = [call[c] EXCEPT !.at = "streak"]]
      /\ UNCHANGED <<trade_records, mirror, runner_kpis, alert_level, calls, pushed, raced>>
  BY DEF CountVerdict
<1>2. /\ call \in [Callers -> [at : {"none"}] \union Recording \union Pushing]
      /\ counters \in [total : Nat, success : Nat, failed : Nat, streak : Nat]
  BY DEF FleetInv, FleetVarsOK, CallTypeOK, FleetTypeOK
<1>3. [call[c] EXCEPT !.at = "streak"] \in Recording /\ [call[c] EXCEPT !.at = "streak"].at = "streak"
  BY <1>1, <1>2 DEF Recording, Pushing
<1>4. /\ CallTypeOK' /\ call'[c].at = "streak"
      /\ \A d \in Callers \ {c} : call'[d] = call[d]
  BY <1>1, <1>2, <1>3 DEF CallTypeOK
<1>5. /\ counters' \in [total : Nat, success : Nat, failed : Nat, streak : Nat]
      /\ counters'.total = counters.total
      /\ counters'.success + counters'.failed = counters.success + counters.failed + 1
  BY <1>1, <1>2
<1>6. CountsAddUp'
  <2>1. Judging' = Judging \ {c} /\ c \in Judging
    BY <1>1, <1>4 DEF Judging
  <2>2. Cardinality(Judging') = Cardinality(Judging) - 1
    BY <2>1, JudgingFinite, FS_RemoveElement
  <2>3. counters.total = counters.success + counters.failed + Cardinality(Judging)
    BY DEF FleetInv, CountsAddUp, Judging
  <2>4. counters'.total = counters'.success + counters'.failed + Cardinality(Judging')
    BY <1>2, <1>5, <2>2, <2>3, JudgingFinite
  <2> QED
    BY <2>4 DEF CountsAddUp, Judging
<1> QED
  BY <1>1, <1>4, <1>5, <1>6, CountingKeeps DEF FleetInv

LEMMA CountStreakKeeps ==
  ASSUME FleetInv, NEW c \in Callers, CountStreak(c)
  PROVE  FleetInv'
<1>1. /\ call[c].at = "streak"
      /\ counters' = IF call[c].value = "success"
                     THEN [counters EXCEPT !.streak = 0]
                     ELSE [counters EXCEPT !.streak = counters.streak + 1]
      /\ call' = [call EXCEPT ![c] = NoCall]
      /\ UNCHANGED <<trade_records, mirror, runner_kpis, alert_level, calls, pushed, raced>>
  BY DEF CountStreak
<1>2. /\ call \in [Callers -> [at : {"none"}] \union Recording \union Pushing]
      /\ counters \in [total : Nat, success : Nat, failed : Nat, streak : Nat]
  BY DEF FleetInv, FleetVarsOK, CallTypeOK, FleetTypeOK
<1>3. /\ CallTypeOK' /\ call'[c].at = "none"
      /\ \A d \in Callers \ {c} : call'[d] = call[d]
  BY <1>1, <1>2 DEF CallTypeOK, NoCall
<1>4. /\ counters' \in [total : Nat, success : Nat, failed : Nat, streak : Nat]
      /\ UNCHANGED <<counters.total, counters.success, counters.failed>>
  BY <1>1, <1>2
<1>5. CountsAddUp'
  BY <1>1, <1>3, <1>4, CountsUnmoved
<1> QED
  BY <1>1, <1>3, <1>4, <1>5, CountingKeeps DEF FleetInv

LEMMA PushReadKeeps ==
  ASSUME FleetInv, NEW c \in Callers, NEW r \in Runners, NEW batch \in Batches,
         PushRead(c, r, batch)
  PROVE  FleetInv'
<1> DEFINE copy == Merged(batch, runner_kpis[r])
<1>1. /\ call[c].at = "none"
      /\ call' = [call EXCEPT ![c] = [at |-> "insert", on |-> r, batch |-> batch, value |-> copy]]
      /\ raced' = IF Others(c, r) = {} THEN raced ELSE raced \union {r}
      /\ UNCHANGED <<trade_records, mirror, runner_kpis, alert_level, counters, pushed>>
  BY DEF PushRead, NoCall, Merged
<1>2. copy \in [Metrics -> Readings]
  BY MergedType DEF FleetInv, FleetVarsOK, FleetTypeOK
<1>3. [at |-> "insert", on |-> r, batch |-> batch, value |-> copy] \in Pushing
  BY <1>2 DEF Pushing
<1> HIDE DEF copy
<1>4. /\ CallTypeOK' /\ call'[c] = [at |-> "insert", on |-> r, batch |-> batch, value |-> copy]
      /\ \A d \in Callers \ {c} : call'[d] = call[d]
  BY <1>1, <1>3 DEF FleetInv, FleetVarsOK, CallTypeOK
<1>5. FleetVarsOK'
  BY <1>1, <1>4 DEF FleetInv, FleetVarsOK, FleetTypeOK
<1>6. r \notin raced' => \A d \in Callers \ {c} :
        ~(call[d].at \in {"mirror", "insert"} /\ call[d].on = r)
  BY <1>1 DEF Others
<1>7. \A x : x \notin raced' => x \notin raced
  BY <1>1
<1>8. WritersAlone'
  <2>1. ASSUME NEW d \in Callers, NEW e \in Callers,
               call'[d].at \in {"mirror", "insert"}, call'[e].at \in {"mirror", "insert"},
               call'[d].on = call'[e].on, call'[d].on \notin raced'
        PROVE  d = e
    <3>1. CASE d = c \/ e = c
      BY <1>4, <1>6, <2>1, <3>1
    <3>2. CASE d # c /\ e # c
      BY <1>4, <1>7, <2>1, <3>2 DEF FleetInv, WritersAlone
    <3> QED
      BY <3>1, <3>2
  <2>2. ASSUME NEW d \in Callers, call'[d].at = "mirror", call'[d].on \notin raced'
        PROVE  call'[d].value = trade_records'[call'[d].on]
    BY <1>1, <1>4, <1>7, <2>2 DEF FleetInv, WritersAlone
  <2>3. ASSUME NEW d \in Callers, call'[d].at = "insert", call'[d].on \notin raced'
        PROVE  call'[d].value = Merged(call'[d].batch, runner_kpis'[call'[d].on])
    <3>1. CASE d = c
      BY <1>1, <1>4, <3>1 DEF copy
    <3>2. CASE d # c
      BY <1>1, <1>4, <1>7, <2>3, <3>2 DEF FleetInv, WritersAlone
    <3> QED
      BY <3>1, <3>2
  <2> QED
    BY <2>1, <2>2, <2>3 DEF WritersAlone
<1>9. MirrorAgrees'
  <2>1. \A k : At("mirror", k)' = At("mirror", k)
    BY <1>1, <1>4 DEF At
  <2> QED
    BY <1>1, <1>7, <2>1 DEF FleetInv, MirrorAgrees
<1>10. NoLostMetric'
  BY <1>1, <1>7 DEF FleetInv, NoLostMetric
<1>11. CountsAddUp'
  BY <1>1, <1>4, CountsUnmoved
<1> QED
  BY <1>5, <1>8, <1>9, <1>10, <1>11 DEF FleetInv

LEMMA PushInsertKeeps ==
  ASSUME FleetInv, NEW c \in Callers, PushInsert(c)
  PROVE  FleetInv'
<1> DEFINE r == call[c].on
           batch == call[c].batch
<1>1. /\ call[c].at = "insert"
      /\ runner_kpis' = [runner_kpis EXCEPT ![r] = call[c].value]
      /\ pushed' = [pushed EXCEPT ![r] = Merged(batch, pushed[r])]
      /\ call' = [call EXCEPT ![c] = NoCall]
      /\ UNCHANGED <<trade_records, mirror, alert_level, counters, calls, raced>>
  BY DEF PushInsert, Merged
<1>2. /\ call \in [Callers -> [at : {"none"}] \union Recording \union Pushing]
      /\ runner_kpis \in [Runners -> [Metrics -> Readings]]
      /\ pushed \in [Runners -> [Metrics -> Readings]]
  BY DEF FleetInv, FleetVarsOK, CallTypeOK, FleetTypeOK
<1>3. r \in Runners /\ batch \in Batches /\ call[c].value \in [Metrics -> Readings]
  BY <1>1, <1>2 DEF Recording, Pushing
<1>4. Merged(batch, pushed[r]) \in [Metrics -> Readings]
  BY <1>2, <1>3, MergedType
<1>5. /\ CallTypeOK' /\ call'[c].at = "none"
      /\ \A d \in Callers \ {c} : call'[d] = call[d]
  BY <1>1, <1>2 DEF CallTypeOK, NoCall
<1>6. r \notin raced => call[c].value = Merged(batch, runner_kpis[r])
  BY <1>1 DEF FleetInv, WritersAlone
<1>7. r \notin raced => \A d \in Callers \ {c} :
        ~(call[d].at \in {"mirror", "insert"} /\ call[d].on = r)
  BY <1>1 DEF FleetInv, WritersAlone
<1> HIDE DEF r, batch
<1>8. /\ runner_kpis' \in [Runners -> [Metrics -> Readings]]
      /\ pushed' \in [Runners -> [Metrics -> Readings]]
      /\ runner_kpis'[r] = call[c].value /\ pushed'[r] = Merged(batch, pushed[r])
      /\ \A q \in Runners \ {r} : runner_kpis'[q] = runner_kpis[q] /\ pushed'[q] = pushed[q]
  BY <1>1, <1>2, <1>3, <1>4
<1>9. FleetVarsOK'
  BY <1>1, <1>5, <1>8 DEF FleetInv, FleetVarsOK, FleetTypeOK
<1>10. WritersAlone'
  <2>1. ASSUME NEW d \in Callers, NEW e \in Callers,
               call'[d].at \in {"mirror", "insert"}, call'[e].at \in {"mirror", "insert"},
               call'[d].on = call'[e].on, call'[d].on \notin raced'
        PROVE  d = e
    BY <1>1, <1>5, <2>1 DEF FleetInv, WritersAlone
  <2>2. ASSUME NEW d \in Callers, call'[d].at = "mirror", call'[d].on \notin raced'
        PROVE  call'[d].value = trade_records'[call'[d].on]
    BY <1>1, <1>5, <2>2 DEF FleetInv, WritersAlone
  <2>3. ASSUME NEW d \in Callers, call'[d].at = "insert", call'[d].on \notin raced'
        PROVE  call'[d].value = Merged(call'[d].batch, runner_kpis'[call'[d].on])
    <3>1. d # c /\ call'[d] = call[d] /\ call[d].on \in Runners
      BY <1>2, <1>5, <2>3 DEF Recording, Pushing
    <3>2. call[d].on # r
      BY <1>1, <1>7, <2>3, <3>1
    <3> QED
      BY <1>1, <1>8, <2>3, <3>1, <3>2 DEF FleetInv, WritersAlone
  <2> QED
    BY <2>1, <2>2, <2>3 DEF WritersAlone
<1>11. MirrorAgrees'
  <2>1. \A k : At("mirror", k)' = At("mirror", k)
    BY <1>1, <1>5 DEF At
  <2> QED
    BY <1>1, <2>1 DEF FleetInv, MirrorAgrees
<1>12. NoLostMetric'
  BY <1>1, <1>6, <1>8 DEF FleetInv, NoLostMetric
<1>13. CountsAddUp'
  BY <1>1, <1>5, CountsUnmoved
<1> QED
  BY <1>9, <1>10, <1>11, <1>12, <1>13 DEF FleetInv

LEMMA FleetStep ==
  ASSUME FleetInv, [FleetNext]_fleetVars
  PROVE  FleetInv'
<1>1. CASE UNCHANGED <<trade_records, mirror, runner_kpis, counters, call, pushed, raced>>
           /\ alert_level' \in {"GREEN", "RED"}
  <2>1. FleetVarsOK' /\ WritersAlone'
    BY <1>1 DEF FleetInv, FleetVarsOK, FleetTypeOK, CallTypeOK, WritersAlone
  <2>2. MirrorAgrees' /\ CountsAddUp' /\ NoLostMetric'
    BY <1>1 DEF FleetInv, MirrorAgrees, At, CountsAddUp, NoLostMetric
  <2> QED
    BY <2>1, <2>2 DEF FleetInv
<1>2. CASE GlobalKillSwitch \/ ResumeFleet \/ UNCHANGED fleetVars
  BY <1>1, <1>2 DEF GlobalKillSwitch, ResumeFleet, fleetVars, FleetInv, FleetVarsOK, FleetTypeOK
<1>3. CASE \E c \in Callers :
             \/ \E h \in Hashes, status \in Statuses : RecordLocal(c, h, status)
             \/ RecordMirror(c) \/ CountTotal(c) \/ CountVerdict(c) \/ CountStreak(c)
             \/ \E r \in Runners, batch \in Batches : PushRead(c, r, batch)
             \/ PushInsert(c)
  BY <1>3, RecordLocalKeeps, RecordMirrorKeeps, CountTotalKeeps, CountVerdictKeeps,
     CountStreakKeeps, PushReadKeeps, PushInsertKeeps
<1> QED
  BY <1>2, <1>3 DEF FleetNext

(* Ledger and mirror agree on every trade that no two calls wrote at once,   *)
(* the counters add up with the calls under way, and a runner that no two    *)
(* calls wrote at once has lost no metric; for any number of calls, hashes,  *)
(* runners and metrics (main.rs, instrumentation.rs).                        *)
THEOREM FleetIsSound == FleetSpec => []FleetSound
<1>1. FleetInv => FleetSound
  BY DEF FleetInv, FleetVarsOK, FleetSound
<1> QED
  BY <1>1, FleetInitially, FleetStep, PTL DEF FleetSpec
=============================================================================
