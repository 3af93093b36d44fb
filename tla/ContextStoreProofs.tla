------------------------- MODULE ContextStoreProofs -------------------------
(***************************************************************************)
(* The context store, for any threads, contexts and settings: its type     *)
(* invariant, the isolation of threads, and, unless a cache outlives its   *)
(* Lua state, that a computation only touches live contexts and that the   *)
(* store implements ThreadContexts.                                        *)
(***************************************************************************)
EXTENDS ContextStore, TLAPS

----------------------------------------------------------------------------
(* The type invariant, with what the table adds to it: a thread's context  *)
(* exists, an address without a thread has no entry, and the two halves of *)
(* the cache are set together.                                             *)

TableIsLive == \A t \in Threads : table[t] # None => table[t] \in live

DeadHaveNoEntry == \A t \in Threads \ threads : table[t] = None

CacheIsPair == cacheL # None => cacheC # None

StoreInv == TypeOK /\ TableIsLive /\ DeadHaveNoEntry /\ CacheIsPair

LEMMA PushedContexts ==
  ASSUME StoreInv, NEW t \in Threads, NEW c \in Pushed(t)
  PROVE  /\ c \in Contexts
         /\ c # None
         /\ table[t] = None => c \notin live
         /\ table[t] # None => c = table[t] /\ c \in live
         /\ Holds(c) \in Values
  BY StoreAssumption DEF StoreInv, TypeOK, TableIsLive, CacheIsPair, Pushed, Holds

LEMMA StoreInvInit == Init => StoreInv
  BY StoreAssumption
     DEF Init, StoreInv, TypeOK, TableIsLive, DeadHaveNoEntry, CacheIsPair

LEMMA StoreInvNext == StoreInv /\ [Next]_vars => StoreInv'
<1> SUFFICES ASSUME StoreInv, [Next]_vars PROVE StoreInv'
  OBVIOUS
<1> USE StoreAssumption
        DEF StoreInv, TypeOK, TableIsLive, DeadHaveNoEntry, CacheIsPair
<1>1. ASSUME NEW t \in Running, ComputeHit(t) PROVE StoreInv'
  <2>1. cacheC \in Contexts
    BY <1>1 DEF ComputeHit, Running, Hit
  <2> QED BY <1>1, <2>1 DEF ComputeHit, Running
<1>2. ASSUME NEW t \in Running, ComputeMiss(t) PROVE StoreInv'
  BY <1>2, PushedContexts DEF ComputeMiss, Running, Cache
<1>3. ASSUME NEW t \in Running, GetContext(t) PROVE StoreInv'
  BY <1>3, PushedContexts DEF GetContext, Running, Cache
<1>4. ASSUME NEW t \in Running, NEW c \in live \cap refs, SetContext(t, c)
      PROVE  StoreInv'
  BY <1>4, PushedContexts DEF SetContext, Running, Cache
<1>5. ASSUME NEW c \in live \cap refs, NEW v \in Values, Modify(c, v)
      PROVE  StoreInv'
  BY <1>5 DEF Modify
<1>6. ASSUME NEW c \in live \cap refs, NEW d \in Contexts, Duplicate(c, d)
      PROVE  StoreInv'
  BY <1>6 DEF Duplicate
<1>7. ASSUME NEW t \in Threads, CreateThread(t) PROVE StoreInv'
  BY <1>7 DEF CreateThread
<1>8. ASSUME NEW x \in refs, Drop(x) PROVE StoreInv'
  BY <1>8 DEF Drop
<1>9. ASSUME NEW t \in Threads, CollectThread(t) PROVE StoreInv'
  BY <1>9 DEF CollectThread, Cleared
<1>10. ASSUME NEW c \in Contexts, CollectContext(c) PROVE StoreInv'
  BY <1>10 DEF CollectContext
<1>11. CASE Reopen
  BY <1>11 DEF Reopen
<1>12. CASE UNCHANGED vars
  BY <1>12 DEF vars
<1> QED BY <1>1, <1>2, <1>3, <1>4, <1>5, <1>6, <1>7, <1>8, <1>9, <1>10,
           <1>11, <1>12 DEF Next

\* Every variable of the store has its type in every reachable state, and the
\* contexts of the table exist.
THEOREM StoreInvariant == Spec => []StoreInv
  BY StoreInvInit, StoreInvNext, PTL DEF Spec

THEOREM StoreTypes == Spec => []TypeOK
<1>1. StoreInv => TypeOK
  BY DEF StoreInv
<1> QED BY <1>1, StoreInvariant, PTL

----------------------------------------------------------------------------
(* Isolation.  It is inductive with StoreInv: a new context is in no other *)
(* thread's entry because the contexts of the table are live.              *)

LEMMA IsolationNext == StoreInv /\ Isolation /\ [Next]_vars => Isolation'
<1> SUFFICES ASSUME StoreInv, Isolation, [Next]_vars PROVE Isolation'
  OBVIOUS
<1> USE StoreAssumption DEF StoreInv, TypeOK, TableIsLive, Isolation
<1>1. ASSUME NEW t \in Running, ComputeMiss(t) PROVE Isolation'
  BY <1>1, PushedContexts DEF ComputeMiss, Running
<1>2. ASSUME NEW t \in Running, GetContext(t) PROVE Isolation'
  BY <1>2, PushedContexts DEF GetContext, Running
<1>3. ASSUME NEW t \in Running, NEW c \in live \cap refs, SetContext(t, c)
      PROVE  Isolation'
  BY <1>3 DEF SetContext, Running
<1>4. ASSUME NEW t \in Threads, CollectThread(t) PROVE Isolation'
  BY <1>4 DEF CollectThread, Cleared
<1>5. ASSUME NEW c \in Contexts, CollectContext(c) PROVE Isolation'
  BY <1>5 DEF CollectContext
<1>6. CASE Reopen
  BY <1>6 DEF Reopen
<1>7. ASSUME UNCHANGED <<table, installed>> PROVE Isolation'
  BY <1>7
<1> QED BY <1>1, <1>2, <1>3, <1>4, <1>5, <1>6, <1>7
        DEF Next, vars, ComputeHit, Modify, Duplicate, CreateThread, Drop

\* Two threads have the same context only when a script installed it: the
\* promise of ldecNumber.pod, for any number of threads and contexts and in
\* every build, although threads die and addresses are reused.
THEOREM ThreadsAreIsolated == Spec => []Isolation
<1>1. Init => Isolation
  BY DEF Init, Isolation
<1> QED BY <1>1, IsolationNext, StoreInvariant, PTL DEF Spec

----------------------------------------------------------------------------
(* The cache.  It is coherent with the table, unless the process opens a   *)
(* second Lua state with the static variables of the first one.            *)

OneState == ~(CacheEnabled /\ Reopens)

Coherent == CacheEnabled /\ cacheL # None => table[cacheL] = cacheC

LEMMA CoherentNext ==
  OneState /\ StoreInv /\ Coherent /\ [Next]_vars => Coherent'
<1> SUFFICES ASSUME OneState, StoreInv, Coherent, [Next]_vars PROVE Coherent'
  OBVIOUS
<1> USE StoreAssumption
        DEF StoreInv, TypeOK, TableIsLive, CacheIsPair, Coherent, Cache
<1>1. ASSUME NEW t \in Running, ComputeMiss(t) PROVE Coherent'
  BY <1>1, PushedContexts DEF ComputeMiss, Running
<1>2. ASSUME NEW t \in Running, GetContext(t) PROVE Coherent'
  BY <1>2, PushedContexts DEF GetContext, Running
<1>3. ASSUME NEW t \in Running, NEW c \in live \cap refs, SetContext(t, c)
      PROVE  Coherent'
  BY <1>3 DEF SetContext, Running
<1>4. ASSUME NEW t \in Threads, CollectThread(t) PROVE Coherent'
  BY <1>4 DEF CollectThread, Cleared, WeakKeys
<1>5. CASE Reopen
  BY <1>5 DEF Reopen, OneState
<1>6. ASSUME UNCHANGED <<table, cacheL, cacheC>> PROVE Coherent'
  BY <1>6
<1> QED BY <1>1, <1>2, <1>3, <1>4, <1>5, <1>6
        DEF Next, vars, ComputeHit, Modify, Duplicate, CreateThread, Drop,
            CollectContext

THEOREM CacheIsCoherent == OneState => (Spec => []Coherent)
<1> SUFFICES ASSUME OneState PROVE Spec => []Coherent
  OBVIOUS
<1>1. Init => Coherent
  BY DEF Init, Coherent
<1>2. StoreInv /\ Coherent /\ [Next]_vars => Coherent'
  BY CoherentNext
<1> QED BY <1>1, <1>2, StoreInvariant, PTL DEF Spec

LEMMA ContextIsLiveNext ==
  StoreInv /\ Coherent /\ ContextIsLive /\ [Next]_vars => ContextIsLive'
<1> SUFFICES ASSUME StoreInv, Coherent, ContextIsLive, [Next]_vars
             PROVE  ContextIsLive'
  OBVIOUS
<1> USE StoreAssumption DEF ContextIsLive
<1>1. ASSUME NEW t \in Running, ComputeHit(t) PROVE ContextIsLive'
  <2>1. cacheC \in live
    BY <1>1 DEF ComputeHit, Hit, Running, Coherent, StoreInv, TypeOK,
                TableIsLive, CacheIsPair
  <2> QED BY <1>1, <2>1 DEF ComputeHit
<1>2. ASSUME NEW t \in Running, ComputeMiss(t) PROVE ContextIsLive'
  BY <1>2 DEF ComputeMiss
<1>3. CASE UNCHANGED vars
  BY <1>3 DEF vars
<1>4. CASE used' = None
  BY <1>4
<1> QED BY <1>1, <1>2, <1>3, <1>4
        DEF Next, GetContext, SetContext, Modify, Duplicate, CreateThread,
            Drop, CollectThread, CollectContext, Reopen

\* The pointer a computation uses is never dangling.
THEOREM ContextsAreLive == OneState => (Spec => []ContextIsLive)
<1> SUFFICES ASSUME OneState PROVE Spec => []ContextIsLive
  OBVIOUS
<1>1. Init => ContextIsLive
  BY DEF Init, ContextIsLive
<1>2. Spec => []Coherent
  BY CacheIsCoherent
<1> QED BY <1>1, <1>2, ContextIsLiveNext, StoreInvariant, PTL DEF Spec

----------------------------------------------------------------------------
(* Refinement.  What the abstract contexts know of an address without a    *)
(* thread, the table shows.                                                *)

LEMMA CurrentIsTable == StoreInv => Current = table
  BY DEF StoreInv, TypeOK, DeadHaveNoEntry, Current

LEMMA ImplementsNext ==
  StoreInv /\ Coherent /\ [Next]_vars => [Promise!Next]_(Promise!vars)
<1> SUFFICES ASSUME StoreInv, Coherent, [Next]_vars
             PROVE  [Promise!Next]_(Promise!vars)
  OBVIOUS
<1>0. Current = table /\ Current' = table'
  <2>1. StoreInv'
    BY StoreInvNext
  <2>2. Current' = table'
    BY <2>1 DEF StoreInv, TypeOK, DeadHaveNoEntry, Current
  <2> QED BY <2>2, CurrentIsTable
<1> USE <1>0 DEF Promise!Next
<1>1. ASSUME NEW t \in Running, ComputeHit(t) PROVE Promise!Next
  <2>1. t \in threads /\ table[t] = cacheC /\ cacheC # None /\ cacheC \in live
    BY <1>1, StoreAssumption
    DEF ComputeHit, Hit, Running, Coherent, StoreInv, TypeOK, TableIsLive,
        CacheIsPair
  <2>2. table = [ table EXCEPT ![t] = cacheC ] /\ live = live \cup {cacheC}
    BY <2>1 DEF StoreInv, TypeOK
  <2>3. cacheC \in Promise!Own(t) /\ Promise!Held(cacheC) = val[cacheC]
    BY <2>1 DEF Promise!Own, Promise!Held
  <2>4. Promise!Use(t)
    BY <1>1, <2>2, <2>3 DEF ComputeHit, Promise!Use
  <2> QED BY <2>1, <2>4
<1>2. ASSUME NEW t \in Running, ComputeMiss(t) PROVE Promise!Next
  <2>1. Promise!Use(t)
    BY <1>2 DEF ComputeMiss, Pushed, Holds, Promise!Use, Promise!Own,
                Promise!Held
  <2> QED BY <2>1 DEF Running, StoreInv, TypeOK
<1>3. ASSUME NEW t \in Running, GetContext(t) PROVE Promise!Next
  <2>1. Promise!Retrieve(t)
    BY <1>3 DEF GetContext, Pushed, Holds, Promise!Retrieve, Promise!Own,
                Promise!Held
  <2> QED BY <2>1 DEF Running, StoreInv, TypeOK
<1>4. ASSUME NEW t \in Running, NEW c \in live \cap refs, SetContext(t, c)
      PROVE  Promise!Next
  <2>1. Promise!Install(t, c)
    BY <1>4 DEF SetContext, Pushed, Holds, Promise!Install, Promise!Own,
                Promise!Held
  <2> QED BY <2>1 DEF Running, StoreInv, TypeOK
<1>5. ASSUME NEW c \in live \cap refs, NEW v \in Values, Modify(c, v)
      PROVE  Promise!Next
  BY <1>5 DEF Modify, Promise!Change
<1>6. ASSUME NEW c \in live \cap refs, NEW d \in Contexts, Duplicate(c, d)
      PROVE  Promise!Next
  BY <1>6 DEF Duplicate, Promise!Copy
<1>7. ASSUME NEW t \in Threads, CollectThread(t) PROVE Promise!Next
  BY <1>7 DEF CollectThread, Cleared, StoreInv, TypeOK, Promise!End
<1>8. ASSUME NEW c \in Contexts, CollectContext(c) PROVE Promise!Next
  BY <1>8 DEF CollectContext, Promise!Free
<1>9. CASE Reopen
  BY <1>9, StoreAssumption DEF Reopen, Promise!Restart
<1>10. ASSUME NEW t \in Threads, CreateThread(t) PROVE Promise!Next
  <2>1. table = [ table EXCEPT ![t] = None ]
    BY <1>10 DEF CreateThread, StoreInv, TypeOK, DeadHaveNoEntry
  <2>2. Promise!Begin(t)
    BY <1>10, <2>1 DEF CreateThread, Promise!Begin
  <2> QED BY <2>2
<1>11. ASSUME NEW x \in refs, Drop(x) PROVE Promise!Next
  BY <1>11 DEF Drop, Promise!Idle
<1>12. CASE UNCHANGED vars
  BY <1>12 DEF vars, Promise!vars
<1> QED BY <1>1, <1>2, <1>3, <1>4, <1>5, <1>6, <1>7, <1>8, <1>9, <1>10,
           <1>11, <1>12 DEF Next

\* The store implements ThreadContexts, with or without the cache: a thread
\* always computes with its own current context, made with the default
\* settings, and nothing but the script changes which context that is.
THEOREM StoreImplementsContexts == OneState => (Spec => Implements)
<1> SUFFICES ASSUME OneState PROVE Spec => Implements
  OBVIOUS
<1>1. Init => Promise!Init
  BY StoreAssumption DEF Init, Promise!Init, Current
<1>2. Spec => []Coherent
  BY CacheIsCoherent
<1> QED BY <1>1, <1>2, ImplementsNext, StoreInvariant, PTL
        DEF Spec, Implements, Promise!Spec
=============================================================================
