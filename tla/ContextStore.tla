---------------------------- MODULE ContextStore ----------------------------
(***************************************************************************)
(* How ldecNumber.c keeps the context of every Lua thread: a table in the  *)
(* C functions' environment maps a thread to its context, and, when built  *)
(* with LDN_ENABLE_CACHE, two static variables cache the last entry used.  *)
(* Contexts are userdata: Lua's collector frees one that neither the       *)
(* script nor the table refers to.  It cannot see the cache.  A thread the *)
(* script has dropped is collected too, with its entry, when the table's   *)
(* keys are weak; its address may then be given to a new thread.           *)
(***************************************************************************)
CONSTANTS
  Threads,        \* addresses of lua_States
  Main,           \* the main thread of a Lua state
  Contexts,       \* addresses of decContexts
  Values,         \* what a decContext can hold (settings and status)
  Default,        \* LDN_CONTEXT_DEFAULT
  None,           \* nil, NULL
  CacheEnabled,   \* LDN_ENABLE_CACHE
  Reopens         \* does the process close its Lua state and open another?

ASSUME StoreAssumption ==
  /\ Main \in Threads
  /\ Default \in Values
  /\ None \notin Threads \cup Contexts
  /\ CacheEnabled \in BOOLEAN
  /\ Reopens \in BOOLEAN

VARIABLES
  table,          \* the shared environment: thread -> context, or None
  cacheL,         \* L_of_context_cache
  cacheC,         \* context_cache
  val,            \* the memory of each context
  live,           \* the contexts allocated and not freed
  threads,        \* the threads allocated and not freed
  refs,           \* the threads and contexts the script refers to
  installed,      \* history: the live contexts setcontext was called with
  used            \* the last computation <<thread, context, what it read>>

vars == <<table, cacheL, cacheC, val, live, threads, refs, installed, used>>

Init == /\ table = [ t \in Threads |-> None ]
        /\ cacheL = None
        /\ cacheC = None
        /\ val \in [ Contexts -> {Default} ]
        /\ live = {}
        /\ threads = {Main}
        /\ refs = {Main}
        /\ installed = {}
        /\ used = None

\* Mutations: the keys' mode does not depend on the build.
StrongKeys == FALSE
AlwaysWeak == TRUE

\* The keys are weak, so that threads are collected, unless the cache is on.
WeakKeys == ~CacheEnabled

\* Mutation: the cached context is only replaced with its thread.
CacheFirst(t, c) ==
  IF CacheEnabled THEN cacheL' = t /\ cacheC' = (IF cacheL = t THEN cacheC ELSE c)
                  ELSE UNCHANGED <<cacheL, cacheC>>

Cache(t, c) == IF CacheEnabled THEN cacheL' = t /\ cacheC' = c
                               ELSE UNCHANGED <<cacheL, cacheC>>

\* Mutation: a new thread gets the main thread's context.
PushedShared(t) ==
  CASE table[t] # None -> { table[t] }
    [] table[t] = None /\ table[Main] # None -> { table[Main] }
    [] OTHER -> Contexts \ live

\* Mutation: a thread without an entry is not noticed.
PushedUnchecked(t) == { table[t] }

\* ldn_push_context: the context in the table, or a new one with the default
\* settings that is put there.
Pushed(t) == IF table[t] # None THEN { table[t] } ELSE Contexts \ live
Holds(c) == IF c \in live THEN val[c] ELSE Default

----------------------------------------------------------------------------
(* The calls of a script running in thread t.                              *)

Running == threads \cap refs

\* ldn_get_context, then a computation that reads the context and ors its
\* status into it.  A cache hit does not look at the table.
Hit(t) == CacheEnabled /\ cacheL = t

ComputeHit(t) ==
  \E v \in Values :
    /\ Hit(t)
    /\ val' = [ val EXCEPT ![cacheC] = v ]
    /\ used' = <<t, cacheC, val[cacheC]>>
    /\ UNCHANGED <<table, cacheL, cacheC, live, threads, refs, installed>>

ComputeMiss(t) ==
  \E c \in Pushed(t), v \in Values :
    /\ ~Hit(t)
    /\ table' = [ table EXCEPT ![t] = c ]
    /\ live' = live \cup {c}
    /\ val' = [ val EXCEPT ![c] = v ]
    /\ used' = <<t, c, Holds(c)>>
    /\ Cache(t, c)
    /\ UNCHANGED <<threads, refs, installed>>

GetContext(t) ==
  \E c \in Pushed(t) :
    /\ table' = [ table EXCEPT ![t] = c ]
    /\ live' = live \cup {c}
    /\ val' = [ val EXCEPT ![c] = Holds(c) ]
    /\ refs' = refs \cup {c}
    /\ used' = None
    /\ Cache(t, c)
    /\ UNCHANGED <<threads, installed>>

\* setcontext returns the previous context, made if there was none.
SetContext(t, new) ==
  \E old \in Pushed(t) :
    /\ live' = live \cup {old}
    /\ val' = [ val EXCEPT ![old] = Holds(old) ]
    /\ table' = [ table EXCEPT ![t] = new ]
    /\ refs' = refs \cup {old}
    /\ installed' = installed \cup {new}
    /\ used' = None
    /\ Cache(t, new)
    /\ UNCHANGED threads

\* A context method called on a context the script holds, in any thread.
Modify(c, v) == /\ val' = [ val EXCEPT ![c] = v ]
                /\ used' = None
                /\ UNCHANGED <<table, cacheL, cacheC, live, threads, refs,
                               installed>>

Duplicate(c, d) == /\ d \notin live
                   /\ live' = live \cup {d}
                   /\ val' = [ val EXCEPT ![d] = val[c] ]
                   /\ refs' = refs \cup {d}
                   /\ used' = None
                   /\ UNCHANGED <<table, cacheL, cacheC, threads, installed>>

----------------------------------------------------------------------------
(* Lua itself.                                                             *)

CreateThread(t) == /\ t \notin threads
                   /\ threads' = threads \cup {t}
                   /\ refs' = refs \cup {t}
                   /\ used' = None
                   /\ UNCHANGED <<table, cacheL, cacheC, val, live, installed>>

Drop(x) == /\ x # Main
           /\ refs' = refs \ {x}
           /\ used' = None
           /\ UNCHANGED <<table, cacheL, cacheC, val, live, threads, installed>>

\* Mutation: an entry is found by its thread's address, and outlives the thread.
EntryStays(t) == table

\* The key of an entry is the thread itself, whose end is the entry's.
Cleared(t) == [ table EXCEPT ![t] = None ]

\* A thread is garbage when the script has no reference to it and it is no
\* strong key of the table.
CollectThread(t) == /\ t \in threads \ refs
                    /\ WeakKeys \/ table[t] = None
                    /\ threads' = threads \ {t}
                    /\ table' = Cleared(t)
                    /\ used' = None
                    /\ UNCHANGED <<cacheL, cacheC, val, live, refs, installed>>

CollectContext(c) == /\ c \in live \ refs
                     /\ \A t \in Threads : table[t] # c
                     /\ live' = live \ {c}
                     /\ installed' = installed \ {c}
                     /\ used' = None
                     /\ UNCHANGED <<table, cacheL, cacheC, val, threads, refs>>

\* lua_close and luaopen_ldecnumber in a new state, whose main thread may be
\* given the address of the old one.  The static variables stay.
Reopen == /\ Reopens
          /\ table' = [ t \in Threads |-> None ]
          /\ live' = {}
          /\ threads' = {Main}
          /\ refs' = {Main}
          /\ installed' = {}
          /\ used' = None
          /\ UNCHANGED <<cacheL, cacheC, val>>

Next == \/ \E t \in Running : \/ ComputeHit(t)
                              \/ ComputeMiss(t)
                              \/ GetContext(t)
                              \/ \E c \in live \cap refs : SetContext(t, c)
        \/ \E c \in live \cap refs, v \in Values : Modify(c, v)
        \/ \E c \in live \cap refs, d \in Contexts : Duplicate(c, d)
        \/ \E t \in Threads : CreateThread(t)
        \/ \E x \in refs : Drop(x)
        \/ \E t \in Threads : CollectThread(t)
        \/ \E c \in Contexts : CollectContext(c)
        \/ Reopen

Spec == Init /\ [][Next]_vars

\* Lua's collector reaches every dead thread.
FairSpec == Spec /\ \A t \in Threads : WF_vars(CollectThread(t))

----------------------------------------------------------------------------
(* Properties.                                                             *)

TypeOK == /\ table \in [ Threads -> Contexts \cup {None} ]
          /\ cacheL \in Threads \cup {None}
          /\ cacheC \in Contexts \cup {None}
          /\ val \in [ Contexts -> Values ]
          /\ live \subseteq Contexts
          /\ threads \subseteq Threads
          /\ refs \subseteq threads \cup live
          /\ installed \subseteq live
          /\ used \in {None} \cup (Threads \X Contexts \X Values)

\* A computation never reads or writes a context that has been freed: the
\* cached pointer, which the collector does not see, does not dangle.
ContextIsLive == used # None => used[2] \in live

\* Unless a script installs contexts with setcontext, no two threads ever
\* share one: what a thread does to its context affects no other thread,
\* although threads and contexts come and go and their addresses are reused.
Isolation ==
  \A t, u \in Threads :
    t # u /\ table[t] = table[u] /\ table[t] # None => table[t] \in installed

\* A thread the script has dropped does not stay in memory because of the
\* context table.
ThreadsAreCollected ==
  \A t \in Threads : t \in threads \ refs ~> t \notin threads

\* The context a thread would compute with; no thread, no context.
Current == [ t \in Threads |-> IF t \in threads THEN table[t] ELSE None ]

\* Every run of the store is a run of the contexts the manual describes: the
\* cache is never seen, and a new thread never finds the context of the thread
\* that had its address before.
Promise == INSTANCE ThreadContexts WITH exists <- threads, current <- Current
Implements == Promise!Spec
=============================================================================
