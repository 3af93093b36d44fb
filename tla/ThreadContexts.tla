--------------------------- MODULE ThreadContexts ---------------------------
(***************************************************************************)
(* What the module promises about contexts (ldecNumber.pod, "decimal       *)
(* contexts"), without its table, its cache or Lua's collector: every Lua  *)
(* thread has a current context, made with the default settings when it is *)
(* first needed; a thread computes with its own current context, and a new *)
(* thread has none, whichever thread had its address before; contexts are  *)
(* objects that scripts can change, copy, and install in any thread.       *)
(***************************************************************************)
CONSTANTS
  Threads,        \* the threads, by the address of their lua_State
  Contexts,       \* the context objects, by address
  Values,         \* the settings and status a context can hold
  Default,        \* those of a new context
  None            \* no context

VARIABLES
  exists,         \* the threads there are
  current,        \* the current context of each thread, or None
  val,            \* the value of each context
  live,           \* the contexts that exist
  used            \* the last computation: its thread, its context, what the
                  \* context held; None after any other step

vars == <<exists, current, val, live, used>>

Init == /\ exists \in SUBSET Threads
        /\ current = [ t \in Threads |-> None ]
        /\ val \in [ Contexts -> Values ]
        /\ live = {}
        /\ used = None

\* The context of t: the current one, or any new one.
Own(t) == IF current[t] # None THEN { current[t] } ELSE Contexts \ live

\* What a context holds when a thread comes to use it.
Held(c) == IF c \in live THEN val[c] ELSE Default

Use(t) ==
  \E c \in Own(t), v \in Values :
    /\ live' = live \cup {c}
    /\ current' = [ current EXCEPT ![t] = c ]
    /\ val' = [ val EXCEPT ![c] = v ]
    /\ used' = <<t, c, Held(c)>>
    /\ UNCHANGED exists

Retrieve(t) ==
  \E c \in Own(t) :
    /\ live' = live \cup {c}
    /\ current' = [ current EXCEPT ![t] = c ]
    /\ val' = [ val EXCEPT ![c] = Held(c) ]
    /\ used' = None
    /\ UNCHANGED exists

\* The previous context is returned, so that it comes to exist here too.
Install(t, new) ==
  \E c \in Own(t) :
    /\ live' = live \cup {c}
    /\ current' = [ current EXCEPT ![t] = new ]
    /\ val' = [ val EXCEPT ![c] = Held(c) ]
    /\ used' = None
    /\ UNCHANGED exists

Change(c, v) == /\ val' = [ val EXCEPT ![c] = v ]
                /\ used' = None
                /\ UNCHANGED <<exists, current, live>>

Copy(c, d) == /\ d \notin live
              /\ live' = live \cup {d}
              /\ val' = [ val EXCEPT ![d] = val[c] ]
              /\ used' = None
              /\ UNCHANGED <<exists, current>>

\* A new thread, at any address that is free, has no context yet.
Begin(t) == /\ t \notin exists
            /\ exists' = exists \cup {t}
            /\ current' = [ current EXCEPT ![t] = None ]
            /\ used' = None
            /\ UNCHANGED <<val, live>>

\* A thread ends, and its context is nobody's.
End(t) == /\ exists' = exists \ {t}
          /\ current' = [ current EXCEPT ![t] = None ]
          /\ used' = None
          /\ UNCHANGED <<val, live>>

\* A context that is nobody's current context goes away.
Free(c) == /\ \A t \in Threads : current[t] # c
           /\ live' = live \ {c}
           /\ used' = None
           /\ UNCHANGED <<exists, current, val>>

\* The whole Lua state is closed, and another one opened.
Restart == /\ exists' \in SUBSET Threads
           /\ current' = [ t \in Threads |-> None ]
           /\ live' = {}
           /\ used' = None
           /\ UNCHANGED val

Idle == used' = None /\ UNCHANGED <<exists, current, val, live>>

Next == \/ \E t \in exists : Use(t) \/ Retrieve(t) \/ End(t)
        \/ \E t \in exists, c \in live : Install(t, c)
        \/ \E t \in Threads : Begin(t)
        \/ \E c \in live, v \in Values : Change(c, v)
        \/ \E c \in live, d \in Contexts : Copy(c, d)
        \/ \E c \in Contexts : Free(c)
        \/ Restart
        \/ Idle

Spec == Init /\ [][Next]_vars
=============================================================================
