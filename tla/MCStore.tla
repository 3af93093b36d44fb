------------------------------ MODULE MCStore -------------------------------
(***************************************************************************)
(* A main thread, coroutines and a few contexts, in the builds with and    *)
(* without the context cache.                                              *)
(***************************************************************************)
EXTENDS ContextStore, TLC

\* Only the main thread is named: the coroutines are interchangeable, and
\* the contexts are.
MCSymmetry == Permutations(Threads \ {Main}) \cup Permutations(Contexts)
=============================================================================
