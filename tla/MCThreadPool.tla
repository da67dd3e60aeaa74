---------------------------- MODULE MCThreadPool ----------------------------
(***************************************************************************)
(* The pool of an inventory has three threads; the bound on jobs makes     *)
(* some thread take a second job and lets all of them sleep in between.    *)
(***************************************************************************)
EXTENDS ThreadPool
=============================================================================
