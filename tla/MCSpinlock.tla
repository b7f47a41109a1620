----------------------------- MODULE MCSpinlock -----------------------------
(* Two CPUs, hence four contexts: both kinds of conflict (another CPU, the  *)
(* own interrupt handler) occur.                                            *)
EXTENDS Spinlock
=============================================================================
