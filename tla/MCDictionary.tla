---------------------------- MODULE MCDictionary ----------------------------
(* A small instance of the dictionary for TLC. *)
EXTENDS Dictionary, TLC

CONSTANTS k1, k2, k3, d1, d2

(***************************************************************************)
(* No step depends on what the last call was, so states that differ only   *)
(* there are explored once; the refinement looks at every step.            *)
(***************************************************************************)
HeapView == <<heap, walking, item, left>>
=============================================================================
