-------------------------- MODULE MCManagedObjects --------------------------
(* Small instances of the managed objects for TLC. *)
EXTENDS ManagedObjects, TLC

CONSTANTS a1, a2, a3, f1, f2

ThreeAttributes == {a1, a2, a3}
TwoFilters == {f1, f2}
=============================================================================
