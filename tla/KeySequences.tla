---------------------------- MODULE KeySequences ----------------------------
(***************************************************************************)
(* Sequences, and a dictionary as its users see it: its keys in insertion  *)
(* order.                                                                  *)
(***************************************************************************)
EXTENDS Naturals, Sequences

Elements(s) == {s[i] : i \in DOMAIN s}
NoDuplicates(s) == \A i, j \in DOMAIN s : s[i] = s[j] => i = j

(* What has been kept of s after each of its elements, and what of all of it: those in S. *)
KeptUpto(s, S) ==
    LET f[i \in 0..Len(s)] ==
          IF i = 0 THEN <<>> ELSE IF s[i] \in S THEN Append(f[i-1], s[i]) ELSE f[i-1]
    IN  f

Kept(s, S) == KeptUpto(s, S)[Len(s)]

(***************************************************************************)
(* The window dictionary_iter chooses: at most limit entries (0: all) from *)
(* the marker on, and from the first one if the marker is not there.       *)
(***************************************************************************)
WindowStart(keys, marker) ==
    IF marker \in Elements(keys) THEN CHOOSE i \in DOMAIN keys : keys[i] = marker ELSE 1

(* Mutant: with no limit the last entry is left out. *)
WindowEndShort(keys, marker, limit) ==
    LET upto == WindowStart(keys, marker) + limit - 1
    IN  IF limit = 0 THEN Len(keys) - 1 ELSE IF upto > Len(keys) THEN Len(keys) ELSE upto

(* Mutant: one entry more than the limit. *)
WindowEndLong(keys, marker, limit) ==
    LET upto == WindowStart(keys, marker) + limit
    IN  IF limit = 0 \/ upto > Len(keys) THEN Len(keys) ELSE upto

WindowEnd(keys, marker, limit) ==
    LET upto == WindowStart(keys, marker) + limit - 1
    IN  IF limit = 0 \/ upto > Len(keys) THEN Len(keys) ELSE upto
=============================================================================
