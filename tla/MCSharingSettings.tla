-------------------------- MODULE MCSharingSettings --------------------------
(* Small instances of SharingSettings for TLC: two other devices that may    *)
(* share an address, with each other or with this one.                       *)
EXTENDS SharingSettings, TLC

CONSTANTS self, p, q, i, j

Symmetry == Permutations({p, q})
=============================================================================
