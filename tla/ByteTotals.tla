------------------------------ MODULE ByteTotals ------------------------------
(***************************************************************************)
(* The bytes a store accounts for.  An allocation is a pair whose first    *)
(* part has a size; it holds that many bytes of its own, and the total of  *)
(* a set of allocations counts them.                                       *)
(***************************************************************************)
EXTENDS Naturals, FiniteSets

HeldBytes(allocations, size) == UNION {{a} \X (1 .. size[a[1]]) : a \in allocations}
TotalBytes(allocations, size) == Cardinality(HeldBytes(allocations, size))
=============================================================================
