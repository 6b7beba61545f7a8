----------------------------- MODULE Alignable -----------------------------
(***************************************************************************)
(* trait Alignable of hir-type/src/layout.rs.                              *)
(***************************************************************************)
EXTENDS Integers

\* How far n is from the next multiple of align, or 0.
AlignOffset(n, align) == (align - (n % align)) % align

\* The least multiple of align that is no less than n.  It panics near the end of the type.
AlignUp(n, align) == n + AlignOffset(n, align)
AlignUpPanics(n, align, max) == n + align >= max

=============================================================================
