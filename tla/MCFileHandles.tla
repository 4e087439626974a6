--------------------------- MODULE MCFileHandles ---------------------------
(* An instance of FileHandles for TLC. *)
EXTENDS FileHandles, TLC

\* the kernel gives any free number
NumberSymmetry == Permutations(Descriptors)
=============================================================================
