------------------------------ MODULE MCEmacRx ------------------------------
(***************************************************************************)
(* EmacRx for TLC.  The pbufs of the pool are interchangeable.             *)
(***************************************************************************)
EXTENDS EmacRx, TLC

PbufSymmetry == Permutations(Pbufs)

=============================================================================
