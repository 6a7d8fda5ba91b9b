---------------------------- MODULE MCMuxSession ----------------------------
(* Descriptors are interchangeable: accept() may return any free one.      *)
EXTENDS MuxSession, TLC

FdSymmetry == Permutations(Fds)

=============================================================================
