-------------------------- MODULE MCDirectoryLock --------------------------
(***************************************************************************)
(* Model values for DirectoryLock: a process that keeps trying, and one    *)
(* that comes and goes.                                                    *)
(***************************************************************************)
EXTENDS DirectoryLock

CONSTANTS p1, p2, n1, n2, n3, n4, n5, n6, f1, f2, f3, f4, f5

MCTwo == {p1, p2}
MCRegular == {p1}
MCNonce == {n1, n2, n3, n4, n5, n6}
MCFile == {f1, f2, f3, f4, f5}
=============================================================================
