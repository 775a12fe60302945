------------------------------ MODULE MCFiles ------------------------------
(* Three files of two threads: the first grows into its double indirect block. *)
EXTENDS Files, TLC

CONSTANTS t1, t2

MCOwner == <<t1, t1, t2>>
MCMaxSize == <<4, 0, 1>>
MCMaxCalls == t1 :> 3 @@ t2 :> 1
=============================================================================
