----------------------------- MODULE MCBootstrap ----------------------------
(***************************************************************************)
(* The processes of a job, two on each host as mpiexec places them in      *)
(* blocks: processes 0 and 1 share a host, and their ports must differ.    *)
(***************************************************************************)
EXTENDS Bootstrap

MCHost == [r \in Ranks |-> 1 + (r \div 2)]
=============================================================================
