------------------------------ MODULE MCEngine ------------------------------
(***************************************************************************)
(* Model checking of Engine on the publication machine.  MCIngest has the  *)
(* theorems' assumption evaluated for the ingest machine.                  *)
(***************************************************************************)
EXTENDS Engine, Registry, TLC

\* One tick stands for half an hour or so: the lease and the shortest backoff
\* are below the two longer ones.
MCBackoff == <<1, 2, 3>>

WorkerSymmetry == Permutations(Workers)
=============================================================================
