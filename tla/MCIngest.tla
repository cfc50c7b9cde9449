------------------------------ MODULE MCIngest ------------------------------
(***************************************************************************)
(* Model checking of Ingest.  One of the two products is one that brand    *)
(* safety refuses, and a run has the budget to fetch only one.  The two    *)
(* accounts share a niche in some behaviours, and not in the others.       *)
(***************************************************************************)
EXTENDS Ingest

\* What Engine assumes of a registry, of the ingest machine.
ASSUME RegistryAssumption == EngineCanDrive

MCNicheMaps == { << "kitchen", "kitchen" >>, << "kitchen", "selfcare" >> }
=============================================================================
