------------------------------- MODULE Actors -------------------------------
(***************************************************************************)
(* What the models of the API's handlers share.                            *)
(***************************************************************************)
EXTENDS FiniteSets

CONSTANTS
  Calls,  \* requests whose handlers can be at work at a time
  None    \* null

ASSUME ActorsAssumption == IsFiniteSet(Calls) /\ None \notin Calls
=============================================================================
