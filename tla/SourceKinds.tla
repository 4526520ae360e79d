----------------------------- MODULE SourceKinds -----------------------------
(***************************************************************************)
(* The download sources by the kind of site they are (source/source.go):   *)
(* what is known of a source whichever part of SynoDL deals with it.       *)
(***************************************************************************)
EXTENDS Naturals, FiniteSets

CONSTANTS Nama, Zar   \* sources, by kind

Srcs == Nama \cup Zar

ASSUME KindsAssumption == Nama \cap Zar = {} /\ IsFiniteSet(Srcs)

KindOf(s) == IF s \in Nama THEN "30nama" ELSE "zarfilm"
=============================================================================
