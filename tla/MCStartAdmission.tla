-------------------------- MODULE MCStartAdmission --------------------------
(* Two servers whose plans differ: one needs half the room to boot.        *)
EXTENDS StartAdmission

MCServer == {1, 2}
MCFloor == <<1, 1>>
MCCap == <<2, 1>>
=============================================================================
