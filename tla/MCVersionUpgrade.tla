-------------------------- MODULE MCVersionUpgrade --------------------------
(***************************************************************************)
(* Model-checking module of VersionUpgrade.                                *)
(***************************************************************************)
EXTENDS VersionUpgrade, TLC

OneUpgrade == <<2>>

TwoUpgrades == <<2, 3>>

NoSnapshot == -1

=============================================================================
