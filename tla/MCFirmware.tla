---------------------------- MODULE MCFirmware -----------------------------
(***************************************************************************)
(* An instance of Firmware for TLC: releases that move both bundles, only  *)
(* the first or only the second, so that stagings come together, apart and *)
(* over each other.                                                        *)
(***************************************************************************)
EXTENDS Firmware, TLC

MCManifests == {<<2, 2>>, 1 :> 3, 2 :> 2}
=============================================================================
