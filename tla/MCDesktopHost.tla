---------------------------- MODULE MCDesktopHost ----------------------------
(***************************************************************************)
(* Instances of DesktopHost for TLC; hosts that all find the gateway       *)
(* binary are alike.                                                       *)
(***************************************************************************)
EXTENDS DesktopHost, TLC

Alike == Permutations(Desktop)
=============================================================================
