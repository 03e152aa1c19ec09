--------------------------- MODULE MCDeviceWallet ---------------------------
(***************************************************************************)
(* A wallet with two coins from others, one of which the same key may      *)
(* spend on another device, building up to three transactions.             *)
(***************************************************************************)
EXTENDS DeviceWallet

CONSTANTS f1, f2

MCFunding == {f1, f2}
MCBogus == {f2}
MCContested == {f1}
=============================================================================
