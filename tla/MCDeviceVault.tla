--------------------------- MODULE MCDeviceVault ---------------------------
(* One ticket, two new generations and one restart. *)
EXTENDS DeviceVault

OneTicket == {"ticket"}
=============================================================================
