-------------------------- MODULE MCChainTransport --------------------------
(***************************************************************************)
(* One device with two records to publish, and another device.             *)
(***************************************************************************)
EXTENDS ChainTransport

CONSTANTS r1, j1

MCRemote == {r1}
MCRemoteAndJunk == {r1, j1}
MCJunk == {j1}
=============================================================================
