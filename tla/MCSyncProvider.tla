---------------------------- MODULE MCSyncProvider ----------------------------
(* SyncProvider with the constants left to the configurations, which differ *)
(* in the grants tokens carry, the transport and the calls of disconnect.   *)
EXTENDS SyncProvider
=============================================================================
