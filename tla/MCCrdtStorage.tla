---------------------------- MODULE MCCrdtStorage ----------------------------
(* CrdtStorage with the constants left to the configurations, which differ *)
(* in the updates, the bounds and the faults the environment may inject.   *)
EXTENDS CrdtStorage
=============================================================================
