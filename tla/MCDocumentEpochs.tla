--------------------------- MODULE MCDocumentEpochs ---------------------------
(* DocumentEpochs with the constants left to the configurations, which     *)
(* differ in the peers, the updates and the interruptions that may happen. *)
EXTENDS DocumentEpochs
=============================================================================
