------------------------- MODULE MCStoreAndForward -------------------------
(* Model values for the runs of StoreAndForward.                           *)
EXTENDS StoreAndForward

CONSTANTS near, away, alert, letter

MCNodes == {near, away}
=============================================================================
