-------------------------- MODULE MCComposeUpdate --------------------------
(* The faults of ComposeUpdate for TLC.                                    *)
EXTENDS ComposeUpdate

AllFaults == {"crash", "error"}
=============================================================================
