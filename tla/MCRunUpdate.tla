---------------------------- MODULE MCRunUpdate ----------------------------
(* The faults of RunUpdate that TLC's runs choose from. *)
EXTENDS RunUpdate

CrashOnly    == {"crash"}
ErrorOnly    == {"error"}
LostOnly     == {"lost"}
DockerFaults == {"crash", "error", "lost"}
=============================================================================
