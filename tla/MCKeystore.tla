---------------------------- MODULE MCKeystore ----------------------------
(* Instances of Keystore for TLC.  *)
EXTENDS Keystore

AllFaults  == FaultKinds
\* failures write() checks for, or that leave the old file in place
SafeFaults == {"fopen", "fwrite", "remove"}
===========================================================================
