------------------------------- MODULE MCHost -------------------------------
(* A small instance of HostServices for TLC.                               *)
EXTENDS HostServices
=============================================================================
