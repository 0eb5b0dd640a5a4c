---------------------------- MODULE MCCorrection ----------------------------
(* Requests are numbered from 1. *)
EXTENDS Correction, TLC
CONSTANTS MaxReq

MCReqs == 1..MaxReq
=============================================================================
