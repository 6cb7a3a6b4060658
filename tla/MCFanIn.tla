------------------------------ MODULE MCFanIn ------------------------------
(* A small instance of FanIn.                                              *)
EXTENDS FanIn

CONSTANTS p1
=============================================================================
