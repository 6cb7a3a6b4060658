------------------------------ MODULE MCEnvWal ------------------------------
(* Small instances of EnvWal.                                              *)
EXTENDS EnvWalInv

CONSTANTS r1, r2
=============================================================================
