------------------------------ MODULE MCWriter ------------------------------
(* A small instance of Writer.                                             *)
EXTENDS Writer
=============================================================================
