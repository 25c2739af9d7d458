------------------------------ MODULE MCSession ------------------------------
(* Small instances of the session manager for TLC.                           *)
EXTENDS SessionProperties
===============================================================================
