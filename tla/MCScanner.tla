----------------------------- MODULE MCScanner -----------------------------
(***************************************************************************)
(* TLC instances of the scanner; the bounds are in the configurations.     *)
(***************************************************************************)
EXTENDS ScannerProps
=============================================================================
