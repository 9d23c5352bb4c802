------------------------------ MODULE MCDumper ------------------------------
(***************************************************************************)
(* TLC instances of the dumper.                                            *)
(***************************************************************************)
EXTENDS DumperProps
=============================================================================
