------------------------------ MODULE MCParser ------------------------------
(***************************************************************************)
(* TLC instances of the parser: documents may declare one handle besides   *)
(* the two defaults.                                                       *)
(***************************************************************************)
EXTENDS ParserProps

MCHandles == {"!e!"}
=============================================================================
