----------------------------- MODULE MCComposer -----------------------------
(***************************************************************************)
(* TLC instances of the loader.                                            *)
(***************************************************************************)
EXTENDS ComposerProps

MCAnchors == {1, 2}
=============================================================================
