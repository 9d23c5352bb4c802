----------------------------- MODULE MCRoundTrip -----------------------------
(***************************************************************************)
(* TLC instances of the round trip.                                        *)
(***************************************************************************)
EXTENDS RoundTrip, DumperProps
=============================================================================
