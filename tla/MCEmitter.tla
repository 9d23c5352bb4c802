------------------------------ MODULE MCEmitter ------------------------------
(***************************************************************************)
(* The TLC instance of the emitter: each look of a collection and of a     *)
(* document, and two of a scalar, in streams that are in order; fewer      *)
(* where anything is given at any time.                                    *)
(***************************************************************************)
EXTENDS EmitterProps

MCScalars == [o \in BOOLEAN |-> IF o THEN {"short", "kept"} ELSE {"short"}]
MCCollections == [o \in BOOLEAN |-> IF o THEN {"block", "flow", "named"} ELSE {"block", "flow"}]
MCDocuments == [o \in BOOLEAN |-> IF o THEN {"implicit", "explicit", "directives"} ELSE {"implicit"}]
=============================================================================
