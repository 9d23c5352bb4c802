---------------------------- MODULE TokenStream ----------------------------
(***************************************************************************)
(* What the scanner promises to its consumers: the tokens it delivers are  *)
(* one stream.  StreamStart is first and StreamEnd last; the tokens come   *)
(* in the order of the input, also those that are put in before a token    *)
(* already scanned; a block collection that starts goes on with an entry   *)
(* of its kind, and BlockEnd closes a collection that is open.             *)
(*                                                                         *)
(* The scanner may fail, which delivers nothing, and may be reset.  The    *)
(* parser's model of its input (Supply in Parser) relies on the first two. *)
(***************************************************************************)
EXTENDS Naturals

CONSTANT TokenType \* the types of tokens

VARIABLES last,   \* the type of the last token delivered, "None" before the first
          place,  \* where that token starts in the input
          blocks  \* how many block collections the tokens delivered leave open

streamVars == <<last, place, blocks>>

TokenStreamInit == last = "None" /\ place = [line |-> 0, column |-> 0] /\ blocks = 0

\* p is not after q.
NotAfter(p, q) == \/ p.line < q.line
                  \/ p.line = q.line /\ p.column <= q.column

\* The tokens that may come after the last one.
Follows(t) ==
  /\ (last = "None") <=> (t = "StreamStart")
  /\ last # "StreamEnd"
  /\ last = "BlockSequenceStart" => t = "BlockEntry"
  /\ last = "BlockMappingStart" => t \in {"Key", "Value"}

BlockStarts == {"BlockSequenceStart", "BlockMappingStart"}

Deliver(t) ==
  /\ Follows(t)
  /\ last' = t
  /\ place' \in [line : Nat, column : Nat] /\ NotAfter(place, place')
  /\ \/ t \in BlockStarts /\ blocks' = blocks + 1
     \/ t = "BlockEnd" /\ blocks > 0 /\ blocks' = blocks - 1
     \/ t \notin BlockStarts \cup {"BlockEnd"} /\ blocks' = blocks

Restart == last' = "None" /\ place' = [line |-> 0, column |-> 0] /\ blocks' = 0

TokenStreamNext == Restart \/ \E t \in TokenType : Deliver(t)

TokenStreamSpec == TokenStreamInit /\ [][TokenStreamNext]_streamVars
=============================================================================
