------------------------------ MODULE MCRelay -------------------------------
(***************************************************************************)
(* Instances of Relay for TLC: a head of two pieces with a payload that    *)
(* contains another terminator, a head that never ends, an origin that     *)
(* sends three pieces; reads of up to three pieces.                        *)
(***************************************************************************)
EXTENDS Relay, TLC

SomeScripts == {<<"line", "end", "a", "end", "b">>, <<"line", "line", "line", "line">>}
SomePayload == <<"x", "end", "y">>
=============================================================================
