------------------------------- MODULE MCRelay -------------------------------
(***************************************************************************)
(* An instance of Relay with two agents, whose streams have one name in    *)
(* the hub. Another project may write an event that says what one of ours  *)
(* does.                                                                   *)
(***************************************************************************)
EXTENDS Relay

CONSTANTS a1, a2, x, y, z, p

MCStreamOf == [c \in {x, y, z} |-> IF c = x THEN <<p, "s">> ELSE <<"s">>]
MCOtherId == {<<x, None>>, <<z, None>>}
=============================================================================
