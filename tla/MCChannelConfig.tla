--------------------------- MODULE MCChannelConfig ---------------------------
(***************************************************************************)
(* Instances of ChannelConfig: u1, u2 and u3 set the anchor peers of one   *)
(* organisation, u3 to the same as u1.                                     *)
(***************************************************************************)
EXTENDS ChannelConfig, TLC

CONSTANTS u1, u2, u3, A, B, x, y

MCOneOrg == [u \in Updates |-> A]
MCWanted == [u \in Updates |-> IF u = u2 THEN y ELSE x]
=============================================================================
