---------------------------- MODULE MCConnection ----------------------------
(* Two networks. *)
EXTENDS Connection

TwoNetworks == <<"taiko", "base">>
=============================================================================
