----------------------------- MODULE MCController -----------------------------
(* Small instances of the controller for TLC. *)
EXTENDS ControllerProperties

OneOnD  == <<"o1">>
TwoOnD  == <<"o1", "o2">>
OneBur  == <<"b1">>
TwoBur  == <<"b1", "b2">>
=============================================================================
