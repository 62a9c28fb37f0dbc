----------------------------- MODULE MCRestWire -----------------------------
(***************************************************************************)
(* Instances of RestWire for TLC.                                          *)
(***************************************************************************)
EXTENDS RestWire

(* A long name, whose length takes two bytes.                              *)
MCLength ==
  [t \in {"", "anna", "bob", "10.0.0.1"} |->
     CASE t = "" -> 0 [] t = "anna" -> 4 [] t = "bob" -> 200
       [] t = "10.0.0.1" -> 8]

(* A name with a blank in it, and one of a single letter.                  *)
MCSpelling ==
  [t \in {"", "anna", "bob", "10.0.0.1"} |->
     CASE t = "" -> << >> [] t = "anna" -> <<"a">>
       [] t = "bob" -> <<"b", " ", "a">> [] t = "10.0.0.1" -> <<"b", "b">>]

MCFields == {"username", "ip", "joined_timestamp", "port"}

MCOrder == <<"anna", "bob">>

(* The second has an empty address and the port zero, which are values.    *)
MCRows ==
  {[ip |-> "10.0.0.1", port |-> 40000, joined_timestamp |-> 1700000000],
   [ip |-> "", port |-> 0, joined_timestamp |-> 1700000000]}
=============================================================================
