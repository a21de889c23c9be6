------------------------------ MODULE MCTlvWire ------------------------------
(***************************************************************************)
(* TlvWire with bytes of three bits and words of two bytes: every integer, *)
(* and tags and lengths on both sides of each change of form.              *)
(***************************************************************************)
EXTENDS TlvWire

MCFields ==
    {[tag |-> 5, kind |-> "uint", value |-> value] : value \in 0..63}
    \cup {[tag |-> 1, kind |-> "int", value |-> value] : value \in -32..31}
    \cup {[tag |-> tag, kind |-> "bytes", value |-> [i \in 1..length |-> 7 - (i % 2)]] :
             tag \in {1, 3, 4, 7, 8, 63, 64, 511}, length \in 0..9}
    \cup {[tag |-> 1, kind |-> "bytes", value |-> [i \in 1..length |-> i % 8]] :
             length \in {63, 64, 65}}
=============================================================================
