----------------------------- MODULE MCCSocket -----------------------------
(* Messages of one or two bits; a long is DescLen bits, least significant first. *)
EXTENDS CSocket

MCDesc == [n \in 0 .. MaxLength |-> [i \in 1 .. DescLen |-> (n \div 2 ^ (i - 1)) % 2]]
MCMessages == {<<0>>, <<1, 0>>, <<1, 1>>}
=============================================================================
