---------------------------- MODULE MCVlcDecode ----------------------------
(* Instance of VlcDecode for TLC: a prefix code in which three bits always *)
(* begin with a codeword or an error.                                      *)
EXTENDS VlcDecode

MCAreaBits   == [i \in 0 .. 1 |-> 3]
MCEob        == <<0, 1>>
MCWords      == {<<0, 0>>, <<1, 0, 0>>, <<1, 0, 1>>, <<1, 1, 1>>}
MCErrorWords == {<<1, 1, 0>>}
MCRun        == [w \in MCWords |-> IF w = <<1, 0, 0>> THEN 2 ELSE 0]
=============================================================================
