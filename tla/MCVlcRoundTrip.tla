--------------------------- MODULE MCVlcRoundTrip ---------------------------
(* Instance of VlcRoundTrip for TLC.  The codeword <<0, 0>> is the one a   *)
(* decoder sees in unwritten bits, as 000 is in the program; the other     *)
(* coefficient needs an escape, hence two codewords.                       *)
EXTENDS VlcRoundTrip

MCAreaBits   == [i \in 0 .. 1 |-> IF i = 0 THEN 6 ELSE 5]
MCEob        == <<0, 1, 1>>
MCWords      == {<<0, 0>>, <<0, 1, 0>>, <<1, 0, 0, 0>>, <<1, 0, 0, 1>>}
MCErrorWords == {<<1, 0, 1>>, <<1, 1>>}
MCRun        == [w \in MCWords |-> 0]
MCCoefs      == {<< <<>>, <<0, 0>> >>, << <<0, 1, 0>>, <<1, 0, 0, 1>> >>}
=============================================================================
