-------------------------- MODULE MCFirmwareUpdate --------------------------
(* Units of two values, a two-unit signature, and two signed images of the *)
(* smallest and of the largest size.                                       *)
EXTENDS FirmwareUpdate

MCByte == {0, 1}
MCFactory == <<0>>
MCSigned == { << <<1, 0>>, [i \in 1..SigLen |-> 1] >>,
              << <<1, 1, 0>>, [i \in 1..SigLen |-> i % 2] >> }
=============================================================================
