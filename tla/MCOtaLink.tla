----------------------------- MODULE MCOtaLink -----------------------------
(* A three-unit image sent in chunks of two, and the same image with a     *)
(* signature that does not belong to it.                                   *)
EXTENDS OtaLink

MCByte == {0, 1}
MCFactory == <<0>>
MCImage == <<1, 1, 0>>
MCSig == [i \in 1..SigLen |-> 1]
MCSigned == { <<MCImage, MCSig>> }
MCReleases == MCSigned \cup { <<MCImage, [i \in 1..SigLen |-> i % 2]>> }
=============================================================================
