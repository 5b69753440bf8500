----------------------------- MODULE MCCodecMme -----------------------------
(* A small player: frames that are references and read one, and fields.       *)
EXTENDS CodecMme, TLC

Picture(fields, reference, reads) ==
    [fields |-> fields, first |-> 1 \in fields, reference |-> reference, reads |-> reads]
MCPictures == {Picture({1, 2}, TRUE, TRUE), Picture({1}, FALSE, FALSE), Picture({2}, FALSE, FALSE)}
MCMaxPictures == (FALSE :> 2) @@ (TRUE :> 1)
MCQueued == FALSE :> 2
MCSymmetry == Permutations(Buffers)
=============================================================================
