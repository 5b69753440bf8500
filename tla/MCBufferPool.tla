---------------------------- MODULE MCBufferPool ----------------------------
(* Small instances of module BufferPool for TLC. *)
EXTENDS BufferPool, TLC

CONSTANTS frame1, frame2, decode

\* Two coded frames of one pool, and a decode buffer they are attached to.
MCPoolOf == (frame1 :> "coded") @@ (frame2 :> "coded") @@ (decode :> "decoded")
MCAttachable == {<<decode, frame1>>, <<decode, frame2>>}

Symmetry == Permutations(Procs) \cup Permutations({frame1, frame2})
=============================================================================
