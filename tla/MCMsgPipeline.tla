----------------------------- MODULE MCMsgPipeline -----------------------------
(* Small instances of MsgPipeline for TLC. *)
EXTENDS MsgPipeline, TLC

CONSTANTS text, image, other, s1, s2, f1, f2, f3, f4, u1, u2

TwoKinds == text :> "STRING" @@ image :> "IMAGE"
AllKinds == TwoKinds @@ other :> "OTHER"

Symmetry == Permutations(Storage) \cup Permutations(FileId)
=============================================================================
