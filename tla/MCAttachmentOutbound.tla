------------------------ MODULE MCAttachmentOutbound ------------------------
(* Small instances of AttachmentOutbound for TLC. *)
EXTENDS AttachmentOutbound

CONSTANTS a1, a2

MCOne == {a1}
MCTwo == {a1, a2}
Symmetry == Permutations(MCTwo)
=============================================================================
