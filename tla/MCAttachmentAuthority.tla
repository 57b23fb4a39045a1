----------------------- MODULE MCAttachmentAuthority -----------------------
(* Small instances of AttachmentAuthority for TLC. *)
EXTENDS AttachmentAuthority, TLC

CONSTANTS c1, c2, e1, e2, a1, a2, a3

MCConns == {c1, c2}
MCExecs == {e1, e2}
MCThreeIds == {a1, a2, a3}
Symmetry == Permutations({c1, c2}) \cup Permutations({e1, e2})
            \cup Permutations({a1, a2, a3})
=============================================================================
