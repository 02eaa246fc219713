---------------------------- MODULE MCGuestMemory ----------------------------
(* GuestMemory for TLC: three pages, the outer two in one slot of the caches, *)
(* over four pages of the host's.                                             *)
EXTENDS GuestMemory, TLC

CONSTANTS f1, f2, f3, f4

MCPages == 0 .. 2
MCSlotOf == [p \in MCPages |-> p % 2]
MCFrames == {f1, f2, f3, f4}
MCRanges == {{0}, {0, 1}, {1, 2}}
AnyFrames == Permutations(MCFrames)
==============================================================================
