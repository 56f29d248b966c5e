--------------------------- MODULE MCGuestMemory ---------------------------
(* Five addresses and two buffers of two bytes: windows that are adjacent, *)
(* that overlap, that alias one buffer, that end at the top, read-only and *)
(* writable ones, with room for three of them.                             *)
EXTENDS GuestMemory

W(buf, base, size, ro) == [buf |-> buf, base |-> base, size |-> size, ro |-> ro]

MCCandidate == {W("ram", 0, 2, FALSE), W("rom", 1, 2, TRUE), W("rom", 2, 2, TRUE),
                W("rom", 3, 1, FALSE), W("ram", 3, 2, FALSE)}
MCBuffer == {"ram", "rom"}
=============================================================================
