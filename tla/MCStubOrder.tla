---------------------------- MODULE MCStubOrder -----------------------------
(***************************************************************************)
(* Ints of three bits, and priorities whose differences fit.               *)
(***************************************************************************)
EXTENDS StubOrder

MCModerate == {-2, 0, 1}
=============================================================================
