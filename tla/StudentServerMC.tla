--------------------------- MODULE StudentServerMC ---------------------------
(* A client whose user types often enough for pieces to fall into place     *)
(* again, and one whose user types once.                                    *)
EXTENDS StudentServer, TLC

CONSTANTS c1, c2

TwoClients == {c1, c2}
FourAndOne == (c1 :> 4) @@ (c2 :> 1)
==============================================================================
