--------------------------- MODULE MCAuctionRooms ---------------------------
(***************************************************************************)
(* Values of AuctionRooms' constants for TLC.                              *)
(***************************************************************************)
EXTENDS AuctionRooms

CONSTANT r1

OneRoom  == {r1}
AllInOne == [s \in Sockets |-> r1]

============================================================================
