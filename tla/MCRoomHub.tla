----------------------------- MODULE MCRoomHub -----------------------------
(* Small instances of RoomHub.                                             *)
EXTENDS RoomHub
=============================================================================
