--------------------------- MODULE MCRoomMessages ---------------------------
(* Instance of RoomMessages for TLC: the process that works on the messages, *)
(* and another one to which the client may be connected instead.             *)
EXTENDS RoomMessages

CONSTANT w1

MCOn == [x \in Ask \cup Other |-> w1]
=============================================================================
