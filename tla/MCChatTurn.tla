------------------------------ MODULE MCChatTurn ------------------------------
(* Instances of ChatTurn for TLC; the bounds are in the .cfg files. *)
EXTENDS ChatTurn
===============================================================================
