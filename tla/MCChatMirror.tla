---------------------------- MODULE MCChatMirror ----------------------------
(* Instances of SerialTurns, and with it of ChatMirror, for TLC. *)
EXTENDS SerialTurns
===============================================================================
