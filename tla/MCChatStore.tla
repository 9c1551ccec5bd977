----------------------------- MODULE MCChatStore -----------------------------
(* An instance of ChatStore for TLC: two apps, a user who has not asked yet. *)
EXTENDS ChatStore

CONSTANTS a1, a2

Apps    == {a1, a2}
Olds    == {}
OldApps == <<>>
===============================================================================
