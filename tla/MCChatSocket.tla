---------------------------- MODULE MCChatSocket ----------------------------
(* Instances of ChatSocket for TLC. *)
EXTENDS ChatSocket
=============================================================================
