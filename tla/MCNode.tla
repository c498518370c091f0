------------------------------- MODULE MCNode -------------------------------
(* Small instances of Node for TLC. *)
EXTENDS Node

(* Every way a command can be handled: read and delegated, refused, a      *)
(* request, the nested relay loop, the end.  "Discover" also enables the   *)
(* rendezvous events.                                                      *)
AllHandlers == {"Discover", "GetConnectedPeers", "ListenViaRelay", "Shutdown"}

OnlyShutdown == {"Shutdown"}
=============================================================================
