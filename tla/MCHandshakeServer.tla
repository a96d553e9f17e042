-------------------------- MODULE MCHandshakeServer --------------------------
(***************************************************************************)
(* Greetings for the model checker: a server without TLS, without          *)
(* CLIENT_CONNECT_WITH_DB, with more than the client knows, and one that   *)
(* lacks a mandatory capability.                                           *)
(***************************************************************************)
EXTENDS HandshakeServer

GreetingCaps ==
  {mandatory_capabilities \cup {"CONNECT_WITH_DB", "COMPRESS"},
   mandatory_capabilities \cup {"SSL", "CONNECT_WITH_DB", "COMPRESS"},
   mandatory_capabilities \cup {"SSL"},
   (mandatory_capabilities \ {"DEPRECATE_EOF"}) \cup {"SSL", "CONNECT_WITH_DB"}}
=============================================================================
