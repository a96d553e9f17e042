---------------------------- MODULE HandshakeServer ----------------------------
(***************************************************************************)
(* The connection phase between the client of module Handshake and a MySQL *)
(* server, as the handshake tests of the repository know it: the server    *)
(* greets with its default plug-in, switches to the plug-in of the account *)
(* if that is another one, and for caching_sha2_password either knows the  *)
(* user (a fast authentication) or asks for the password itself.           *)
(***************************************************************************)
EXTENDS Handshake

VARIABLE server   \* the server's end: its configuration and what it does next

serverVars == <<vars, server>>

SupportedPlugins == all_authentication_plugins

\* The set-ups of a server: what it announces, the plug-in its greeting names,
\* and the account's plug-in, password and presence in the server's cache.
Configurations ==
  [caps : ServerCaps, default : PluginNames, plugin : PluginNames,
   password : Passwords \cup {""}, cached : BOOLEAN,
   pc : {"greet"}, nonce : {""}, read : {0}, tls : {FALSE}, login : {"pending"}]

ServerInit == Init /\ server \in Configurations

\* No MySQL server: any program whatever is at the other end, and sends what
\* it likes (Peer of Handshake).
Stranger ==
  [caps |-> {}, default |-> Native, plugin |-> Native, password |-> "", cached |-> FALSE,
   pc |-> "stranger", nonce |-> "", read |-> 0, tls |-> FALSE, login |-> "pending"]
IsServer == server.pc # "stranger"

\* Messages go out in order; the client's bound MaxMessages is not needed here.
Answer(messages) ==
  /\ toClient' = toClient \o messages
  /\ peerSent' = peerSent + Len(messages)
  /\ UNCHANGED <<params, pc, processorVars, error, channelVars, wire>>

Greet ==
  /\ server.pc = "greet"
  /\ \E nonce \in Nonces :
       /\ Answer(<<Greeting(server.caps, server.default, nonce)>>)
       /\ server' = [server EXCEPT !.pc = "response", !.nonce = nonce]

\* The next message of the client, read over the stream the server uses.
Incoming(type) ==
  /\ server.read < Len(wire)
  /\ wire[server.read + 1].type = type
  /\ wire[server.read + 1].secure = server.tls

ReadSslRequest ==
  /\ server.pc = "response" /\ ~server.tls /\ Incoming("ssl_request")
  /\ server' = [server EXCEPT !.pc = "tls", !.read = @ + 1]
  /\ UNCHANGED vars

\* Both ends agree on TLS, or both give up.
TlsEstablished ==
  /\ server.pc = "tls"
  /\ SslHandshake(TRUE)
  /\ server' = [server EXCEPT !.pc = "response", !.tls = TRUE]

TlsFailed ==
  /\ SslHandshake(FALSE)
  /\ server' = [server EXCEPT !.pc = "closed"]

Accept == <<Plain("ok")>>
Deny == <<Plain("error")>>

\* What the server makes of a response to its latest challenge.
Matches(auth) ==
  IF server.password = ""
    THEN auth = EmptyAuth
    ELSE auth = Scramble(server.plugin, server.nonce, server.password)

Judge(auth) ==
  \/ /\ Matches(auth) /\ (server.plugin = Native \/ server.password = "")
     /\ Answer(Accept)
     /\ server' = [server EXCEPT !.read = @ + 1, !.pc = "closed", !.login = "accepted"]
  \/ /\ Matches(auth) /\ server.plugin = Sha2 /\ server.cached /\ server.password # ""
     /\ Answer(<<MoreData(FastAuthComplete)>> \o Accept)
     /\ server' = [server EXCEPT !.read = @ + 1, !.pc = "closed", !.login = "accepted"]
  \/ /\ server.plugin = Sha2 /\ server.password # "" /\ auth.kind = "scramble"
     /\ ~(Matches(auth) /\ server.cached)
     /\ Answer(<<MoreData(PerformFullAuth)>>)
     /\ server' = [server EXCEPT !.read = @ + 1, !.pc = "password"]
  \/ /\ ~Matches(auth)
     /\ server.plugin # Sha2 \/ server.password = "" \/ auth.kind # "scramble"
     /\ Answer(Deny)
     /\ server' = [server EXCEPT !.read = @ + 1, !.pc = "closed", !.login = "denied"]

ReadResponse ==
  /\ server.pc = "response" /\ Incoming("response")
  /\ LET m == wire[server.read + 1] IN
     \/ m.plugin = server.plugin /\ Judge(m.auth)
     \/ /\ m.plugin # server.plugin
        /\ \E nonce \in Nonces \ {server.nonce} :
             /\ Answer(<<AuthSwitch(server.plugin, nonce)>>)
             /\ server' = [server EXCEPT !.read = @ + 1, !.pc = "auth_data", !.nonce = nonce]

ReadAuthData ==
  /\ server.pc = "auth_data" /\ Incoming("auth_data")
  /\ Judge(wire[server.read + 1].auth)

ReadPassword ==
  /\ server.pc = "password" /\ Incoming("auth_data")
  /\ LET right == wire[server.read + 1].auth = Plaintext(server.password) IN
     /\ Answer(IF right THEN Accept ELSE Deny)
     /\ server' = [server EXCEPT !.read = @ + 1, !.pc = "closed", !.cached = @ \/ right,
                                 !.login = IF right THEN "accepted" ELSE "denied"]

\* The rest of the client's steps does not involve the server.
ClientStep ==
  /\ Processing \/ Writing \/ TransferError
  /\ UNCHANGED server

ServerStep == Greet \/ ReadSslRequest \/ ReadResponse \/ ReadAuthData \/ ReadPassword

ServerNext == ClientStep \/ TlsEstablished \/ TlsFailed \/ ServerStep

ServerSpec == ServerInit /\ [][ServerNext]_serverVars

\* The client with a server (ServerSpec) or with a stranger (Spec of Handshake).
AnyPeerNext == (IsServer /\ ServerNext) \/ (~IsServer /\ Next /\ UNCHANGED server)

AnyPeerInit == Init /\ server \in Configurations \cup {Stranger}

\* With a server, the io_context runs the handlers of the handshake, the server
\* goes on answering, and a TLS negotiation ends one way or the other.  Nothing
\* has to fail.
AnyPeerFairSpec ==
  /\ AnyPeerInit /\ [][AnyPeerNext]_serverVars
  /\ WF_serverVars(IsServer /\ (Processing \/ Writing) /\ UNCHANGED server)
  /\ WF_serverVars(IsServer /\ (TlsEstablished \/ TlsFailed))
  /\ WF_serverVars(IsServer /\ ServerStep)

-----------------------------------------------------------------------------
(* Properties *)

\* The last resort of caching_sha2_password needs TLS, which this client only
\* has when both sides wanted it.
NeedsFullAuth == server.plugin = Sha2 /\ server.password # "" /\ ~server.cached

\* Whoever knows the password gets in, through every combination of default
\* plug-in, auth switch, fast and full authentication, unless the client or
\* the transport cannot: no error blames the credentials or the protocol.
GoodCredentialsAccepted ==
  IsServer /\ pc = "done" /\ params.password = server.password =>
    \/ error \in {"none", "io", "tls"}
    \/ error = "server_unsupported" /\ ~(required_caps \subseteq server.caps)
    \/ error = "unknown_auth_plugin" /\ {server.default, server.plugin} \ SupportedPlugins # {}
    \/ error = "auth_plugin_requires_ssl" /\ NeedsFullAuth /\ ~use_ssl

\* handshake reports success only if the server let the client in, which takes
\* the right password, and both ends then agree on encryption.
SuccessMeansLoggedIn ==
  IsServer /\ pc = "done" /\ error = "none" =>
    /\ server.login = "accepted"
    /\ params.password = server.password
    /\ server.tls = ssl_active
    /\ toClient = <<>> /\ server.read = Len(wire)

\* No order of messages leaves client and server waiting for each other: the
\* handshake ends.
HandshakeEnds == IsServer => <>(pc = "done")
=============================================================================
