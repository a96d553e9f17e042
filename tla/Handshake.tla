------------------------------ MODULE Handshake ------------------------------
(***************************************************************************)
(* The client's side of the connection phase:                              *)
(* detail/network_algorithms/impl/handshake.hpp with the authentication    *)
(* plugins of detail/auth.  One behaviour is one handshake over a fresh    *)
(* socket, by the blocking function or by handshake_op.                    *)
(*                                                                         *)
(* The peer is any program whatever: it sends any message at any time.     *)
(* HandshakeServer puts a MySQL server in its place.                       *)
(*                                                                         *)
(* A challenge is a 20-byte nonce, one of the two one-byte codes of        *)
(* caching_sha2_password or something else.  A scramble is the hash of the *)
(* password and a nonce; it is known by what it was computed from.         *)
(***************************************************************************)
EXTENDS Naturals, Sequences

CONSTANTS
  Nonces,       \* the 20-byte challenges
  ServerCaps,   \* the sets of capabilities a greeting may announce
  Passwords,    \* the non-empty passwords
  MaxMessages,  \* bound on the messages the peer sends
  MaxQueued     \* bound on the messages in flight to the client

Modes == {"disable", "enable", "require"}   \* enum class ssl_mode
Apis == {"sync", "async"}                   \* handshake() and handshake_op

Native == "mysql_native_password"
Sha2 == "caching_sha2_password"
all_authentication_plugins == {Native, Sha2}
PluginNames == all_authentication_plugins \cup {"sha256_password"}

FastAuthComplete == "fast_auth_complete_challenge"   \* "\3"
PerformFullAuth == "perform_full_auth"               \* "\4"
Challenges == Nonces \cup {FastAuthComplete, PerformFullAuth, "malformed"}

ASSUME NoncesAssumption ==
  Nonces \cap {FastAuthComplete, PerformFullAuth, "malformed"} = {}
ASSUME PasswordsAssumption == "" \notin Passwords

mandatory_capabilities ==
  {"PROTOCOL_41", "PLUGIN_AUTH", "PLUGIN_AUTH_LENENC_CLIENT_DATA", "DEPRECATE_EOF",
   "SECURE_CONNECTION"}
optional_capabilities == {}
conditional_capability(condition, cap) == IF condition THEN {cap} ELSE {}

VARIABLES
  params,           \* connection_params and the interface used
  pc,               \* the step of the algorithm
  negotiated_caps,  \* handshake_processor::negotiated_caps_
  plugin,           \* auth_calculator::plugin_
  response,         \* auth_calculator::response_
  error,            \* the error code, once the handshake is over
  ssl_active,       \* channel::ssl_block_ holds a stream
  current_caps,     \* channel::current_caps_
  toClient,         \* messages on their way to the client
  wire,             \* everything the client has sent
  peerSent          \* messages the peer has sent so far

processorVars == <<negotiated_caps, plugin, response>>
channelVars == <<ssl_active, current_caps>>
vars == <<params, pc, processorVars, error, channelVars, toClient, wire, peerSent>>

\* What auth_calculator hands over: nothing yet, the empty string, a scramble
\* or the password itself.
NoAuth == [kind |-> "none", plugin |-> "", challenge |-> "", password |-> ""]
EmptyAuth == [kind |-> "empty", plugin |-> "", challenge |-> "", password |-> ""]
Scramble(name, challenge, password) ==
  [kind |-> "scramble", plugin |-> name, challenge |-> challenge, password |-> password]
Plaintext(password) ==
  [kind |-> "plaintext", plugin |-> "", challenge |-> "", password |-> password]

\* Messages of the peer.
Message(type, caps, name, challenge) ==
  [type |-> type, caps |-> caps, plugin |-> name, challenge |-> challenge]
Greeting(caps, name, nonce) == Message("greeting", caps, name, nonce)
AuthSwitch(name, challenge) == Message("auth_switch", {}, name, challenge)
MoreData(challenge) == Message("auth_more_data", {}, "", challenge)
Plain(type) == Message(type, {}, "", "")

Greetings == {Greeting(c, p, n) : c \in ServerCaps, p \in PluginNames, n \in Nonces}
AuthSwitches == {AuthSwitch(p, c) : p \in PluginNames, c \in Challenges}
MoreDatas == {MoreData(c) : c \in Challenges}
Plains == {Plain(t) : t \in {"greeting_v9", "ok", "error", "other"}}
PeerMessages == Greetings \cup AuthSwitches \cup MoreDatas \cup Plains

-----------------------------------------------------------------------------
(* detail/auth *)

\* (Mutations, here and below, are what a bug would make of the definition that
\* follows them; no behaviour of the module uses them.)
PasswordInClear(name, password, challenge, caps) ==
  IF name = Sha2 /\ challenge = PerformFullAuth
    THEN [error |-> "none", response |-> Plaintext(password)]
    ELSE IF challenge \in Nonces
      THEN [error |-> "none", response |-> Scramble(name, challenge, password)]
      ELSE [error |-> "protocol_value_error", response |-> response]

\* caching_sha2_password::compute_response and
\* mysql_native_password::compute_response; use_ssl is a matter of the
\* negotiated capabilities.
compute_response(name, password, challenge, caps) ==
  IF name = Sha2 /\ challenge = PerformFullAuth
    THEN IF "SSL" \in caps
           THEN [error |-> "none", response |-> Plaintext(password)]
           ELSE [error |-> "auth_plugin_requires_ssl", response |-> response]
    ELSE IF challenge \in Nonces
      THEN [error |-> "none", response |-> Scramble(name, challenge, password)]
      ELSE [error |-> "protocol_value_error", response |-> response]

HashEmptyPassword(name, challenge, caps) ==
  IF name \notin all_authentication_plugins
    THEN [error |-> "unknown_auth_plugin", response |-> response]
    ELSE compute_response(name, params.password, challenge, caps)

\* auth_calculator::calculate: the plug-in is remembered by its name.
calculate(name, challenge, caps) ==
  IF name \notin all_authentication_plugins
    THEN [error |-> "unknown_auth_plugin", response |-> response]
    ELSE IF params.password = ""
      THEN [error |-> "none", response |-> EmptyAuth]
      ELSE compute_response(name, params.password, challenge, caps)

-----------------------------------------------------------------------------
(* handshake_processor *)

RequireForgotten ==
  mandatory_capabilities \cup conditional_capability(params.database, "CONNECT_WITH_DB")

required_caps ==
  mandatory_capabilities
  \cup conditional_capability(params.database, "CONNECT_WITH_DB")
  \cup conditional_capability(params.ssl = "require", "SSL")

NegotiateEverything(server_caps) == server_caps

\* process_capabilities, for a server that has the required ones.
negotiate(server_caps) ==
  server_caps \cap (required_caps \cup optional_capabilities
                      \cup conditional_capability(params.ssl = "enable", "SSL"))

use_ssl == "SSL" \in negotiated_caps

\* The client's messages; "secure" tells which stream channel::write used.
ClientMessage(type, name, auth) ==
  [type |-> type, caps |-> negotiated_caps, plugin |-> name, auth |-> auth,
   database |-> params.database /\ type = "response" /\ "CONNECT_WITH_DB" \in negotiated_caps,
   secure |-> ssl_active]

Send(m) == wire' = Append(wire, m)

-----------------------------------------------------------------------------
Init ==
  /\ params \in [ssl : Modes, database : BOOLEAN, password : Passwords \cup {""}, api : Apis]
  /\ pc = "read_greeting"
  /\ negotiated_caps = {} /\ plugin = "none" /\ response = NoAuth
  /\ error = "none"
  /\ ssl_active = FALSE /\ current_caps = {}
  /\ toClient = <<>> /\ wire = <<>> /\ peerSent = 0

\* A message the processor rejects ends the handshake.  handshake_op sets the
\* channel's capabilities even then, handshake() only when it succeeds.
Reject(e) ==
  /\ pc' = "done" /\ error' = e
  /\ current_caps' = IF params.api = "async" THEN negotiated_caps' ELSE current_caps
  /\ UNCHANGED ssl_active

Receive(type) ==
  /\ toClient # <<>>
  /\ Head(toClient).type = type
  /\ toClient' = Tail(toClient)
  /\ UNCHANGED <<params, wire, peerSent>>

\* deserialize_handshake, when it does not get a version 10 greeting.
RejectGreeting ==
  /\ pc = "read_greeting"
  /\ UNCHANGED processorVars
  /\ \/ Receive("greeting_v9") /\ Reject("server_unsupported")
     \/ Receive("error") /\ Reject("server_error")
     \/ \E t \in {"ok", "auth_switch", "auth_more_data", "other"} :
          Receive(t) /\ Reject("protocol_value_error")

\* process_capabilities with a server that lacks something.
RejectCapabilities ==
  /\ pc = "read_greeting" /\ Receive("greeting")
  /\ ~(required_caps \subseteq Head(toClient).caps)
  /\ UNCHANGED processorVars
  /\ Reject("server_unsupported")

\* The rest of process_handshake, and the choice whether to set up TLS.
ProcessGreeting ==
  LET g == Head(toClient)
      caps == negotiate(g.caps)
      result == calculate(g.plugin, g.challenge, caps)
  IN
  /\ pc = "read_greeting" /\ Receive("greeting")
  /\ required_caps \subseteq g.caps
  /\ negotiated_caps' = caps
  /\ plugin' = IF g.plugin \in all_authentication_plugins THEN g.plugin ELSE "none"
  /\ response' = result.response
  /\ \/ result.error # "none" /\ Reject(result.error)
     \/ /\ result.error = "none"
        /\ pc' = IF "SSL" \in caps THEN "write_ssl_request" ELSE "write_response"
        /\ UNCHANGED <<error, channelVars>>

WriteSslRequest ==
  /\ pc = "write_ssl_request"
  /\ Send(ClientMessage("ssl_request", "", NoAuth))
  /\ pc' = "ssl_handshake"
  /\ UNCHANGED <<params, processorVars, error, channelVars, toClient, peerSent>>

\* channel::ssl_handshake creates the stream before it negotiates, so the
\* channel counts as encrypted even when the negotiation fails.
SslHandshake(ok) ==
  /\ pc = "ssl_handshake"
  /\ ssl_active' = TRUE
  /\ IF ok THEN pc' = "write_response" /\ UNCHANGED error
           ELSE pc' = "done" /\ error' = "tls"
  /\ UNCHANGED <<params, processorVars, current_caps, toClient, wire, peerSent>>

WriteResponse ==
  /\ pc = "write_response"
  /\ Send(ClientMessage("response", plugin, response))
  /\ pc' = "read_response"
  /\ UNCHANGED <<params, processorVars, error, channelVars, toClient, peerSent>>

CompleteNoCaps ==
  /\ pc = "read_response" /\ Receive("ok")
  /\ pc' = "done"
  /\ UNCHANGED <<processorVars, error, channelVars>>

\* process_handshake_server_response, by the kind of message.
Complete ==
  /\ pc = "read_response" /\ Receive("ok")
  /\ pc' = "done"
  /\ current_caps' = negotiated_caps
  /\ UNCHANGED <<processorVars, error, ssl_active>>

RejectResponse ==
  /\ pc = "read_response"
  /\ UNCHANGED processorVars
  /\ \/ Receive("error") /\ Reject("server_error")
     \/ \E t \in {"greeting", "greeting_v9", "other"} :
          Receive(t) /\ Reject("protocol_value_error")

FastAuthIsOk ==
  /\ pc = "read_response" /\ Receive("auth_more_data")
  /\ Head(toClient).challenge = FastAuthComplete
  /\ pc' = "done"
  /\ current_caps' = negotiated_caps
  /\ UNCHANGED <<processorVars, error, ssl_active>>

\* auth_result::wait_for_ok: read on.
WaitForOk ==
  /\ pc = "read_response" /\ Receive("auth_more_data")
  /\ Head(toClient).challenge = FastAuthComplete
  /\ UNCHANGED <<pc, processorVars, error, channelVars>>

\* An auth switch names a plug-in, auth more data goes on with the one in use.
Recalculate(name) ==
  LET result == calculate(name, Head(toClient).challenge, negotiated_caps) IN
  /\ plugin' = IF name \in all_authentication_plugins THEN name ELSE "none"
  /\ response' = result.response
  /\ UNCHANGED negotiated_caps
  /\ \/ result.error # "none" /\ Reject(result.error)
     \/ /\ result.error = "none"
        /\ pc' = "write_auth"
        /\ UNCHANGED <<error, channelVars>>

SwitchAuth ==
  /\ pc = "read_response" /\ Receive("auth_switch")
  /\ Recalculate(Head(toClient).plugin)

ContinueAuth ==
  /\ pc = "read_response" /\ Receive("auth_more_data")
  /\ Head(toClient).challenge # FastAuthComplete
  /\ Recalculate(plugin)

AuthNotWritten ==
  /\ pc = "write_auth"
  /\ pc' = "read_response"
  /\ UNCHANGED <<params, processorVars, error, channelVars, toClient, wire, peerSent>>

WriteAuth ==
  /\ pc = "write_auth"
  /\ Send(ClientMessage("auth_data", "", response))
  /\ pc' = "read_response"
  /\ UNCHANGED <<params, processorVars, error, channelVars, toClient, peerSent>>

\* A read or a write fails: neither interface touches the capabilities.
TransferError ==
  /\ pc # "done"
  /\ pc' = "done" /\ error' = "io"
  /\ UNCHANGED <<params, processorVars, channelVars, toClient, wire, peerSent>>

-----------------------------------------------------------------------------
Processing ==
  \/ RejectGreeting \/ RejectCapabilities \/ ProcessGreeting
  \/ Complete \/ RejectResponse \/ WaitForOk \/ SwitchAuth \/ ContinueAuth

Writing == WriteSslRequest \/ WriteResponse \/ WriteAuth

\* Any program at the other end.
Peer ==
  /\ peerSent < MaxMessages /\ Len(toClient) < MaxQueued
  /\ \E m \in PeerMessages : toClient' = Append(toClient, m)
  /\ peerSent' = peerSent + 1
  /\ UNCHANGED <<params, pc, processorVars, error, channelVars, wire>>

Next ==
  \/ Processing
  \/ Writing
  \/ \E ok \in BOOLEAN : SslHandshake(ok)
  \/ TransferError
  \/ Peer

Spec == Init /\ [][Next]_vars

-----------------------------------------------------------------------------
(* Properties *)

Auths ==
  [kind : {"none", "empty", "scramble", "plaintext"},
   plugin : PluginNames \cup {""}, challenge : Challenges \cup {""},
   password : Passwords \cup {""}]

Capabilities ==
  mandatory_capabilities \cup optional_capabilities \cup {"CONNECT_WITH_DB", "SSL"}

ClientMessages ==
  [type : {"ssl_request", "response", "auth_data"}, caps : SUBSET Capabilities,
   plugin : PluginNames \cup {"", "none"}, auth : Auths, database : BOOLEAN,
   secure : BOOLEAN]

TypeOK ==
  /\ params \in [ssl : Modes, database : BOOLEAN, password : Passwords \cup {""}, api : Apis]
  /\ pc \in {"read_greeting", "write_ssl_request", "ssl_handshake", "write_response",
             "read_response", "write_auth", "done"}
  /\ negotiated_caps \in SUBSET Capabilities
  /\ plugin \in all_authentication_plugins \cup {"none"}
  /\ response \in Auths
  /\ error \in {"none", "server_unsupported", "server_error", "protocol_value_error",
                "unknown_auth_plugin", "auth_plugin_requires_ssl", "tls", "io"}
  /\ ssl_active \in BOOLEAN /\ current_caps \in SUBSET Capabilities
  /\ toClient \in Seq(PeerMessages)
  /\ wire \in Seq(ClientMessages)
  /\ peerSent \in Nat

(* Why the next two hold: the inductive invariant of HandshakeProofs. *)

\* The greeting comes first.
NothingBeforeGreeting ==
  pc = "read_greeting" => response.kind = "none" /\ wire = <<>>

\* The password itself is computed only for a connection that negotiated TLS.
PlaintextNeedsSsl == response.kind = "plaintext" => use_ssl

\* Whoever negotiated TLS writes nothing but the request for it before the
\* stream exists.
SslBeforeCredentials ==
  pc \in {"write_response", "read_response", "write_auth"} /\ use_ssl => ssl_active

\* ssl_mode::require gets past the greeting only with TLS.
RequireNegotiated ==
  params.ssl = "require" /\ pc \notin {"read_greeting", "done"} => use_ssl

\* Whatever the peer asks for, in whatever order, the password itself is only
\* ever written to an encrypted stream: caching_sha2_password gives up instead.
NoPlaintextPassword ==
  \A i \in 1..Len(wire) : wire[i].auth.kind = "plaintext" => wire[i].secure

\* ssl_mode::require: nothing but the request to set up TLS goes out in clear,
\* and no peer can talk the client out of it.
RequireHonoured ==
  params.ssl = "require" =>
    \A i \in 1..Len(wire) : wire[i].type # "ssl_request" => wire[i].secure

\* A handshake that reports success has authenticated, has every capability
\* the rest of the library relies on and the encryption the caller asked for,
\* and the channel knows it.
EstablishedIsUsable ==
  pc = "done" /\ error = "none" =>
    /\ mandatory_capabilities \subseteq current_caps
    /\ current_caps = negotiated_caps
    /\ params.database => "CONNECT_WITH_DB" \in current_caps
    /\ ssl_active <=> "SSL" \in current_caps
    /\ params.ssl = "require" => ssl_active
    /\ \E i \in 1..Len(wire) : wire[i].type = "response"
=============================================================================
